-------------------------------- MODULE Scan --------------------------------
(***************************************************************************)
(* mode_s_detect() of src/main/mode-s.c: how one buffer of magnitudes is   *)
(* searched for frames.  A position whose first samples look like a        *)
(* preamble is read at once and, if that gives no frame, once more after   *)
(* its samples were corrected for phase; they are put back afterwards,     *)
(* since later positions read them too.  What the samples say is left      *)
(* open; where the search looks, how often and what it counts is not.      *)
(***************************************************************************)
EXTENDS Naturals, Sequences, FiniteSets

CONSTANTS
  MagLen,              \* samples of a buffer
  Preamble,            \* MODE_S_PREAMBLE_US * 2
  ShortBits, LongBits, \* samples of the bits of a frame, two for each
  Word                 \* 2^32, j is unsigned

Full == Preamble + LongBits

ASSUME ScanAssumption ==
  /\ Preamble \in Nat \ {0} /\ ShortBits \in Nat \ {0}
  /\ LongBits \in Nat /\ ShortBits < LongBits
  /\ MagLen \in Nat /\ Word \in Nat /\ Full < MagLen /\ MagLen < Word

VARIABLES
  j, use_correction,   \* the loop
  dirty,               \* samples that are not as they were received
  passed,              \* frames handed to the callback, as they came
  stat_badcrc,
  tries,               \* history: how often each position was read
  first                \* what the reading before the correction gave

scanVars == <<j, use_correction, dirty, passed, stat_badcrc, tries, first>>

ScanInit ==
  /\ j = 0 /\ use_correction = FALSE
  /\ dirty = {} /\ passed = <<>> /\ stat_badcrc = 0
  /\ tries = [p \in 0 .. MagLen - 1 |-> 0]
  /\ first = "none"

Inc(n) == (n + 1) % Word
Dec(n) == (n + Word - 1) % Word

Searching == j < MagLen - Full

\* No preamble at j.
Skip ==
  /\ Searching /\ ~ use_correction
  /\ j' = Inc(j)
  /\ UNCHANGED <<use_correction, dirty, passed, stat_badcrc, tries, first>>

\* What reading the samples of a frame may give: too little signal, a first bit
\* that is none, a wrong checksum, a short or a long frame.
Readings == {"quiet", "errors", "bad", "short", "long"}

\* Only a frame that has a sample before it can be found out of phase; without
\* a correction the second reading is the first.
MayRead(r, corrected) == use_correction /\ ~ corrected => r = first

\* apply_phase_correction() changes the first sample of every bit but the first;
\* the copy that is put back is of all the bits.
Disturbed(p) == {q \in p + Preamble + 2 .. p + Full - 2 : (q - p - Preamble) % 2 = 0}
Restored_AShortFrame(p) == p + Preamble .. p + Preamble + ShortBits - 1
Restored(p)  == p + Preamble .. p + Full - 1

Span(r)      == Preamble + (IF r = "short" THEN ShortBits ELSE LongBits)
Good(r)      == r \in {"short", "long"}

\* A reading too quiet ends the candidate, one without a frame is retried once.
Retries_Quiet(r) == ~ use_correction \/ r = "quiet"
Retries(r)       == ~ use_correction /\ r # "quiet"

\* Only the failure of the retry counts.
Counts(r)      == r = "bad" /\ use_correction

\* The position after a frame, of which the loop takes one step more.
Landing(r)            == j + Span(r)

Read(r, corrected) ==
  /\ Searching
  /\ corrected => use_correction /\ j > 0
  /\ MayRead(r, corrected)
  /\ dirty' = (IF corrected THEN dirty \cup Disturbed(j) ELSE dirty)
                 \ (IF use_correction THEN Restored(j) ELSE {})
  /\ tries' = [tries EXCEPT ![j] = @ + 1]
  /\ stat_badcrc' = IF Counts(r) THEN stat_badcrc + 1 ELSE stat_badcrc
  /\ passed' = IF Good(r) THEN Append(passed, [at |-> j, span |-> Span(r)]) ELSE passed
  /\ j' = IF Good(r) THEN Inc(Landing(r))
          ELSE IF Retries(r) THEN Inc(Dec(j)) ELSE Inc(j)
  /\ use_correction' = (~ Good(r) /\ Retries(r))
  /\ first' = IF ~ Good(r) /\ Retries(r) THEN r ELSE "none"

\* The next buffer; what was heard of a frame at the end of this one is lost.
NextBuffer ==
  /\ ~ Searching
  /\ j' = 0 /\ use_correction' = FALSE /\ first' = "none"
  /\ dirty' = {} /\ passed' = <<>> /\ stat_badcrc' = 0
  /\ tries' = [p \in 0 .. MagLen - 1 |-> 0]

ScanStep == Skip \/ \E r \in Readings, corrected \in BOOLEAN : Read(r, corrected)
ScanNext == ScanStep \/ NextBuffer
ScanSpec == ScanInit /\ [][ScanNext]_scanVars

-----------------------------------------------------------------------------
(* Properties *)

\* Every candidate is judged on the samples that were received: however the
\* corrections of earlier candidates overlap its own samples, none is left.
SamplesAsReceived == ~ use_correction => dirty = {}

\* A frame is handed on once: the frames of a buffer follow each other without
\* a common sample, no position is read more than twice, none inside a frame
\* that was good, and a candidate is counted once, as good or as bad.
EachFrameOnce ==
  /\ \A k \in 1 .. Len(passed) - 1 : passed[k].at + passed[k].span < passed[k + 1].at
  /\ \A p \in DOMAIN tries : tries[p] <= 2
  /\ \A k \in DOMAIN passed : \A p \in DOMAIN tries :
       passed[k].at < p /\ p < passed[k].at + passed[k].span => tries[p] = 0
  /\ Len(passed) + stat_badcrc <= Cardinality({p \in DOMAIN tries : tries[p] > 0})
=============================================================================
