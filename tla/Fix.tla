-------------------------------- MODULE Fix --------------------------------
(***************************************************************************)
(* How src/main/class_driver.c and src/main/cpr.c turn the position frames *)
(* of one aircraft into a position: from a pair of frames, else from one   *)
(* frame and the last position, and then only if it is no impossible jump. *)
(*                                                                         *)
(* One coordinate is modelled, the longitude on one parallel: a circle of  *)
(* 2 * Half cells from -Half to Half - 1, in ZE zones for even frames and  *)
(* ZE - 1 for odd ones.  A frame carries the place within its zone.  The   *)
(* constants keep the proportions of the code: half a zone is more than    *)
(* RefMax, RefMax is how far an aircraft flies in RefAge, and what it flies*)
(* in PairDt is too little to confuse a pair.  The latitude is decoded in  *)
(* the same way, without wrap.                                             *)
(***************************************************************************)
EXTENDS Integers

CONSTANTS
  Half, ZE,          \* half the circle; even zones
  PairDt, RefAge,    \* POS_PAIR_MAX_DT_US, POS_REF_MAX_AGE_US, in ticks
  RefMax, Slack,     \* POS_REF_MAX_KM; the 2 km of position_plausible()
  Rejects,           \* the 3 of position_plausible()
  Starts,            \* where the aircraft may be at first
  MaxBad,            \* bound on corrupted frames
  Past               \* bound on how far west of -Half a position is followed

ZO    == ZE - 1
Units == (2 * Half) \div (ZE * ZO)

ASSUME FixAssumption ==
  /\ {Half, ZE, ZO, PairDt, RefAge, RefMax, Slack, Rejects, Units} \subseteq Nat \ {0}
  /\ {MaxBad, Past} \subseteq Nat
  /\ 2 * Half = ZE * ZO * Units /\ Starts \subseteq -Half .. Half - 1
  /\ RefAge <= RefMax /\ 2 * RefMax < ZO * Units /\ 2 * PairDt < Units

VARIABLES
  x,                 \* where the aircraft is
  even, odd,         \* cpr_even, cpr_odd: raw and age in ticks, capped
  lon, age, rejects, \* lon, the age of pos_us (capped at RefAge), pos_rejects
  known,             \* pos_valid
  bad,               \* corrupted frames so far
  steady,            \* how reception is: patchy but clean, or steady with corrupted frames
  wrong              \* history: lon was not where the aircraft was

fixVars == <<x, even, odd, lon, age, rejects, known, bad, steady, wrong>>

Old     == PairDt + 1
NoFrame == [raw |-> 0, age |-> Old]

Zone(isOdd) == (2 * Half) \div (IF isOdd THEN ZO ELSE ZE)
Wrap(l)     == ((l + Half) % (2 * Half)) - Half
Dist(a, b)  == IF a > b THEN a - b ELSE b - a          \* flat_dist_km(): no wrap

FixInit ==
  /\ x \in Starts /\ even = NoFrame /\ odd = NoFrame
  /\ known = FALSE /\ lon = 0 /\ age = RefAge /\ rejects = 0
  /\ bad = 0 /\ steady \in BOOLEAN /\ wrong = FALSE

-----------------------------------------------------------------------------
(* cpr.c                                                                   *)

(* decode_lon(): the zone index from both frames, the place from the newer.*)
Airborne(e, o, isOdd) ==
  LET m == (2 * (e - o) + Units) \div (2 * Units)
  IN  Wrap(IF isOdd THEN Zone(TRUE) * (m % ZO) + o ELSE Zone(FALSE) * (m % ZE) + e)

(* cpr_decode_relative(): the cell nearest to the reference, not nearest   *)
(* around the circle.                                                      *)
Relative(ref, raw, isOdd) ==
  LET z == Zone(isOdd)
      r == z * (ref \div z + (z + 2 * (ref % z) - 2 * raw) \div (2 * z)) + raw
  IN  IF r > Half THEN r - 2 * Half ELSE r

Nearest(l, ref, isOdd) == 2 * Dist(l, ref) <= Zone(isOdd)

-----------------------------------------------------------------------------
(* class_driver.c                                                          *)

(* A pair is used however far apart its frames came.                       *)
Decoded_AnyPair(e, o, isOdd, straddles) ==
  IF e.age <= Old /\ o.age <= Old /\ ~straddles
    THEN {Airborne(e.raw, o.raw, isOdd)}
    ELSE {}

(* The single frame is tried first.                                        *)
Decoded_SingleFirst(e, o, isOdd, straddles) ==
  LET raw == IF isOdd THEN o.raw ELSE e.raw
      l   == Relative(lon, raw, isOdd)
  IN  IF known /\ age < RefAge /\ Nearest(l, lon, isOdd) THEN {l}
      ELSE IF e.age <= PairDt /\ o.age <= PairDt /\ ~straddles THEN {Airborne(e.raw, o.raw, isOdd)}
      ELSE {}

(* decode_position(): the pair, unless it straddles two bands of latitude; *)
(* else the single frame; or nothing.                                      *)
Decoded(e, o, isOdd, straddles) ==
  LET raw  == IF isOdd THEN o.raw ELSE e.raw
      l    == Relative(lon, raw, isOdd)
  IN  IF e.age <= PairDt /\ o.age <= PairDt /\ ~straddles
        THEN {Airborne(e.raw, o.raw, isOdd)}
      ELSE IF known /\ age < RefAge /\ Nearest(l, lon, isOdd) /\ Dist(l, lon) <= RefMax
        THEN {l}
      ELSE {}

MaxJump == IF Slack + age > RefMax THEN RefMax ELSE Slack + age

(* position_plausible().                                                   *)
Unchecked    == ~known \/ age >= RefAge
PositionPlausible(l) == Dist(l, lon) <= MaxJump

Take(l, n) ==
  /\ known' = TRUE /\ lon' = l /\ age' = 0 /\ rejects' = n
  /\ wrong' = (Wrap(l) # x)

Drop ==
  /\ rejects' = rejects + 1 /\ UNCHANGED <<known, lon, age, wrong>>

Judge(l) ==
  \/ Unchecked /\ Take(l, rejects)
  \/ ~Unchecked /\ PositionPlausible(l) /\ Take(l, 0)
  \/ ~Unchecked /\ ~PositionPlausible(l) /\ rejects + 1 < Rejects /\ Drop
  \/ ~Unchecked /\ ~PositionPlausible(l) /\ rejects + 1 >= Rejects /\ Take(l, 0)

(* on_msg() with a position frame, which is stored whatever it says.       *)
CprFrame(isOdd) ==
  \E raw \in 0 .. Zone(isOdd) - 1, straddles \in (IF steady THEN {FALSE} ELSE BOOLEAN) :
    LET e == IF isOdd THEN even ELSE [raw |-> raw, age |-> 0]
        o == IF isOdd THEN [raw |-> raw, age |-> 0] ELSE odd
        d == Decoded(e, o, isOdd, straddles)
    IN  /\ even' = e /\ odd' = o
        /\ IF raw = x % Zone(isOdd) THEN UNCHANGED bad ELSE steady /\ bad < MaxBad /\ bad' = bad + 1
        /\ \/ d = {} /\ UNCHANGED <<known, lon, age, rejects, wrong>>
           \/ \E l \in d : Judge(l)
        /\ UNCHANGED <<x, steady>>

EvenFrame == CprFrame(FALSE)
OddFrame  == CprFrame(TRUE)

(* Time passes and the aircraft flies on.                                  *)
OlderFrame(f) == [f EXCEPT !.age = IF f.age < Old THEN f.age + 1 ELSE Old]

Tick ==
  /\ steady => even.age = 0 /\ odd.age = 0
  /\ lon >= -(Half + Past)
  /\ \E d \in {-1, 0, 1} : x' = Wrap(x + d)
  /\ even' = OlderFrame(even) /\ odd' = OlderFrame(odd)
  /\ age' = IF age < RefAge THEN age + 1 ELSE age
  /\ UNCHANGED <<lon, rejects, known, bad, steady, wrong>>

(* Not heard at all for CONTACT_TTL_US: the next message starts a new row. *)
Lost ==
  /\ even.age = Old /\ odd.age = Old
  /\ even' = NoFrame /\ odd' = NoFrame
  /\ known' = FALSE /\ lon' = 0 /\ age' = RefAge /\ rejects' = 0 /\ wrong' = FALSE
  /\ UNCHANGED <<x, bad, steady>>

FixNext == EvenFrame \/ OddFrame \/ Tick \/ Lost
FixSpec == FixInit /\ [][FixNext]_fixVars

-----------------------------------------------------------------------------
(* Correctness                                                             *)

(* With no frame corrupted every position taken is where the aircraft was, *)
(* whichever frames are missed, from pairs and from single frames, across  *)
(* zones and across the 180th meridian.                                    *)
FixIsRight == bad = 0 => ~wrong

(* A position that a corrupted frame spoilt is put right by steady         *)
(* reception, although jumps are dropped and the bad frame is kept for     *)
(* pairing (position_plausible, decode_position).                          *)
ComesRight == wrong ~> ~wrong
=============================================================================
