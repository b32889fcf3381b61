--------------------------- MODULE Receiver_proofs ---------------------------
(***************************************************************************)
(* Proofs about the stages of the Receiver, for any buffers, frames,       *)
(* values, positions and times.                                            *)
(*                                                                         *)
(* Position: no setting is lost between the command and the receiver,      *)
(* because while the command copies it the receiver is not running (Turns),*)
(* and a copy in progress is right unless it will be made again (Copied).  *)
(*                                                                         *)
(* Scan: nothing was read ahead of the loop (ReadUpTo) and every frame     *)
(* lies behind it (FramesBehind); what a correction disturbs is put back   *)
(* within the step.                                                        *)
(*                                                                         *)
(* Contact: each part of a row has the age of the squitter that it shows,  *)
(* so that a reply is taken only when the squitter is no longer fresh.     *)
(*                                                                         *)
(* Phase: by what factor the first sample of a bit is corrected hangs on   *)
(* the bit before as it was corrected, but a clear bit stays as clear by   *)
(* either factor (ClearIsFirm), so what the frame says does not.           *)
(*                                                                         *)
(* Fix: a frame that may still be paired, and the last position while it   *)
(* serves as a reference, are at most as many cells behind the aircraft as *)
(* ticks old (HeardAs, Flown).  Division by the zones' widths then gives   *)
(* the same zone that the aircraft is in (PairIsRight, SingleIsRight).     *)
(***************************************************************************)
EXTENDS Receiver, FiniteSetTheorems, SequenceTheorems, TLAPS

-----------------------------------------------------------------------------
(* The position of the antenna (Position).                                 *)

Inline  == {"lat", "lon", "range"}
Pending == req \/ cmd \in {"cfg2", "request", "flag"}     \* the receiver will be told again

(* Who copies: while the command does it itself the receiver never does,   *)
(* because it was not running when the command looked.                     *)
Turns ==
  /\ running <=> rx # "off"
  /\ req => running
  /\ cmd = "flag" => running
  /\ cmd \in Inline => ~req /\ rx \in {"off", "top", "demod"}

(* What has been copied so far is what s_pos_cfg says, unless it changed.  *)
Copied ==
  /\ rx = "lon" /\ ~Pending => pos.lat = cfg.lat
  /\ rx = "range" /\ ~Pending => pos = cfg
  /\ cmd = "lon" => pos.lat = cfg.lat
  /\ cmd = "range" => pos = cfg

(* How far the command has stored its argument.                            *)
Stored ==
  /\ cmd = "nvs2" => nvs.lat = new
  /\ cmd = "cfg" => nvs = Whole(new)
  /\ cmd = "cfg2" => nvs = Whole(new) /\ cfg.lat = new
  /\ cmd \in {"request", "flag"} \cup Inline => nvs = cfg

PosInv == TypeOK /\ Turns /\ Copied /\ NoSettingLost /\ Stored /\ StoredIsShown

USE DEF Pair, Whole, Inline

(* At boot everything is read from NVS.                                    *)
LEMMA PosInitInv == Init => PosInv
<1> SUFFICES ASSUME Init PROVE PosInv  OBVIOUS
<1>1. TypeOK  BY PlaceAssumption DEF Init, TypeOK
<1>2. Turns /\ Copied /\ Stored  BY DEF Init, Turns, Copied, Pending, Stored
<1>3. NoSettingLost /\ StoredIsShown  BY DEF Init, NoSettingLost, StoredIsShown, Handing
<1>4. QED  BY <1>1, <1>2, <1>3 DEF PosInv

(* Each action keeps the types.                                            *)
LEMMA TypeStep == TypeOK /\ [Next]_vars => TypeOK'
<1> SUFFICES ASSUME TypeOK, [Next]_vars PROVE TypeOK'  OBVIOUS
<1> USE DEF TypeOK
<1>1. CASE Command  BY <1>1 DEF Command
<1>2. CASE Set
  BY <1>2 DEF Set, StoreLat, StoreLon, StoreFails, CfgLat, CfgLon, Request, Flag, ApplyLat, ApplyLon, ApplyRange
<1>3. CASE Receiver
  BY <1>3 DEF Receiver, Start, Top, Clear, RxLat, RxLon, RxRange, Demod
<1>4. CASE UNCHANGED vars  BY <1>4 DEF vars
<1>5. QED  BY <1>1, <1>2, <1>3, <1>4 DEF Next

(* Every step keeps the copies to one task at a time.                      *)
LEMMA TurnsStep == PosInv /\ [Next]_vars => Turns'
<1> SUFFICES ASSUME PosInv, [Next]_vars PROVE Turns'  OBVIOUS
<1> USE DEF PosInv, TypeOK, Turns
<1>1. CASE Command  BY <1>1 DEF Command
<1>2. CASE Set
  BY <1>2 DEF Set, StoreLat, StoreLon, StoreFails, CfgLat, CfgLon, Request, Flag, ApplyLat, ApplyLon, ApplyRange
<1>3. CASE Receiver
  BY <1>3 DEF Receiver, Start, Top, Clear, RxLat, RxLon, RxRange, Demod
<1>4. CASE UNCHANGED vars  BY <1>4 DEF vars
<1>5. QED  BY <1>1, <1>2, <1>3, <1>4 DEF Next

(* Copied and NoSettingLost need each other: the last step of a copy makes *)
(* every range right, and nothing else disturbs it but a change of the     *)
(* setting, which is then pending.                                         *)
LEMMA CopyStep == PosInv /\ [Next]_vars => Copied' /\ NoSettingLost'
<1> SUFFICES ASSUME PosInv, [Next]_vars PROVE Copied' /\ NoSettingLost'  OBVIOUS
<1> USE DEF PosInv, TypeOK, Turns, Copied, Pending, NoSettingLost, Handing
<1>1. CASE Command  BY <1>1 DEF Command
<1>2. CASE Set
  <2>1. CASE StoreLat \/ StoreLon \/ StoreFails  BY <2>1 DEF StoreLat, StoreLon, StoreFails
  <2>2. CASE CfgLat \/ CfgLon  BY <2>2 DEF CfgLat, CfgLon
  <2>3. CASE Request \/ Flag  BY <2>3 DEF Request, Flag
  <2>4. CASE ApplyLat  BY <2>4 DEF ApplyLat
  <2>5. CASE ApplyLon  BY <2>5 DEF ApplyLon
  <2>6. CASE ApplyRange  BY <2>6 DEF ApplyRange
  <2>7. QED  BY <1>2, <2>1, <2>2, <2>3, <2>4, <2>5, <2>6 DEF Set
<1>3. CASE Receiver
  <2>1. CASE Start \/ Top \/ Clear  BY <2>1 DEF Start, Top, Clear
  <2>2. CASE RxLat  BY <2>2 DEF RxLat
  <2>3. CASE RxLon  BY <2>3 DEF RxLon
  <2>4. CASE RxRange  BY <2>4 DEF RxRange
  <2>5. CASE Demod  BY <2>5 DEF Demod
  <2>6. QED  BY <1>3, <2>1, <2>2, <2>3, <2>4, <2>5 DEF Receiver
<1>4. CASE UNCHANGED vars  BY <1>4 DEF vars
<1>5. QED  BY <1>1, <1>2, <1>3, <1>4 DEF Next

(* Every step keeps what the command has stored so far.                    *)
LEMMA StoreStep == PosInv /\ [Next]_vars => Stored' /\ StoredIsShown'
<1> SUFFICES ASSUME PosInv, [Next]_vars PROVE Stored' /\ StoredIsShown'  OBVIOUS
<1> USE DEF PosInv, TypeOK, Stored, StoredIsShown
<1>1. CASE Command  BY <1>1 DEF Command
<1>2. CASE Set
  <2>1. CASE StoreLat \/ StoreLon \/ StoreFails  BY <2>1 DEF StoreLat, StoreLon, StoreFails
  <2>2. CASE CfgLat \/ CfgLon  BY <2>2 DEF CfgLat, CfgLon
  <2>3. CASE Request \/ Flag  BY <2>3 DEF Request, Flag
  <2>4. CASE ApplyLat \/ ApplyLon \/ ApplyRange  BY <2>4 DEF ApplyLat, ApplyLon, ApplyRange
  <2>5. QED  BY <1>2, <2>1, <2>2, <2>3, <2>4 DEF Set
<1>3. CASE Receiver
  BY <1>3 DEF Receiver, Start, Top, Clear, RxLat, RxLon, RxRange, Demod
<1>4. CASE UNCHANGED vars  BY <1>4 DEF vars
<1>5. QED  BY <1>1, <1>2, <1>3, <1>4 DEF Next

(* The invariant of the handover holds throughout.                         *)
THEOREM PosInvariant == Spec => []PosInv
<1>1. PosInv /\ [Next]_vars => PosInv'
  BY TypeStep, TurnsStep, CopyStep, StoreStep DEF PosInv
<1>2. QED  BY PosInitInv, <1>1, PTL DEF Spec

(* Whenever nobody has anything left to do, every range in the table is    *)
(* computed from the position last set: the flag is never cleared over a   *)
(* newer setting, and a command that copies itself is not overtaken.       *)
THEOREM SettingKept == Spec => []NoSettingLost
BY PosInvariant, PTL DEF PosInv

(* A command that ends without an error leaves NVS and s_pos_cfg the same. *)
THEOREM ShownIsStored == Spec => []StoredIsShown
BY PosInvariant, PTL DEF PosInv

(* The variables keep their types.                                         *)
THEOREM PositionTyped == Spec => []TypeOK
BY PosInvariant, PTL DEF PosInv

HIDE DEF Pair, Whole, Inline

-----------------------------------------------------------------------------
(* The search for frames (Scan).                                           *)

Positions == 0 .. MagLen - 1
FrameRecord     == [at : Nat, span : Nat]

ScanTypeOK ==
  /\ j \in 0 .. MagLen /\ use_correction \in BOOLEAN
  /\ passed \in Seq(FrameRecord) /\ stat_badcrc \in Nat
  /\ tries \in [Positions -> Nat]

(* Nothing was read ahead of the loop, and the position that it is at was  *)
(* read if and only if it is now read again.                               *)
ReadUpTo ==
  /\ use_correction => Searching
  /\ \A p \in Positions : p > j => tries[p] = 0
  /\ \A p \in Positions : p = j => tries[p] = IF use_correction THEN 1 ELSE 0

(* All frames lie behind the loop.                                         *)
FramesBehind == \A k \in DOMAIN passed : passed[k].at + passed[k].span < j

(* Positions that the loop is done with; each was counted at most once.    *)
LeftBehind         == {p \in Positions : p < j /\ tries[p] > 0}
CountedOnce  == Len(passed) + stat_badcrc <= Cardinality(LeftBehind)

FramesApart  == \A k \in 1 .. Len(passed) - 1 : passed[k].at + passed[k].span < passed[k + 1].at
ReadAtMostTwice == \A p \in DOMAIN tries : tries[p] <= 2
FramesUnread == \A k \in DOMAIN passed : \A p \in DOMAIN tries :
                  passed[k].at < p /\ p < passed[k].at + passed[k].span => tries[p] = 0

ScanInv == /\ ScanTypeOK /\ dirty = {} /\ ReadUpTo /\ FramesBehind /\ CountedOnce
           /\ FramesApart /\ ReadAtMostTwice /\ FramesUnread

USE DEF Positions

-----------------------------------------------------------------------------
(* The loop's index.                                                       *)

(* A buffer is longer than the longest frame, and shorter than the index.   *)
LEMMA ScanSizes ==
  /\ Preamble \in Nat /\ ShortBits \in Nat /\ LongBits \in Nat /\ MagLen \in Nat /\ Word \in Nat
  /\ 0 < Preamble /\ 0 < ShortBits /\ ShortBits < LongBits /\ Full = Preamble + LongBits
  /\ Full < MagLen /\ MagLen < Word
  BY ScanAssumption DEF Full

(* A number below w is its own remainder, and so is what is one turn above.*)
LEMMA Remainder ==
  ASSUME NEW w \in Nat, NEW i \in Nat, i < w
  PROVE  i % w = i /\ (i + w) % w = i
<1>1. i % w = i
  OBVIOUS
<1>2. (i + w) % w = i
  <2>1. \A y \in 0 .. 2 * w - 1 : y % w = IF y < w THEN y ELSE y - w
    OBVIOUS
  <2> QED BY <2>1
<1> QED BY <1>1, <1>2

(* Within a buffer the index does not wrap, not even when the loop steps   *)
(* back from its first sample.                                             *)
LEMMA Stepping ==
  ASSUME NEW i \in Nat, i < MagLen
  PROVE  Inc(i) = i + 1 /\ Inc(Dec(i)) = i
<1>1. Inc(i) = i + 1
  BY ScanSizes, Remainder DEF Inc
<1>2. CASE i = 0
  <2>1. Dec(i) = Word - 1
    BY <1>2, ScanSizes, Remainder DEF Dec
  <2>2. (0 + Word) % Word = 0
    BY ScanSizes, Remainder
  <2>3. Word - 1 + 1 = 0 + Word
    BY ScanSizes
  <2> QED BY <1>1, <1>2, <2>1, <2>2, <2>3 DEF Inc
<1>3. CASE i > 0
  <2>1. /\ i - 1 \in Nat /\ i - 1 < Word /\ i - 1 + 1 = i /\ i < Word
        /\ i + Word - 1 = (i - 1) + Word
    BY <1>3, ScanSizes
  <2>2. Dec(i) = i - 1
    BY <2>1, ScanSizes, Remainder DEF Dec
  <2> QED BY <1>1, <2>1, <2>2, ScanSizes, Remainder DEF Inc
<1> QED BY <1>1, <1>2, <1>3

(* Where the loop goes on after a reading.                                 *)
LEMMA Moves ==
  ASSUME ScanTypeOK, NEW r \in Readings, NEW corrected, Read(r, corrected)
  PROVE  /\ j \in Nat /\ j + Full < MagLen /\ Span(r) \in Nat /\ Span(r) <= Full
         /\ Good(r) => j' = j + Span(r) + 1
         /\ ~ Good(r) /\ Retries(r) => j' = j
         /\ ~ Good(r) /\ ~ Retries(r) => j' = j + 1
<1>1. j \in Nat /\ j + Full < MagLen
  BY ScanSizes DEF ScanTypeOK, Read, Searching
<1>2. Span(r) \in Nat /\ Span(r) <= Full
  BY ScanSizes DEF Span
<1>3. Landing(r) = j + Span(r) /\ Landing(r) \in Nat /\ Landing(r) < MagLen
  BY <1>1, <1>2, ScanSizes DEF Landing
<1>4. Inc(Landing(r)) = Landing(r) + 1 /\ Inc(j) = j + 1 /\ Inc(Dec(j)) = j
  <2>1. j < MagLen
    BY <1>1, ScanSizes
  <2> QED BY <1>1, <1>3, <2>1, Stepping
<1> QED BY <1>1, <1>2, <1>3, <1>4 DEF Read

-----------------------------------------------------------------------------
(* Every step keeps the invariant.                                         *)

(* What is known of the frames handed on.                                  *)
LEMMA Frames ==
  ASSUME NEW s \in Seq(FrameRecord)
  PROVE  /\ DOMAIN s = 1 .. Len(s) /\ Len(s) \in Nat
         /\ \A k \in DOMAIN s : s[k].at \in Nat /\ s[k].span \in Nat
<1>1. DOMAIN s = 1 .. Len(s) /\ Len(s) \in Nat
  OBVIOUS
<1>2. \A k \in 1 .. Len(s) : s[k] \in FrameRecord
  BY ElementOfSeq
<1> QED BY <1>1, <1>2 DEF FrameRecord

(* At the start of a buffer.                                               *)
FreshBuffer == /\ j = 0 /\ use_correction = FALSE /\ dirty = {} /\ passed = << >>
         /\ stat_badcrc = 0 /\ tries = [p \in Positions |-> 0]

(* Nothing of a new buffer was read.                                       *)
LEMMA FreshBufferInv == FreshBuffer => ScanInv
<1> SUFFICES ASSUME FreshBuffer PROVE ScanInv
  OBVIOUS
<1> USE DEF FreshBuffer
<1>1. ScanTypeOK /\ Len(passed) = 0 /\ DOMAIN passed = {}
  BY ScanSizes DEF ScanTypeOK
<1>2. ReadUpTo
  BY ScanSizes DEF ReadUpTo
<1>3. CountedOnce
  <2>1. LeftBehind = {}
    BY DEF LeftBehind
  <2> QED BY <1>1, <2>1, FS_EmptySet DEF CountedOnce
<1>4. FramesBehind /\ FramesUnread
  BY <1>1 DEF FramesBehind, FramesUnread
<1>5. FramesApart /\ ReadAtMostTwice
  BY <1>1, ScanSizes DEF FramesApart, ReadAtMostTwice
<1> QED BY <1>1, <1>2, <1>3, <1>4, <1>5 DEF ScanInv

(* Going on where there is no preamble reads nothing.                      *)
LEMMA SkipInv == ScanInv /\ Skip => ScanInv'
<1> SUFFICES ASSUME ScanInv, Skip PROVE ScanInv'
  OBVIOUS
<1> USE DEF ScanInv
<1>1. j \in Nat /\ j + Full < MagLen /\ j' = j + 1
  <2>1. j \in Nat /\ j < MagLen - Full
    BY ScanSizes DEF Skip, Searching, ScanTypeOK
  <2>2. j + Full < MagLen /\ j < MagLen
    BY <2>1, ScanSizes
  <2> QED BY <2>1, <2>2, Stepping DEF Skip
<1>2. UNCHANGED <<use_correction, dirty, passed, stat_badcrc, tries>> /\ use_correction = FALSE
  BY DEF Skip, ScanTypeOK
<1>3. ScanTypeOK'
  BY <1>1, <1>2, ScanSizes DEF ScanTypeOK
<1>4. ReadUpTo'
  BY <1>1, <1>2, ScanSizes DEF ReadUpTo, ScanTypeOK
<1>5. FramesBehind'
  BY <1>1, <1>2, Frames DEF FramesBehind, ScanTypeOK
<1>6. CountedOnce'
  <2>1. LeftBehind' = LeftBehind
    BY <1>1, <1>2, ScanSizes DEF LeftBehind, ReadUpTo, ScanTypeOK
  <2> QED BY <1>2, <2>1 DEF CountedOnce
<1>7. (FramesApart /\ ReadAtMostTwice /\ FramesUnread)'
  BY <1>2 DEF FramesApart, ReadAtMostTwice, FramesUnread
<1> QED BY <1>2, <1>3, <1>4, <1>5, <1>6, <1>7

(* Below the last of n.                                                    *)
LEMMA NotLast ==
  ASSUME NEW n \in Nat, NEW k \in 1 .. n, k # n
  PROVE  k \in 1 .. n - 1 /\ k + 1 \in 1 .. n
  OBVIOUS

(* Reading a position keeps it: the samples that a correction changes are  *)
(* among those put back, only the position itself becomes one more that    *)
(* was read, and a frame ends before the loop goes on.                     *)
LEMMA ReadInv ==
  ASSUME ScanInv, NEW r \in Readings, NEW corrected \in BOOLEAN, Read(r, corrected)
  PROVE  ScanInv'
<1> DEFINE frame == [at |-> j, span |-> Span(r)]
<1>0. ScanTypeOK /\ dirty = {} /\ ReadUpTo /\ FramesBehind /\ CountedOnce
      /\ FramesApart /\ ReadAtMostTwice /\ FramesUnread
  BY DEF ScanInv
<1>1. /\ j \in Nat /\ j + Full < MagLen /\ Span(r) \in Nat /\ Span(r) <= Full
      /\ Good(r) => j' = j + Span(r) + 1
      /\ ~ Good(r) /\ Retries(r) => j' = j
      /\ ~ Good(r) /\ ~ Retries(r) => j' = j + 1
  BY <1>0, Moves
<1>2. j \in Positions /\ j' \in 0 .. MagLen /\ j <= j' /\ j < MagLen /\ Full \in Nat
  BY <1>1, ScanSizes
<1>3. /\ use_correction \in BOOLEAN /\ tries \in [Positions -> Nat] /\ stat_badcrc \in Nat
      /\ passed \in Seq(FrameRecord) /\ frame \in FrameRecord
  BY <1>0, <1>1 DEF ScanTypeOK, FrameRecord
<1>4. /\ tries' = [tries EXCEPT ![j] = @ + 1]
      /\ use_correction' = (~ Good(r) /\ Retries(r))
      /\ Good(r) => passed' = Append(passed, frame)
      /\ ~ Good(r) => passed' = passed
      /\ stat_badcrc' = IF Counts(r) THEN stat_badcrc + 1 ELSE stat_badcrc
  BY DEF Read
<1>5. tries[j] = IF use_correction THEN 1 ELSE 0
  BY <1>0, <1>2 DEF ReadUpTo
<1>6. /\ tries' \in [Positions -> Nat] /\ tries'[j] = tries[j] + 1
      /\ \A p \in Positions : p # j => tries'[p] = tries[p]
  BY <1>2, <1>3, <1>4
<1>7. /\ DOMAIN passed = 1 .. Len(passed) /\ Len(passed) \in Nat
      /\ \A k \in DOMAIN passed : passed[k].at \in Nat /\ passed[k].span \in Nat
  BY <1>3, Frames
<1>8. Good(r) => /\ passed' \in Seq(FrameRecord) /\ Len(passed') = Len(passed) + 1
                 /\ DOMAIN passed' = 1 .. Len(passed) + 1
                 /\ \A k \in 1 .. Len(passed) : passed'[k] = passed[k]
                 /\ passed'[Len(passed) + 1] = frame
  <2>1. /\ Append(passed, frame) \in Seq(FrameRecord) /\ Len(Append(passed, frame)) = Len(passed) + 1
        /\ \A k \in 1 .. Len(passed) : Append(passed, frame)[k] = passed[k]
        /\ Append(passed, frame)[Len(passed) + 1] = frame
    BY <1>3, AppendProperties
  <2>2. DOMAIN Append(passed, frame) = 1 .. Len(passed) + 1
    BY <1>7, <2>1, Frames
  <2> QED BY <1>4, <2>1, <2>2
<1>9. frame.at = j /\ frame.span = Span(r)
  OBVIOUS
<1> HIDE DEF frame
<1>10. ScanTypeOK'
  BY <1>0, <1>2, <1>3, <1>4, <1>6, <1>8 DEF ScanTypeOK
<1>11. dirty' = {}
  <2>1. Disturbed(j) \subseteq Restored(j)
    BY <1>1, <1>2, ScanSizes DEF Disturbed, Restored
  <2> QED BY <1>0, <2>1 DEF Read
<1>12. ReadUpTo'
  <2>1. \A p \in Positions : p > j => tries'[p] = 0
    BY <1>0, <1>2, <1>6 DEF ReadUpTo
  <2>2. CASE ~ Good(r) /\ Retries(r)
    <3>1. Searching' /\ tries'[j] = 1
      BY <1>1, <1>3, <1>5, <1>6, <2>2 DEF Read, Searching, Retries
    <3> QED BY <1>1, <1>4, <2>1, <2>2, <3>1 DEF ReadUpTo
  <2>3. CASE Good(r) \/ ~ Retries(r)
    <3>1. ~ use_correction'
      BY <1>4, <2>3, Zenon
    <3>2. j' > j
      BY <1>1, <2>3
    <3> QED BY <1>1, <1>2, <2>1, <3>1, <3>2 DEF ReadUpTo
  <2> QED BY <2>2, <2>3
<1>13. FramesBehind'
  <2>1. \A k \in DOMAIN passed : passed[k].at + passed[k].span < j'
    BY <1>0, <1>1, <1>2, <1>7 DEF FramesBehind
  <2>2. Good(r) => j + Span(r) < j'
    BY <1>1
  <2> QED BY <1>4, <1>7, <1>8, <1>9, <2>1, <2>2 DEF FramesBehind
<1>14. CountedOnce'
  <2>1. IsFiniteSet(LeftBehind) /\ Cardinality(LeftBehind) \in Nat
    <3>1. IsFiniteSet(Positions)
      BY ScanSizes, FS_Interval
    <3>2. LeftBehind \in SUBSET Positions
      BY DEF LeftBehind
    <3> QED BY <3>1, <3>2, FS_Subset, FS_CardinalityType
  <2>2. CASE ~ Good(r) /\ Retries(r)
    <3>1. LeftBehind' = LeftBehind
      BY <1>1, <1>2, <1>6, <2>2 DEF LeftBehind
    <3>2. passed' = passed /\ stat_badcrc' = stat_badcrc
      BY <1>4, <2>2 DEF Retries, Counts
    <3> QED BY <1>0, <3>1, <3>2 DEF CountedOnce
  <2>3. CASE Good(r) \/ ~ Retries(r)
    <3>1. LeftBehind' = LeftBehind \cup {j}
      <4>1. j' > j
        BY <1>1, <2>3
      <4>2. \A p \in Positions : p > j => tries'[p] = 0 /\ tries[p] = 0
        BY <1>0, <1>2, <1>6 DEF ReadUpTo
      <4>3. tries'[j] > 0
        BY <1>2, <1>3, <1>6
      <4>4. ASSUME NEW p \in Positions
            PROVE  p < j' /\ tries'[p] > 0 <=> (p < j /\ tries[p] > 0) \/ p = j
        BY <1>1, <1>2, <1>6, <4>1, <4>2, <4>3
      <4> QED BY <1>2, <4>4 DEF LeftBehind
    <3>2. j \notin LeftBehind
      BY <1>1 DEF LeftBehind
    <3>3. Cardinality(LeftBehind') = Cardinality(LeftBehind) + 1
      BY <2>1, <3>1, <3>2, FS_AddElement
    <3>4. Len(passed') + stat_badcrc' <= Len(passed) + stat_badcrc + 1
      BY <1>3, <1>4, <1>7, <1>8 DEF Counts, Good
    <3>5. Len(passed') \in Nat /\ stat_badcrc' \in Nat
      BY <1>3, <1>4, <1>7, <1>8
    <3> QED BY <1>0, <1>3, <1>7, <2>1, <3>3, <3>4, <3>5 DEF CountedOnce
  <2> QED BY <2>2, <2>3
<1>15. FramesApart'
  <2>1. \A k \in DOMAIN passed : passed[k].at + passed[k].span < frame.at
    BY <1>0, <1>9 DEF FramesBehind
  <2>2. CASE Good(r)
    <3> SUFFICES ASSUME NEW k \in 1 .. Len(passed)
                 PROVE  passed'[k].at + passed'[k].span < passed'[k + 1].at
      <4>1. Len(passed') - 1 = Len(passed)  BY <1>7, <1>8, <2>2
      <4> QED BY <4>1 DEF FramesApart
    <3>1. CASE k = Len(passed)
      BY <1>7, <1>8, <2>1, <2>2, <3>1
    <3>2. CASE k # Len(passed)
      <4>1. k \in 1 .. Len(passed) - 1 /\ k + 1 \in 1 .. Len(passed)
        BY <1>7, <3>2, NotLast
      <4> QED BY <1>0, <1>8, <2>2, <4>1 DEF FramesApart
    <3> QED BY <3>1, <3>2
  <2> QED BY <1>0, <1>4, <2>2 DEF FramesApart
<1>16. ReadAtMostTwice'
  <2>1. DOMAIN tries = Positions /\ DOMAIN tries' = Positions
    BY <1>3, <1>6
  <2>2. tries'[j] <= 2
    BY <1>5, <1>6
  <2> QED BY <1>0, <1>6, <2>1, <2>2 DEF ReadAtMostTwice
<1>17. FramesUnread'
  <2>1. DOMAIN tries = Positions /\ DOMAIN tries' = Positions
    BY <1>3, <1>6
  <2>2. ASSUME NEW k \in DOMAIN passed, NEW p \in Positions,
               passed[k].at < p, p < passed[k].at + passed[k].span
        PROVE  tries'[p] = 0
    <3>1. p < j
      BY <1>0, <1>1, <1>7, <2>2 DEF FramesBehind
    <3>2. tries[p] = 0
      BY <1>0, <2>1, <2>2 DEF FramesUnread
    <3> QED BY <1>1, <1>6, <3>1, <3>2
  <2>3. ASSUME NEW p \in Positions, frame.at < p
        PROVE  tries'[p] = 0
    BY <1>0, <1>1, <1>6, <1>9, <2>3 DEF ReadUpTo
  <2>4. CASE Good(r)
    <3> SUFFICES ASSUME NEW k \in 1 .. Len(passed) + 1, NEW p \in Positions,
                        passed'[k].at < p, p < passed'[k].at + passed'[k].span
                 PROVE  tries'[p] = 0
      BY <1>0, <1>8, <2>1, <2>4 DEF FramesUnread
    <3>1. CASE k = Len(passed) + 1
      BY <1>8, <2>3, <2>4, <3>1
    <3>2. CASE k # Len(passed) + 1
      <4>1. k \in DOMAIN passed /\ passed'[k] = passed[k]
        BY <1>7, <1>8, <2>4, <3>2
      <4> QED BY <2>2, <4>1
    <3> QED BY <3>1, <3>2
  <2> QED BY <1>0, <1>4, <2>1, <2>2, <2>4 DEF FramesUnread
<1> QED BY <1>10, <1>11, <1>12, <1>13, <1>14, <1>15, <1>16, <1>17 DEF ScanInv

(* Every step keeps it.                                                    *)
LEMMA ScanStepInv == ScanInv /\ [ScanNext]_scanVars => ScanInv'
<1> SUFFICES ASSUME ScanInv, [ScanNext]_scanVars PROVE ScanInv'
  OBVIOUS
<1>1. CASE Skip
  BY <1>1, SkipInv
<1>2. CASE \E r \in Readings, corrected \in BOOLEAN : Read(r, corrected)
  BY <1>2, ReadInv
<1>3. CASE NextBuffer
  <2>1. FreshBuffer'
    BY <1>3 DEF NextBuffer, FreshBuffer
  <2> QED BY <2>1, FreshBufferInv, PTL
<1>4. CASE UNCHANGED scanVars
  BY <1>4 DEF scanVars, ScanInv, ScanTypeOK, ReadUpTo, FramesBehind, CountedOnce, LeftBehind,
              FramesApart, ReadAtMostTwice, FramesUnread, Searching
<1> QED BY <1>1, <1>2, <1>3, <1>4 DEF ScanNext, ScanStep

-----------------------------------------------------------------------------
(* The invariant, and what follows from it.                                *)

(* The search's invariant holds throughout.                                *)
THEOREM ScanInvariant == ScanSpec => []ScanInv
<1>1. ScanInit => ScanInv
  BY FreshBufferInv DEF ScanInit, FreshBuffer
<1> QED BY <1>1, ScanStepInv, PTL DEF ScanSpec

(* A position is judged on the samples that were received.                 *)
THEOREM AsReceived == ScanSpec => []SamplesAsReceived
<1>1. ScanInv => SamplesAsReceived
  BY DEF ScanInv, SamplesAsReceived
<1> QED BY <1>1, ScanInvariant, PTL

(* No frame is handed on twice, nor counted both as good and as bad.       *)
THEOREM FramesOnce == ScanSpec => []EachFrameOnce
<1>1. ScanInv => EachFrameOnce
  <2> SUFFICES ASSUME ScanInv PROVE EachFrameOnce
    OBVIOUS
  <2> DEFINE Tried == {p \in DOMAIN tries : tries[p] > 0}
  <2>1. ScanTypeOK /\ CountedOnce /\ FramesApart /\ ReadAtMostTwice /\ FramesUnread
    BY DEF ScanInv
  <2>2. DOMAIN tries = Positions /\ IsFiniteSet(Positions)
    BY <2>1, ScanSizes, FS_Interval DEF ScanTypeOK
  <2>3. Tried \in SUBSET Positions /\ LeftBehind \in SUBSET Tried
    BY <2>2 DEF LeftBehind
  <2>4. IsFiniteSet(Tried)
    BY <2>2, <2>3, FS_Subset
  <2>5. Cardinality(LeftBehind) <= Cardinality(Tried)
    BY <2>3, <2>4, FS_Subset
  <2>6. IsFiniteSet(LeftBehind) /\ Cardinality(LeftBehind) \in Nat /\ Cardinality(Tried) \in Nat
    BY <2>3, <2>4, FS_Subset, FS_CardinalityType
  <2>7. Len(passed) \in Nat /\ stat_badcrc \in Nat
    BY <2>1, Frames DEF ScanTypeOK
  <2>8. Len(passed) + stat_badcrc <= Cardinality(Tried)
    BY <2>1, <2>5, <2>6, <2>7 DEF CountedOnce
  <2> QED BY <2>1, <2>8 DEF EachFrameOnce, FramesApart, ReadAtMostTwice, FramesUnread
<1> QED BY <1>1, ScanInvariant, PTL

HIDE DEF Positions

-----------------------------------------------------------------------------
(* A row of the aircraft table (Contact).                                  *)

RowAges      == 0 .. Never
Remarks   == [v : Values \cup BOOLEAN \cup {NoValue}, age : RowAges]
Shown     == [v : Values \cup {NoValue}, age : RowAges, es : BOOLEAN]

ContactTypeOK ==
  /\ topic \in {"none", "callsign", "velocity", "opt", "ground", "status", "accuracy"}
  /\ {cs_adsb_us, vel_us, cpr_us, acc_us, status_us} \subseteq RowAges
  /\ es \in Remarks /\ said \in Remarks /\ held \in Remarks
  /\ opt \in Shown
  /\ on_ground \in BOOLEAN /\ alert \in BOOLEAN

(* The time of the row is that of the squitter; what was never heard of is *)
(* in no row.                                                              *)
CallsignOfSquitter == topic \in {"none", "callsign"} =>
  cs_adsb_us = es.age /\ (FreshAt(es.age) => callsign = es.v)

VelocityOfSquitter == topic \in {"none", "velocity"} =>
  vel_us = es.age /\ (FreshAt(es.age) => velocity = es.v)

OptOfSquitter == topic \in {"none", "opt"} =>
  (FreshAt(es.age) => opt.es /\ opt.age = es.age /\ opt.v = es.v)

NothingElse == topic # "accuracy" => acc_us = Never

(* What is exported is as old as what was said, or older.                  *)
SaidSince == said.age <= opt.age /\ said.age <= acc_us

GroundOfPosition == topic \in {"none", "ground"} =>
  held.age = cpr_us /\ (held.age <= Window => on_ground = held.v)

AlertOfStatus ==
  /\ topic # "status" => alert = FALSE
  /\ topic = "status" => status_us = held.age
  /\ alert => held.v = TRUE /\ held.age <= Hold

ContactInv ==
  /\ ContactTypeOK /\ CallsignOfSquitter /\ VelocityOfSquitter /\ OptOfSquitter
  /\ NothingElse /\ SaidSince /\ GroundOfPosition /\ AlertOfStatus

(* The three times are numbers, and an age of Never is none of them.       *)
LEMMA Times ==
  /\ Fresh \in Nat /\ Window \in Nat /\ Hold \in Nat /\ Window < Fresh /\ Hold < Fresh
  /\ Never \in Nat /\ Never = Fresh + 1 /\ 0 \in RowAges /\ Never \in RowAges
  /\ \A a \in RowAges : a \in Nat /\ 0 <= a /\ a <= Never
  BY ContactAssumption DEF Never, RowAges

(* Growing older keeps the order of ages, and makes nothing fresh again.   *)
LEMMA Ageing ==
  ASSUME NEW a \in RowAges
  PROVE  /\ Aged(a) \in RowAges
         /\ FreshAt(Aged(a)) => FreshAt(a)
         /\ \A b \in RowAges : a <= b => Aged(a) <= Aged(b)
         /\ \A n \in {Window, Hold} : Aged(a) <= n => a <= n
         /\ Aged(Never) = Never
  BY Times DEF RowAges, Aged, FreshAt, Never

(* Whether a message is a squitter is a truth value.                       *)
LEMMA SquitterOrReply == \A m \in Messages : m.es \in BOOLEAN
<1>1. \A tc \in 0 .. 31, sub \in 0 .. 7 : Squitter(tc, sub).es = TRUE
  BY DEF Squitter
<1>2. \A df \in {0, 4, 5, 11, 16, 20, 21}, bds \in {0, 10, 17, 20, 30, 40, 50, 60} : Reply(df, bds).es = FALSE
  BY DEF Reply
<1>3. SUFFICES ASSUME NEW m \in Messages PROVE m.es \in BOOLEAN  OBVIOUS
<1>4. CASE m \in {Squitter(tc, sub) : tc \in 0 .. 31, sub \in 0 .. 7}
  <2>1. PICK tc \in 0 .. 31, sub \in 0 .. 7 : m = Squitter(tc, sub)  BY <1>4
  <2>2. QED  BY <1>1, <2>1
<1>5. CASE m \in {Reply(df, bds) : df \in {0, 4, 5, 11, 16, 20, 21}, bds \in {0, 10, 17, 20, 30, 40, 50, 60}}
  <2> DEFINE dfs  == {0, 4, 5, 11, 16, 20, 21}
             bdss == {0, 10, 17, 20, 30, 40, 50, 60}
  <2>1. m \in {Reply(df, bds) : df \in dfs, bds \in bdss}  BY <1>5
  <2>2. \A df \in dfs, bds \in bdss : Reply(df, bds).es = FALSE  BY <1>2
  <2> HIDE DEF dfs, bdss
  <2>3. PICK df \in dfs, bds \in bdss : m = Reply(df, bds)  BY <2>1
  <2>4. QED  BY <2>2, <2>3
<1>6. QED  BY <1>4, <1>5 DEF Messages

(* What a remark is.                                                       *)
LEMMA RemarkIs ==
  /\ \A v, a : Remark(v, a).v = v /\ Remark(v, a).age = a
  /\ \A v \in Values \cup BOOLEAN \cup {NoValue} : \A a \in RowAges : Remark(v, a) \in Remarks
  /\ \A r \in Remarks : /\ r.age \in RowAges /\ [r EXCEPT !.age = Aged(@)] \in Remarks
                        /\ [r EXCEPT !.age = Aged(@)].age = Aged(r.age)
                        /\ [r EXCEPT !.age = Aged(@)].v = r.v
  BY Ageing DEF Remark, Remarks

(* The ages of a row are numbers.                                          *)
LEMMA AgesOfRow ==
  ContactTypeOK => /\ cs_adsb_us \in RowAges /\ vel_us \in RowAges /\ cpr_us \in RowAges /\ acc_us \in RowAges
                   /\ status_us \in RowAges /\ es.age \in RowAges /\ said.age \in RowAges /\ held.age \in RowAges
                   /\ opt.age \in RowAges
  BY RemarkIs DEF ContactTypeOK, Shown

(* An empty row.                                                           *)
LEMMA ContactInitInv == ContactInit => ContactInv
<1> SUFFICES ASSUME ContactInit PROVE ContactInv  OBVIOUS
<1> USE DEF ContactInit
<1>1. Silent \in Remarks /\ Silent.age = Never  BY Times, RemarkIs DEF Silent
<1>2. ~ FreshAt(Never) /\ ~ Never <= Window  BY Times DEF FreshAt
<1>3. ContactTypeOK  BY <1>1, Times DEF ContactTypeOK, Shown
<1>4. CallsignOfSquitter /\ VelocityOfSquitter /\ OptOfSquitter
  BY <1>1, <1>2 DEF CallsignOfSquitter, VelocityOfSquitter, OptOfSquitter
<1>5. NothingElse /\ SaidSince /\ GroundOfPosition /\ AlertOfStatus
  BY <1>1, <1>2, Times DEF NothingElse, SaidSince, GroundOfPosition, AlertOfStatus
<1>6. QED  BY <1>3, <1>4, <1>5 DEF ContactInv

(* A callsign, read in a squitter or in a reply.                           *)
LEMMA IdentInv ==
  ASSUME ContactInv, NEW squitter \in BOOLEAN, NEW cs \in Values, Ident(squitter, cs)
  PROVE  ContactInv'
<1>0. ContactTypeOK /\ CallsignOfSquitter /\ VelocityOfSquitter /\ OptOfSquitter
      /\ NothingElse /\ SaidSince /\ GroundOfPosition /\ AlertOfStatus
  BY DEF ContactInv
<1>1. /\ topic \in {"none", "callsign"} /\ topic' = "callsign"
      /\ said' = Remark(cs, 0) /\ held' = held
      /\ es' = IF squitter THEN Remark(cs, 0) ELSE es
      /\ UNCHANGED <<velocity, vel_us, opt, on_ground, cpr_us, alert, spi, status_us, acc_us>>
  BY DEF Ident, About, Hears, speed, ground, status, accuracy
<1>2. IF Overrides(squitter, cs_adsb_us)
        THEN cs_adsb_us' = (IF squitter THEN 0 ELSE cs_adsb_us) /\ callsign' = cs
        ELSE UNCHANGED <<cs_adsb_us, callsign>>
  BY DEF Ident, speech
<1>3. Remark(cs, 0) \in Remarks /\ Remark(cs, 0).v = cs /\ Remark(cs, 0).age = 0  BY Times, RemarkIs
<1>4. ContactTypeOK'  BY <1>0, <1>1, <1>2, <1>3, Times DEF ContactTypeOK
<1>5. CallsignOfSquitter'
  BY <1>0, <1>1, <1>2, <1>3, Times DEF CallsignOfSquitter, Overrides, FreshAt, ContactTypeOK
<1>6. SaidSince'  BY <1>0, <1>1, <1>3, AgesOfRow, Times DEF SaidSince
<1>7. (VelocityOfSquitter /\ OptOfSquitter /\ NothingElse /\ GroundOfPosition /\ AlertOfStatus)'
  BY <1>0, <1>1 DEF VelocityOfSquitter, OptOfSquitter, NothingElse, GroundOfPosition, AlertOfStatus
<1>8. QED  BY <1>4, <1>5, <1>6, <1>7 DEF ContactInv

(* A velocity.                                                             *)
LEMMA VelocityInv ==
  ASSUME ContactInv, NEW squitter \in BOOLEAN, NEW v \in Values, Velocity(squitter, v)
  PROVE  ContactInv'
<1>0. ContactTypeOK /\ CallsignOfSquitter /\ VelocityOfSquitter /\ OptOfSquitter
      /\ NothingElse /\ SaidSince /\ GroundOfPosition /\ AlertOfStatus
  BY DEF ContactInv
<1>1. /\ topic \in {"none", "velocity"} /\ topic' = "velocity"
      /\ said' = Remark(v, 0) /\ held' = held
      /\ es' = IF squitter THEN Remark(v, 0) ELSE es
      /\ UNCHANGED <<callsign, cs_adsb_us, opt, on_ground, cpr_us, alert, spi, status_us, acc_us>>
  BY DEF Velocity, About, Hears, speech, ground, status, accuracy
<1>2. IF Overrides(squitter, vel_us)
        THEN vel_us' = (IF squitter THEN 0 ELSE vel_us) /\ velocity' = v
        ELSE UNCHANGED <<vel_us, velocity>>
  BY DEF Velocity, speed
<1>3. Remark(v, 0) \in Remarks /\ Remark(v, 0).v = v /\ Remark(v, 0).age = 0  BY Times, RemarkIs
<1>4. ContactTypeOK'  BY <1>0, <1>1, <1>2, <1>3, Times DEF ContactTypeOK
<1>5. VelocityOfSquitter'
  BY <1>0, <1>1, <1>2, <1>3, Times DEF VelocityOfSquitter, Overrides, FreshAt, ContactTypeOK
<1>6. SaidSince'  BY <1>0, <1>1, <1>3, AgesOfRow, Times DEF SaidSince
<1>7. (CallsignOfSquitter /\ OptOfSquitter /\ NothingElse /\ GroundOfPosition /\ AlertOfStatus)'
  BY <1>0, <1>1 DEF CallsignOfSquitter, OptOfSquitter, NothingElse, GroundOfPosition, AlertOfStatus
<1>8. QED  BY <1>4, <1>5, <1>6, <1>7 DEF ContactInv

(* Anything that is optional.                                              *)
LEMMA OptInv ==
  ASSUME ContactInv, NEW squitter \in BOOLEAN, NEW v \in Values, OptSet(squitter, v)
  PROVE  ContactInv'
<1> DEFINE value == [v |-> v, age |-> 0, es |-> squitter]
<1>0. ContactTypeOK /\ CallsignOfSquitter /\ VelocityOfSquitter /\ OptOfSquitter
      /\ NothingElse /\ SaidSince /\ GroundOfPosition /\ AlertOfStatus
  BY DEF ContactInv
<1>1. /\ topic \in {"none", "opt"} /\ topic' = "opt"
      /\ said' = Remark(v, 0) /\ held' = held
      /\ es' = IF squitter THEN Remark(v, 0) ELSE es
      /\ UNCHANGED <<callsign, cs_adsb_us, velocity, vel_us, on_ground, cpr_us, alert, spi, status_us, acc_us>>
  BY DEF OptSet, About, Hears, speech, speed, ground, status, accuracy
<1>2. opt' = IF ~ squitter /\ opt.es /\ FreshAt(opt.age) THEN opt ELSE value  BY DEF OptSet
<1>3. Remark(v, 0) \in Remarks /\ Remark(v, 0).v = v /\ Remark(v, 0).age = 0  BY Times, RemarkIs
<1>4. value \in Shown /\ value.v = v /\ value.age = 0 /\ value.es = squitter  BY Times DEF Shown
<1> HIDE DEF value
<1>5. ContactTypeOK'  BY <1>0, <1>1, <1>2, <1>3, <1>4, Times DEF ContactTypeOK
<1>6. OptOfSquitter'
  <2>1. CASE squitter  BY <1>1, <1>2, <1>3, <1>4, <2>1 DEF OptOfSquitter
  <2>2. CASE ~ squitter
    <3>1. es' = es  BY <1>1, <2>2
    <3>2. FreshAt(es.age) => opt' = opt  BY <1>0, <1>1, <1>2, <2>2 DEF OptOfSquitter
    <3>3. QED  BY <1>0, <1>1, <3>1, <3>2 DEF OptOfSquitter
  <2>3. QED  BY <2>1, <2>2
<1>7. SaidSince'
  <2>1. opt'.age \in RowAges  BY <1>2, <1>4, <1>0, AgesOfRow, Times
  <2>2. QED  BY <1>0, <1>1, <1>3, <2>1, AgesOfRow, Times DEF SaidSince
<1>8. (CallsignOfSquitter /\ VelocityOfSquitter /\ NothingElse /\ GroundOfPosition /\ AlertOfStatus)'
  BY <1>0, <1>1 DEF CallsignOfSquitter, VelocityOfSquitter, NothingElse, GroundOfPosition, AlertOfStatus
<1>9. QED  BY <1>5, <1>6, <1>7, <1>8 DEF ContactInv

(* On the ground or in the air, from a position or from a flag.            *)
LEMMA PlaceInv ==
  ASSUME ContactInv, NEW position \in BOOLEAN, NEW v \in BOOLEAN, Place(position, v)
  PROVE  ContactInv'
<1>0. ContactTypeOK /\ CallsignOfSquitter /\ VelocityOfSquitter /\ OptOfSquitter
      /\ NothingElse /\ SaidSince /\ GroundOfPosition /\ AlertOfStatus
  BY DEF ContactInv
<1>1. /\ topic \in {"none", "ground"} /\ topic' = "ground"
      /\ UNCHANGED <<callsign, cs_adsb_us, velocity, vel_us, opt, alert, spi, status_us, acc_us, es, said>>
  BY DEF Place, About, speech, speed, status, accuracy
<1>2. IF position THEN on_ground' = v /\ cpr_us' = 0 /\ held' = Remark(v, 0)
      ELSE /\ on_ground' = IF cpr_us > Window THEN v ELSE on_ground
           /\ cpr_us' = cpr_us /\ held' = held
  BY DEF Place
<1>3. Remark(v, 0) \in Remarks /\ Remark(v, 0).v = v /\ Remark(v, 0).age = 0  BY Times, RemarkIs
<1>4. ContactTypeOK'
  <2>1. on_ground' \in BOOLEAN  BY <1>0, <1>2 DEF ContactTypeOK
  <2>2. cpr_us' \in RowAges /\ held' \in Remarks  BY <1>0, <1>2, <1>3, Times DEF ContactTypeOK
  <2>3. QED  BY <1>0, <1>1, <2>1, <2>2 DEF ContactTypeOK
<1>5. GroundOfPosition'
  <2>1. CASE position  BY <1>2, <1>3, <2>1 DEF GroundOfPosition
  <2>2. CASE ~ position
    <3>1. held' = held /\ cpr_us' = cpr_us /\ (cpr_us <= Window => on_ground' = on_ground)
      <4>1. cpr_us \in Nat /\ Window \in Nat  BY <1>0, AgesOfRow, Times
      <4>2. cpr_us <= Window => ~ cpr_us > Window  BY <4>1
      <4>3. QED  BY <1>2, <2>2, <4>2, Zenon
    <3>2. QED  BY <1>0, <1>1, <3>1 DEF GroundOfPosition
  <2>3. QED  BY <2>1, <2>2
<1>6. AlertOfStatus'  BY <1>0, <1>1 DEF AlertOfStatus
<1>7. (CallsignOfSquitter /\ VelocityOfSquitter /\ OptOfSquitter /\ NothingElse /\ SaidSince)'
  BY <1>0, <1>1 DEF CallsignOfSquitter, VelocityOfSquitter, OptOfSquitter, NothingElse, SaidSince
<1>8. QED  BY <1>4, <1>5, <1>6, <1>7 DEF ContactInv

(* A flight status.                                                        *)
LEMMA StatusInv ==
  ASSUME ContactInv, NEW a \in BOOLEAN, NEW s, Status(a, s)
  PROVE  ContactInv'
<1>0. ContactTypeOK /\ CallsignOfSquitter /\ VelocityOfSquitter /\ OptOfSquitter
      /\ NothingElse /\ SaidSince /\ GroundOfPosition /\ AlertOfStatus
  BY DEF ContactInv
<1>1. /\ topic \in {"none", "status"} /\ topic' = "status"
      /\ alert' = a /\ status_us' = 0 /\ held' = Remark(a, 0)
      /\ UNCHANGED <<callsign, cs_adsb_us, velocity, vel_us, opt, on_ground, cpr_us, acc_us, es, said>>
  BY DEF Status, About, speech, speed, ground, accuracy
<1>2. Remark(a, 0) \in Remarks /\ Remark(a, 0).v = a /\ Remark(a, 0).age = 0  BY Times, RemarkIs
<1>3. ContactTypeOK'  BY <1>0, <1>1, <1>2, Times DEF ContactTypeOK
<1>4. AlertOfStatus'  BY <1>1, <1>2, Times DEF AlertOfStatus
<1>5. (CallsignOfSquitter /\ VelocityOfSquitter /\ OptOfSquitter /\ NothingElse /\ SaidSince /\ GroundOfPosition)'
  BY <1>0, <1>1
  DEF CallsignOfSquitter, VelocityOfSquitter, OptOfSquitter, NothingElse, SaidSince, GroundOfPosition
<1>6. QED  BY <1>3, <1>4, <1>5 DEF ContactInv

(* How good the position is.                                               *)
LEMMA QualityInv ==
  ASSUME ContactInv, NEW v \in Values, NEW type, NEW ver, Quality(v, type, ver)
  PROVE  ContactInv'
<1>0. ContactTypeOK /\ CallsignOfSquitter /\ VelocityOfSquitter /\ OptOfSquitter
      /\ NothingElse /\ SaidSince /\ GroundOfPosition /\ AlertOfStatus
  BY DEF ContactInv
<1>1. /\ topic \in {"none", "accuracy"} /\ topic' = "accuracy" /\ acc_us' = 0
      /\ said' = Remark(v, 0) /\ held' = held /\ es' \in {es, Remark(v, 0)}
      /\ UNCHANGED <<callsign, cs_adsb_us, velocity, vel_us, opt, on_ground, cpr_us, alert, spi, status_us>>
  BY DEF Quality, About, Hears, speech, speed, ground, status
<1>2. Remark(v, 0) \in Remarks /\ Remark(v, 0).age = 0  BY Times, RemarkIs
<1>3. ContactTypeOK'  BY <1>0, <1>1, <1>2, Times DEF ContactTypeOK
<1>4. SaidSince'  BY <1>0, <1>1, <1>2, AgesOfRow, Times DEF SaidSince
<1>5. AlertOfStatus'  BY <1>0, <1>1 DEF AlertOfStatus
<1>6. (CallsignOfSquitter /\ VelocityOfSquitter /\ OptOfSquitter /\ NothingElse /\ GroundOfPosition)'
  BY <1>1 DEF CallsignOfSquitter, VelocityOfSquitter, OptOfSquitter, NothingElse, GroundOfPosition
<1>7. QED  BY <1>3, <1>4, <1>5, <1>6 DEF ContactInv

(* Time passes for all parts of a row alike.                               *)
LEMMA PassesInv == ContactInv /\ Passes => ContactInv'
<1> SUFFICES ASSUME ContactInv, Passes PROVE ContactInv'  OBVIOUS
<1>0. ContactTypeOK /\ CallsignOfSquitter /\ VelocityOfSquitter /\ OptOfSquitter
      /\ NothingElse /\ SaidSince /\ GroundOfPosition /\ AlertOfStatus
  BY DEF ContactInv
<1>1. /\ cs_adsb_us' = Aged(cs_adsb_us) /\ vel_us' = Aged(vel_us) /\ cpr_us' = Aged(cpr_us)
      /\ acc_us' = Aged(acc_us) /\ status_us' = Aged(status_us)
      /\ alert' = (alert /\ ~ Expires(status_us'))
      /\ UNCHANGED <<topic, callsign, velocity, on_ground>>
  BY DEF Passes
<1>2. /\ {cs_adsb_us, vel_us, cpr_us, acc_us, status_us, es.age, said.age, held.age, opt.age} \subseteq RowAges
      /\ on_ground \in BOOLEAN /\ alert \in BOOLEAN
  <2>1. /\ {cs_adsb_us, vel_us, cpr_us, acc_us, status_us} \subseteq RowAges /\ opt.age \in RowAges
        /\ on_ground \in BOOLEAN /\ alert \in BOOLEAN
    BY <1>0 DEF ContactTypeOK, Shown
  <2>2. es \in Remarks /\ said \in Remarks /\ held \in Remarks
    BY <1>0 DEF ContactTypeOK
  <2>3. QED  BY <2>1, <2>2, RemarkIs
<1>3. /\ es' \in Remarks /\ es'.age = Aged(es.age) /\ es'.v = es.v
      /\ said' \in Remarks /\ said'.age = Aged(said.age)
      /\ held' \in Remarks /\ held'.age = Aged(held.age) /\ held'.v = held.v
  BY <1>0, RemarkIs DEF Passes, ContactTypeOK
<1>4. opt' \in Shown /\ opt'.age = Aged(opt.age) /\ opt'.v = opt.v /\ opt'.es = opt.es
  <2>1. opt \in Shown /\ opt' = [opt EXCEPT !.age = Aged(@)] /\ Aged(opt.age) \in RowAges
    BY <1>0, <1>2, Ageing DEF Passes, ContactTypeOK
  <2>2. QED  BY <2>1 DEF Shown
<1>5. ContactTypeOK'
  <2>1. {cs_adsb_us', vel_us', cpr_us', acc_us', status_us'} \subseteq RowAges  BY <1>1, <1>2, Ageing
  <2>2. alert' \in BOOLEAN  BY <1>1, <1>2
  <2>3. QED  BY <1>0, <1>1, <1>3, <1>4, <2>1, <2>2 DEF ContactTypeOK
<1>6. FreshAt(es'.age) => FreshAt(es.age)  BY <1>2, <1>3, Ageing
<1>7. CallsignOfSquitter'  BY <1>0, <1>1, <1>3, <1>6 DEF CallsignOfSquitter
<1>8. VelocityOfSquitter'  BY <1>0, <1>1, <1>3, <1>6 DEF VelocityOfSquitter
<1>9. OptOfSquitter'  BY <1>0, <1>1, <1>3, <1>4, <1>6 DEF OptOfSquitter
<1>10. NothingElse'  BY <1>0, <1>1, <1>2, Ageing DEF NothingElse
<1>11. SaidSince'  BY <1>0, <1>1, <1>2, <1>3, <1>4, Ageing DEF SaidSince
<1>12. GroundOfPosition'
  <2>1. held'.age <= Window => held.age <= Window  BY <1>2, <1>3, Ageing
  <2>2. QED  BY <1>0, <1>1, <1>3, <2>1 DEF GroundOfPosition
<1>13. AlertOfStatus'
  <2>1. topic # "status" => alert' = FALSE  BY <1>0, <1>1 DEF AlertOfStatus
  <2>2. topic = "status" => status_us' = held'.age  BY <1>0, <1>1, <1>3 DEF AlertOfStatus
  <2>3. alert' => held'.v = TRUE  BY <1>0, <1>1, <1>3 DEF AlertOfStatus
  <2>4. alert' => held'.age <= Hold
    <3>1. alert' => topic = "status" /\ ~ status_us' > Hold  BY <1>1, <2>1 DEF Expires
    <3>2. status_us' \in Nat  BY <1>1, <1>2, Ageing, Times
    <3>3. QED  BY <2>2, <3>1, <3>2, Times
  <2>5. QED  BY <1>1, <2>1, <2>2, <2>3, <2>4 DEF AlertOfStatus
<1>14. QED
  BY <1>5, <1>7, <1>8, <1>9, <1>10, <1>11, <1>12, <1>13 DEF ContactInv

(* Each part of a row is what the invariant says.                          *)
THEOREM ContactInvariant == ContactSpec => []ContactInv
<1>1. ContactInv /\ [ContactNext]_contactVars => ContactInv'
  <2> SUFFICES ASSUME ContactInv, [ContactNext]_contactVars PROVE ContactInv'  OBVIOUS
  <2>1. ASSUME NEW m \in Messages, NEW v \in Values, Ident(m.es, v) PROVE ContactInv'
    BY <2>1, SquitterOrReply, IdentInv
  <2>2. ASSUME NEW m \in Messages, NEW v \in Values, Velocity(m.es, v) PROVE ContactInv'
    BY <2>2, SquitterOrReply, VelocityInv
  <2>3. ASSUME NEW m \in Messages, NEW v \in Values, OptSet(m.es, v) PROVE ContactInv'
    BY <2>3, SquitterOrReply, OptInv
  <2>4. ASSUME NEW m \in Messages, NEW v \in BOOLEAN, Place("position" \in m.says, v) PROVE ContactInv'
    <3>1. ("position" \in m.says) \in BOOLEAN  OBVIOUS
    <3>2. QED  BY <2>4, <3>1, PlaceInv
  <2>5. ASSUME NEW a \in BOOLEAN, NEW s \in {"on", "off", "unknown"}, Status(a, s) PROVE ContactInv'
    BY <2>5, StatusInv
  <2>6. ASSUME NEW v \in Values, NEW type \in {"unknown", "perhour"}, NEW ver \in Values \cup {NoValue},
               Quality(v, type, ver)
        PROVE ContactInv'
    BY <2>6, QualityInv
  <2>7. CASE Passes  BY <2>7, PassesInv
  <2>8. CASE UNCHANGED contactVars
    BY <2>8 DEF contactVars, speech, speed, ground, status, accuracy, ContactInv, ContactTypeOK,
       CallsignOfSquitter, VelocityOfSquitter, OptOfSquitter, NothingElse, SaidSince, GroundOfPosition, AlertOfStatus
  <2>9. QED  BY <2>1, <2>2, <2>3, <2>4, <2>5, <2>6, <2>7, <2>8, Zenon DEF ContactNext
<1>2. QED  BY ContactInitInv, <1>1, PTL DEF ContactSpec

(* While an aircraft's own squitter is fresh, no reply read since replaces *)
(* what it said (class_driver.c, on_msg()); nothing is shown as current    *)
(* for longer than it may be, and an alert ends with its hold.             *)
THEOREM OwnWordComesFirst == ContactSpec => []SquitterComesFirst
<1>1. ContactInv => SquitterComesFirst
  <2> SUFFICES ASSUME ContactInv PROVE SquitterComesFirst  OBVIOUS
  <2>0. ContactTypeOK /\ CallsignOfSquitter /\ VelocityOfSquitter /\ OptOfSquitter
        /\ NothingElse /\ SaidSince /\ GroundOfPosition /\ AlertOfStatus
    BY DEF ContactInv
  <2>1. {es.age, said.age, held.age, opt.age, acc_us} \subseteq RowAges
    BY <2>0, AgesOfRow
  <2>2. FreshAt(es.age) /\ topic = "opt" => Exported = {es.v}
    <3>1. ~ FreshAt(Never)  BY Times DEF FreshAt
    <3>2. QED  BY <2>0, <3>1 DEF OptOfSquitter, NothingElse, Exported
  <2>3. Exported # {} => FreshAt(said.age)
    <3>1. Exported # {} => FreshAt(opt.age) \/ FreshAt(acc_us)  BY DEF Exported
    <3>2. said.age \in Nat /\ opt.age \in Nat /\ acc_us \in Nat /\ Fresh \in Nat  BY <2>1, Times
    <3>3. QED  BY <2>0, <3>1, <3>2 DEF SaidSince, FreshAt
  <2>4. QED
    BY <2>0, <2>2, <2>3 DEF SquitterComesFirst, CallsignOfSquitter, VelocityOfSquitter, GroundOfPosition, AlertOfStatus
<1>2. QED  BY ContactInvariant, <1>1, PTL

-----------------------------------------------------------------------------
(* Bits of samples (Phase).                                                *)

(* The magnitudes whose amplification still fits 16 bits, and a clear bit. *)
Unwrapped == (\A m \in Levels : m <= 52428) /\ Margin >= 2

(* What the correction may make of the first sample of a bit.              *)
Corrections(m) == {m, Amplify(m), Weaken(m)}

(* A result that fits is not cut.                                          *)
LEMMA Fits ==
  ASSUME NEW n \in Nat, n < 65536
  PROVE  n % 2^16 = n
<1>1. n % 65536 = n  OBVIOUS
<1> QED BY <1>1

(* Every level is a natural number.                                        *)
LEMMA Magnitudes == \A m \in Levels : m \in Nat
<1>1. \A m \in 0 .. 2^16 - 1 : m \in Nat  OBVIOUS
<1>2. Levels \subseteq 0 .. 2^16 - 1  BY PhaseAssumption
<1> QED BY <1>1, <1>2

(* A multiple by two or more.                                              *)
LEMMA AtLeastTwice ==
  ASSUME NEW k \in Nat, k >= 2, NEW n \in Nat
  PROVE  k * n \in Nat /\ k * n >= 2 * n
OBVIOUS

(* The sample f that a correction made of a is as clearly larger or smaller *)
(* than b as a was.                                                        *)
Firm(a, f, b) == /\ f \in Int /\ b \in Int
                 /\ Gap(f, b) >= 256 /\ f # b
                 /\ (f > b) <=> (a > b)

(* A correction by a quarter or a fifth does not change a clear bit.       *)
LEMMA ClearIsFirm ==
  ASSUME Unwrapped, NEW a \in Levels, NEW b \in Levels, ClearBit(<<a, b>>), NEW f \in Corrections(a)
  PROVE  Firm(a, f, b)
<1>1. a \in Nat /\ a <= 52428 /\ b \in Nat  BY Magnitudes DEF Unwrapped
<1>2. \/ a >= 2 * b /\ a - b >= 1024
      \/ b >= 2 * a /\ b - a >= 1024
  <2>1. Margin \in Nat /\ Margin >= 2
    <3>1. Margin \in Nat  BY PhaseAssumption
    <3>2. Margin >= 2  BY DEF Unwrapped
    <3> QED BY <3>1, <3>2
  <2>2. Margin * a >= 2 * a /\ Margin * b >= 2 * b  BY <1>1, <2>1, AtLeastTwice
  <2>3. (a >= Margin * b /\ a - b >= 1024) \/ (b >= Margin * a /\ b - a >= 1024)  BY DEF ClearBit
  <2> QED BY <1>1, <2>1, <2>2, <2>3
<1>3. f = a \/ f = Amplify(a) \/ f = Weaken(a)  BY DEF Corrections
<1>4. Amplify(a) = (a * 5) \div 4
  <2>1. (a * 5) \div 4 \in Nat /\ (a * 5) \div 4 < 65536  BY <1>1
  <2> QED BY <2>1, Fits DEF Amplify
<1>5. f \in Int /\ 4 * a - 4 <= 5 * f /\ 4 * f <= 5 * a
  BY <1>1, <1>3, <1>4 DEF Weaken
<1>6. CASE a >= 2 * b /\ a - b >= 1024
  <2>1. f - b >= 256  BY <1>1, <1>5, <1>6
  <2>2. f > b /\ a > b /\ Gap(f, b) = f - b  BY <1>1, <1>5, <1>6, <2>1 DEF Gap
  <2> QED BY <1>1, <1>5, <2>1, <2>2 DEF Firm
<1>7. CASE b >= 2 * a /\ b - a >= 1024
  <2>1. b - f >= 256  BY <1>1, <1>5, <1>7
  <2>2. ~(f > b) /\ ~(a > b) /\ Gap(f, b) = b - f  BY <1>1, <1>5, <1>7, <2>1 DEF Gap
  <2> QED BY <1>1, <1>5, <2>1, <2>2 DEF Firm
<1> QED BY <1>2, <1>6, <1>7

(* Samples of clear bits are sliced without a look at the bit before.      *)
LEMMA FirmSlice ==
  ASSUME NEW firsts, \A i \in DOMAIN samples : Firm(samples[i][1], firsts[i], samples[i][2])
  PROVE  Slice(firsts) = [i \in DOMAIN samples |-> IF samples[i][1] > samples[i][2] THEN 1 ELSE 0]
<1> DEFINE Once(g) == [i \in DOMAIN samples |->
                         IF i > 1 /\ Gap(firsts[i], samples[i][2]) < 256 THEN g[i - 1]
                         ELSE IF firsts[i] = samples[i][2] THEN 2
                         ELSE IF firsts[i] > samples[i][2] THEN 1 ELSE 0]
           Plain == [i \in DOMAIN samples |-> IF samples[i][1] > samples[i][2] THEN 1 ELSE 0]
<1>1. \A i \in DOMAIN samples : /\ ~(Gap(firsts[i], samples[i][2]) < 256)
                                /\ firsts[i] # samples[i][2]
                                /\ firsts[i] > samples[i][2] <=> samples[i][1] > samples[i][2]
  BY DEF Firm, Gap
<1>2. \A g : Once(g) = Plain  BY <1>1
<1>3. Slice(firsts) = CHOOSE g : g = Once(g)  BY DEF Slice
<1> HIDE DEF Once, Plain
<1>4. Plain = Once(Plain)  BY <1>2
<1>5. Slice(firsts) = Once(Slice(firsts))  BY <1>3, <1>4
<1> QED BY <1>2, <1>5 DEF Plain

AllClear == \A i \in DOMAIN samples : ClearBit(samples[i])

(* What the correction makes of each first sample is one of the three,     *)
(* for it goes by the bit before and by nothing else.                      *)
LEMMA FirstsCorrected ==
  ASSUME Unwrapped, samples \in Seq(Pairs), AllClear
  PROVE  \A i \in DOMAIN samples : Firsts[i] \in Corrections(samples[i][1])
<1> DEFINE D == DOMAIN samples
           Once(g) == [i \in D |->
                         IF i = 1 THEN samples[1][1]
                         ELSE IF g[i - 1] > samples[i - 1][2] THEN Amplify(samples[i][1])
                         ELSE Weaken(samples[i][1])]
           Plain == [i \in D |->
                       IF i = 1 THEN samples[1][1]
                       ELSE IF samples[i - 1][1] > samples[i - 1][2] THEN Amplify(samples[i][1])
                       ELSE Weaken(samples[i][1])]
<1>1. Firsts = CHOOSE g : g = Once(g)  BY DEF Firsts
<1>2. D = 1 .. Len(samples) /\ Len(samples) \in Nat  OBVIOUS
<1>3. \A i \in D : samples[i] \in Pairs  OBVIOUS
<1>4. \A g : \A i \in D : Once(g)[i] \in Corrections(samples[i][1])
  BY DEF Corrections
<1>5. Plain = Once(Plain)
  <2>1. ASSUME NEW i \in D, i # 1
        PROVE  (Plain[i - 1] > samples[i - 1][2]) <=> (samples[i - 1][1] > samples[i - 1][2])
    <3>1. i - 1 \in D  BY <1>2, <2>1
    <3>2. PICK a \in Levels, b \in Levels : samples[i - 1] = <<a, b>>  BY <1>3, <3>1 DEF Pairs
    <3>3. Plain[i - 1] \in Corrections(a)  BY <3>1, <3>2 DEF Corrections
    <3>4. ClearBit(<<a, b>>)  BY <3>1, <3>2 DEF AllClear
    <3>5. Firm(a, Plain[i - 1], b)  BY <3>3, <3>4, ClearIsFirm
    <3> QED BY <3>2, <3>5 DEF Firm
  <2> QED BY <2>1
<1> HIDE DEF Once, Plain, D
<1>6. Firsts = Once(Firsts)  BY <1>1, <1>5
<1> QED BY <1>4, <1>6 DEF D

(* For magnitudes whose amplification fits 16 bits (stronger ones wrap,    *)
(* see AmplifiesAfterAOne), and bits one of whose samples is at least      *)
(* twice the other: the correction leaves a clear frame as it is    *)
(* (apply_phase_correction() of mode-s.c), of whatever length.             *)
THEOREM ClearFrames == Unwrapped => (PhaseSpec => []ClearFrameSurvives)
<1> SUFFICES ASSUME Unwrapped PROVE PhaseSpec => []ClearFrameSurvives
  OBVIOUS
<1>1. PhaseInit => samples \in Seq(Pairs)
  BY DEF PhaseInit
<1>2. samples \in Seq(Pairs) /\ [PhaseNext]_samples => (samples \in Seq(Pairs))'
  <2> SUFFICES ASSUME samples \in Seq(Pairs), [PhaseNext]_samples PROVE samples' \in Seq(Pairs)
    OBVIOUS
  <2>1. CASE Sample
    <3>1. PICK s \in Pairs : samples' = Append(samples, s)  BY <2>1 DEF Sample
    <3> QED BY <3>1
  <2>2. CASE samples' = << >>  BY <2>2
  <2> QED BY <2>1, <2>2 DEF PhaseNext
<1>3. samples \in Seq(Pairs) => ClearFrameSurvives
  <2> SUFFICES ASSUME samples \in Seq(Pairs), AllClear
               PROVE  Slice(Firsts) = Slice([i \in DOMAIN samples |-> samples[i][1]])
    BY DEF ClearFrameSurvives, AllClear
  <2> DEFINE raw == [i \in DOMAIN samples |-> samples[i][1]]
  <2>1. ASSUME NEW i \in DOMAIN samples, NEW f \in Corrections(samples[i][1])
        PROVE  Firm(samples[i][1], f, samples[i][2])
    <3>1. PICK a \in Levels, b \in Levels : samples[i] = <<a, b>>  BY <2>1 DEF Pairs
    <3>2. ClearBit(<<a, b>>) /\ f \in Corrections(a)  BY <2>1, <3>1 DEF AllClear
    <3> QED BY <3>1, <3>2, ClearIsFirm
  <2>2. \A i \in DOMAIN samples : Firm(samples[i][1], Firsts[i], samples[i][2])
    BY <2>1, FirstsCorrected
  <2>3. \A i \in DOMAIN samples : Firm(samples[i][1], raw[i], samples[i][2])
    BY <2>1 DEF Corrections
  <2> HIDE DEF raw
  <2>4. /\ Slice(Firsts) = [i \in DOMAIN samples |-> IF samples[i][1] > samples[i][2] THEN 1 ELSE 0]
        /\ Slice(raw) = [i \in DOMAIN samples |-> IF samples[i][1] > samples[i][2] THEN 1 ELSE 0]
    BY <2>2, <2>3, FirmSlice
  <2> QED BY <2>4 DEF raw
<1> QED BY <1>1, <1>2, <1>3, PTL DEF PhaseSpec

-----------------------------------------------------------------------------
(* A position from frames (Fix).                                           *)

(* A quotient and a remainder are those.                                   *)
LEMMA Division ==
  ASSUME NEW n \in Nat, n > 0, NEW q \in Int, NEW r \in Int, r >= 0, r < n
  PROVE  (n * q + r) \div n = q /\ (n * q + r) % n = r
<1>1. (n * q + r) \div n = q  OBVIOUS
<1>2. (n * q + r) % n = r  OBVIOUS
<1>3. QED  BY <1>1, <1>2

(* What is divided is made of both.                                        *)
LEMMA Parts ==
  ASSUME NEW n \in Nat, n > 0, NEW a \in Int
  PROVE  \E q \in Int, r \in Nat : a = n * q + r /\ r < n /\ a \div n = q /\ a % n = r
<1>1. PICK q \in Int : q = a \div n  OBVIOUS
<1>2. n * q <= a  BY <1>1
<1>3. a < n * q + n  BY <1>1
<1>4. PICK r \in Int : r = a - n * q  OBVIOUS
<1>5. a = n * q + r /\ r \in Nat /\ r < n  BY <1>2, <1>3, <1>4
<1>6. (n * q + r) % n = r  BY <1>5, Division
<1>7. a % n = r /\ a \div n = q  BY <1>1, <1>5, <1>6
<1>8. QED  BY <1>5, <1>7

(* Whole turns leave the remainder as it is.                               *)
LEMMA Turned ==
  ASSUME NEW n \in Nat, n > 0, NEW a \in Int, NEW k \in Int
  PROVE  (a + n * k) % n = a % n
<1>1. PICK q \in Int, r \in Nat : a = n * q + r /\ r < n /\ a % n = r  BY Parts
<1>2. n * (q + k) = n * q + n * k /\ n * q \in Int /\ n * k \in Int /\ q + k \in Int  OBVIOUS
<1>3. a + n * k = n * (q + k) + r  BY <1>1, <1>2
<1>4. (n * (q + k) + r) % n = r  BY <1>1, <1>2, Division
<1>5. QED  BY <1>1, <1>3, <1>4

(* Factors in another order.                                               *)
LEMMA Factors ==
  ASSUME NEW a \in Int, NEW b \in Int, NEW c \in Int
  PROVE  a * b \in Int /\ (a * b) * c = b * (a * c) /\ a * (b * c) = (b * a) * c
OBVIOUS

-----------------------------------------------------------------------------
(* The circle and its zones.                                               *)

LEMMA Sizes ==
  /\ Half \in Nat /\ ZE \in Nat /\ ZO \in Nat /\ Units \in Nat /\ PairDt \in Nat /\ RefAge \in Nat /\ RefMax \in Nat
  /\ Half > 0 /\ ZE > 0 /\ ZO > 0 /\ Units > 0 /\ RefAge > 0 /\ ZE = ZO + 1
  /\ 2 * Half = ZE * ZO * Units
  /\ RefAge <= RefMax /\ 2 * RefMax < ZO * Units /\ 2 * PairDt < Units
<1>1. {Half, ZE, ZO, PairDt, RefAge, RefMax, Units} \subseteq Nat \ {0}
  BY FixAssumption
<1>2. ZE = ZO + 1  BY <1>1 DEF ZO
<1>3. QED  BY <1>1, <1>2, FixAssumption

Circle == 2 * Half

(* A zone goes a whole number of times around the circle, an even one is   *)
(* the narrower.                                                           *)
LEMMA Zones ==
  /\ Zone(FALSE) = ZO * Units /\ Zone(TRUE) = ZE * Units
  /\ Circle = ZE * Zone(FALSE) /\ Circle = ZO * Zone(TRUE)
  /\ Zone(FALSE) \in Nat /\ Zone(TRUE) \in Nat
  /\ Zone(FALSE) > 0 /\ Zone(TRUE) > 0 /\ Zone(TRUE) >= Zone(FALSE)
<1>1. PICK e \in Nat : e = ZO * Units  BY Sizes
<1>2. PICK o \in Nat : o = ZE * Units  BY Sizes
<1>3. 2 * Half = ZE * e + 0 /\ 2 * Half = ZO * o + 0  BY Sizes, <1>1, <1>2
<1>4. (ZE * e + 0) \div ZE = e  BY Sizes, Division
<1>5. (ZO * o + 0) \div ZO = o  BY Sizes, Division
<1>6. Zone(FALSE) = e /\ Zone(TRUE) = o  BY <1>3, <1>4, <1>5 DEF Zone
<1>7. o = e + Units  BY Sizes, <1>1, <1>2
<1>8. e > 0  BY Sizes, <1>1
<1>9. Circle = ZE * e /\ Circle = ZO * o
  <2>1. ZE * e \in Nat /\ ZO * o \in Nat  BY Sizes
  <2> QED BY <1>3, <2>1 DEF Circle
<1>10. o >= e /\ o > 0  BY Sizes, <1>7, <1>8
<1>11. QED  BY <1>1, <1>2, <1>6, <1>8, <1>9, <1>10

Cells == -Half .. Half - 1

(* Wrap goes whole turns, to the place that all of the same turn share.    *)
LEMMA Wraps ==
  ASSUME NEW a \in Int
  PROVE  /\ Wrap(a) \in Cells
         /\ \E k \in Int : Wrap(a) = a + Circle * k
<1>1. Circle \in Nat /\ Circle > 0 /\ Half \in Nat /\ Circle = 2 * Half  BY Sizes DEF Circle
<1>2. PICK q \in Int, r \in Nat : a + Half = Circle * q + r /\ r < Circle /\ (a + Half) % Circle = r
  <2>1. a + Half \in Int  BY <1>1
  <2> QED BY <1>1, <2>1, Parts
<1>4. Wrap(a) = r - Half  BY <1>1, <1>2 DEF Wrap
<1>6. r - Half \in Cells  BY <1>1, <1>2 DEF Cells
<1>7. r - Half = a + Circle * (-q)
  <2>1. Circle * (-q) = -(Circle * q) /\ Circle * q \in Int  BY <1>1
  <2> QED BY <1>1, <1>2, <2>1
<1>8. QED  BY <1>4, <1>6, <1>7

LEMMA WrapTurned ==
  ASSUME NEW a \in Int, NEW k \in Int
  PROVE  Wrap(a + Circle * k) = Wrap(a)
<1>1. Circle \in Nat /\ Circle > 0 /\ Half \in Nat /\ Circle = 2 * Half  BY Sizes DEF Circle
<1>2. (a + Half + Circle * k) % Circle = (a + Half) % Circle
  <2>1. a + Half \in Int  BY <1>1
  <2> QED BY <1>1, <2>1, Turned
<1>3. a + Circle * k + Half = a + Half + Circle * k  BY <1>1
<1>4. QED  BY <1>1, <1>2, <1>3 DEF Wrap

LEMMA WrapOwn ==
  ASSUME NEW a \in Cells
  PROVE  Wrap(a) = a
<1>1. Circle \in Nat /\ Circle > 0 /\ Half \in Nat /\ Circle = 2 * Half  BY Sizes DEF Circle
<1>2. a \in Int /\ a + Half >= 0 /\ a + Half < Circle  BY <1>1 DEF Cells
<1>3. (Circle * 0 + (a + Half)) % Circle = a + Half  BY <1>1, <1>2, Division
<1>4. Circle * 0 + (a + Half) = a + Half  BY <1>1, <1>2
<1>5. QED  BY <1>1, <1>2, <1>3, <1>4 DEF Wrap

(* Where in its zone a place is does not change with a turn.               *)
LEMMA ZoneTurned ==
  ASSUME NEW a \in Int, NEW k \in Int, NEW isOdd \in BOOLEAN
  PROVE  (a + Circle * k) % Zone(isOdd) = a % Zone(isOdd)
<1>1. PICK z \in Nat : z = Zone(isOdd) /\ z > 0
  <2>1. Zone(isOdd) \in Nat /\ Zone(isOdd) > 0
    <3>1. isOdd = TRUE \/ isOdd = FALSE  OBVIOUS
    <3> QED BY <3>1, Zones
  <2> QED BY <2>1
<1>2. PICK n \in Nat : Circle = n * z
  <2>1. isOdd = TRUE \/ isOdd = FALSE  OBVIOUS
  <2> QED BY <1>1, <2>1, Zones, Sizes
<1>3. a + Circle * k = a + z * (n * k)  BY <1>1, <1>2
<1>4. (a + z * (n * k)) % z = a % z
  <2>1. n * k \in Int  BY <1>2
  <2> QED BY <1>1, <2>1, Turned
<1>5. QED  BY <1>1, <1>3, <1>4

-----------------------------------------------------------------------------
(* Decoding.                                                               *)

(* A frame that was heard d cells before p says where in its zone that was.*)
Within(n) == -n .. n
Told(raw, z, p, d) == raw = (p - d) % z

(* A pair of frames: the difference of the two is the zone, as long as the *)
(* aircraft flew less than half a unit between them.                       *)
LEMMA PairIsRight ==
  ASSUME x \in Cells, NEW e, NEW o, NEW isOdd \in BOOLEAN,
         NEW de \in Within(PairDt), NEW do \in Within(PairDt),
         Told(e, Zone(FALSE), x, de), Told(o, Zone(TRUE), x, do),
         IF isOdd THEN do = 0 ELSE de = 0
  PROVE  Airborne(e, o, isOdd) = x
<1>1. PICK n \in Nat : n = Zone(FALSE) /\ n > 0 /\ n = ZO * Units  BY Zones
<1>2. PICK w \in Nat : w = Zone(TRUE) /\ w > 0 /\ w = ZE * Units  BY Zones
<1>3. x \in Int /\ Half \in Nat  BY Sizes DEF Cells
<1>4. de \in Int /\ do \in Int /\ do - de <= PairDt /\ de - do <= PairDt
  BY Sizes DEF Within
<1>5. PICK i \in Int : e \in Nat /\ x - de = n * i + e
  <2>1. x - de \in Int  BY <1>3, <1>4
  <2>2. e = (x - de) % n  BY <1>1 DEF Told
  <2>3. PICK q \in Int, r \in Nat : x - de = n * q + r /\ (x - de) % n = r  BY <1>1, <2>1, Parts
  <2> QED BY <2>2, <2>3
<1>6. PICK h \in Int : o \in Nat /\ x - do = w * h + o
  <2>1. x - do \in Int  BY <1>3, <1>4
  <2>2. o = (x - do) % w  BY <1>2 DEF Told
  <2>3. PICK q \in Int, r \in Nat : x - do = w * q + r /\ (x - do) % w = r  BY <1>2, <2>1, Parts
  <2> QED BY <2>2, <2>3
<1>7. PICK m \in Int : m = ZE * h - ZO * i  BY Sizes
<1>8. (2 * (e - o) + Units) \div (2 * Units) = m
  <2>1. n * i = Units * (ZO * i) /\ w * h = Units * (ZE * h) /\ ZO * i \in Int /\ ZE * h \in Int
    <3>1. (ZO * Units) * i = Units * (ZO * i) /\ (ZE * Units) * h = Units * (ZE * h)  BY Sizes, Factors
    <3>2. ZO * i \in Int /\ ZE * h \in Int  BY Sizes
    <3> QED BY <1>1, <1>2, <3>1, <3>2
  <2>2. w * h - n * i = Units * m
    <3>1. Units * (ZE * h - ZO * i) = Units * (ZE * h) - Units * (ZO * i)  BY <2>1, Sizes
    <3> QED BY <1>7, <2>1, <3>1
  <2>3. w * h \in Int /\ n * i \in Int /\ Units * m \in Int  BY Sizes
  <2>4. e - o = (do - de) + Units * m  BY <1>3, <1>4, <1>5, <1>6, <2>2, <2>3
  <2>5. PICK r \in Int : r = 2 * (do - de) + Units  BY <1>4, Sizes
  <2>6. r >= 0 /\ r < 2 * Units  BY <1>4, <2>5, Sizes
  <2>7. 2 * (e - o) + Units = (2 * Units) * m + r
    <3>1. (2 * Units) * m = 2 * (Units * m)  BY Sizes
    <3> QED BY <1>4, <1>5, <1>6, <2>3, <2>4, <2>5, <3>1, Sizes
  <2>8. ((2 * Units) * m + r) \div (2 * Units) = m
    <3>1. 2 * Units \in Nat /\ 2 * Units > 0  BY Sizes
    <3> QED BY <2>5, <2>6, <3>1, Division
  <2> QED BY <2>7, <2>8
<1>9. CASE isOdd
  <2>1. m = h + ZO * (h - i)
    <3>1. ZE * h = ZO * h + h /\ ZO * (h - i) = ZO * h - ZO * i /\ ZO * h \in Int /\ ZO * i \in Int  BY Sizes
    <3> QED BY <1>7, <3>1
  <2>2. PICK q \in Int, r \in Nat : h = ZO * q + r /\ h % ZO = r  BY Parts, Sizes
  <2>3. m % ZO = r
    <3>1. h - i \in Int  OBVIOUS
    <3> QED BY <2>1, <2>2, <3>1, Turned, Sizes
  <2>4. Airborne(e, o, isOdd) = Wrap(w * r + o)  BY <1>2, <1>8, <1>9, <2>3 DEF Airborne
  <2>5. do = 0 /\ x = w * h + o  BY <1>3, <1>6, <1>9
  <2>6. w * r + o = x + Circle * (-q)
    <3>1. w * h = w * (ZO * q) + w * r  BY <2>2, Sizes
    <3>2. w * (ZO * q) = Circle * q /\ Circle \in Int
      <4>1. Circle = ZO * w  BY <1>2, Zones
      <4> QED BY <4>1, Factors, Sizes
    <3>3. Circle * (-q) = -(Circle * q) /\ Circle * q \in Int  BY <3>2
    <3>4. w * r \in Int  OBVIOUS
    <3> QED BY <1>3, <1>6, <2>5, <3>1, <3>2, <3>3, <3>4
  <2> QED BY <1>3, <2>4, <2>6, WrapTurned, WrapOwn
<1>10. CASE ~ isOdd
  <2>1. m = i + ZE * (h - i)
    <3>1. ZE * i = ZO * i + i /\ ZE * (h - i) = ZE * h - ZE * i /\ ZE * h \in Int /\ ZE * i \in Int /\ ZO * i \in Int
      BY Sizes
    <3> QED BY <1>7, <3>1
  <2>2. PICK q \in Int, r \in Nat : i = ZE * q + r /\ i % ZE = r  BY Parts, Sizes
  <2>3. m % ZE = r
    <3>1. h - i \in Int  OBVIOUS
    <3> QED BY <2>1, <2>2, <3>1, Turned, Sizes
  <2>4. Airborne(e, o, isOdd) = Wrap(n * r + e)  BY <1>1, <1>8, <1>10, <2>3 DEF Airborne
  <2>5. de = 0 /\ x = n * i + e  BY <1>3, <1>5, <1>10
  <2>6. n * r + e = x + Circle * (-q)
    <3>1. n * i = n * (ZE * q) + n * r  BY <2>2, Sizes
    <3>2. n * (ZE * q) = Circle * q /\ Circle \in Int
      <4>1. Circle = ZE * n  BY <1>1, Zones
      <4> QED BY <4>1, Factors, Sizes
    <3>3. Circle * (-q) = -(Circle * q) /\ Circle * q \in Int  BY <3>2
    <3>4. n * r \in Int  OBVIOUS
    <3> QED BY <1>3, <1>5, <2>5, <3>1, <3>2, <3>3, <3>4
  <2> QED BY <1>3, <2>4, <2>6, WrapTurned, WrapOwn
<1> QED BY <1>9, <1>10

(* A single frame: the nearest cell to the reference that the frame can    *)
(* mean is where the aircraft is, if it flew less than half a zone since.  *)
LEMMA SingleIsRight ==
  ASSUME x \in Cells, NEW ref \in Int, NEW d \in Within(RefAge), NEW isOdd \in BOOLEAN,
         x = Wrap(ref + d), NEW raw, raw = x % Zone(isOdd)
  PROVE  Relative(ref, raw, isOdd) \in Int /\ Wrap(Relative(ref, raw, isOdd)) = x
<1>1. PICK z \in Nat : z = Zone(isOdd) /\ z > 0 /\ 2 * RefAge < z
  <2>1. isOdd = TRUE \/ isOdd = FALSE  OBVIOUS
  <2>2. PICK n \in Nat : n = Zone(FALSE) /\ n = ZO * Units  BY Zones
  <2>3. PICK w \in Nat : w = Zone(TRUE) /\ w >= n  BY <2>2, Zones
  <2>4. RefAge \in Nat /\ RefMax \in Nat /\ RefAge <= RefMax /\ 2 * RefMax < n  BY <2>2, Sizes
  <2>5. n > 2 * RefAge /\ w > 2 * RefAge
    <3>1. 2 * RefAge <= 2 * RefMax  BY <2>4
    <3>2. w >= n  BY <2>3
    <3> QED BY <2>4, <3>1, <3>2
  <2> QED BY <2>1, <2>2, <2>3, <2>5, Zones
<1>2. d \in Int /\ 2 * d < z /\ -(2 * d) < z /\ ref + d \in Int  BY <1>1, Sizes DEF Within
<1>3. PICK p \in Int, u \in Nat : ref + d = z * p + u /\ (ref + d) % z = u  BY <1>1, <1>2, Parts
<1>4. raw = u
  <2>1. PICK k \in Int : x = ref + d + Circle * k  BY <1>2, Wraps
  <2>2. (ref + d + Circle * k) % Zone(isOdd) = (ref + d) % Zone(isOdd)  BY <1>2, ZoneTurned
  <2> QED BY <1>1, <1>3, <2>1, <2>2
<1>5. PICK q \in Int, s \in Nat : ref = z * q + s /\ ref % z = s /\ ref \div z = q  BY <1>1, Parts
<1>6. (z + 2 * s - 2 * u) \div (2 * z) = p - q
  <2>1. z * (p - q) = z * p - z * q /\ z * p \in Int /\ z * q \in Int /\ (2 * z) * (p - q) = 2 * (z * (p - q))
    OBVIOUS
  <2>2. z + 2 * s - 2 * u = (2 * z) * (p - q) + (z - 2 * d)  BY <1>2, <1>3, <1>5, <2>1
  <2>3. z - 2 * d \in Int /\ z - 2 * d >= 0 /\ z - 2 * d < 2 * z  BY <1>2
  <2>4. p - q \in Int /\ 2 * z \in Nat /\ 2 * z > 0  BY <1>1
  <2>5. ((2 * z) * (p - q) + (z - 2 * d)) \div (2 * z) = p - q  BY <2>3, <2>4, Division
  <2> QED BY <2>2, <2>5
<1>7. z * (q + (p - q)) + u = ref + d
  <2>1. q + (p - q) = p  OBVIOUS
  <2> QED BY <1>3, <2>1
<1>8. Relative(ref, raw, isOdd) = IF ref + d > Half THEN ref + d - 2 * Half ELSE ref + d
  <2>1. z * (ref \div z + (z + 2 * (ref % z) - 2 * raw) \div (2 * z)) + raw = ref + d
    BY <1>4, <1>5, <1>6, <1>7
  <2> DEFINE r == z * (ref \div z + (z + 2 * (ref % z) - 2 * raw) \div (2 * z)) + raw
  <2>2. Relative(ref, raw, isOdd) = IF r > Half THEN r - 2 * Half ELSE r  BY <1>1 DEF Relative
  <2>3. r = ref + d  BY <2>1
  <2> HIDE DEF r
  <2>4. (IF r > Half THEN r - 2 * Half ELSE r) = (IF ref + d > Half THEN ref + d - 2 * Half ELSE ref + d)
    BY <1>2, <2>3, Sizes
  <2> QED BY <2>2, <2>4
<1>9. ref + d - 2 * Half = ref + d + Circle * (-1) /\ ref + d - 2 * Half \in Int  BY <1>2, Sizes DEF Circle
<1>10. Wrap(ref + d + Circle * (-1)) = Wrap(ref + d)  BY <1>2, WrapTurned
<1> QED BY <1>2, <1>8, <1>9, <1>10

-----------------------------------------------------------------------------
(* The inductive invariant.                                                *)

FrameRecords == [raw : Nat, age : 0 .. Old]

FixTypeOK ==
  /\ x \in Cells /\ even \in FrameRecords /\ odd \in FrameRecords
  /\ lon \in Int /\ age \in 0 .. RefAge /\ rejects \in Nat
  /\ known \in BOOLEAN /\ wrong \in BOOLEAN /\ bad \in Nat

(* A frame that may still be paired tells where the aircraft was at most   *)
(* as many cells away as ticks ago.                                        *)
HeardAs(f, z, p) == f.age <= PairDt => \E d \in Within(f.age) : Told(f.raw, z, p, d)

(* So does the last position, while it serves as a reference.              *)
Flown == known /\ age < RefAge => \E d \in Within(age) : x = Wrap(lon + d)

FixInv == FixTypeOK /\ (bad = 0 => ~wrong /\ Flown /\ HeardAs(even, Zone(FALSE), x) /\ HeardAs(odd, Zone(TRUE), x))

(* What is decoded is a number.                                            *)
LEMMA DecodedType ==
  ASSUME FixTypeOK, NEW e \in FrameRecords, NEW o \in FrameRecords, NEW isOdd \in BOOLEAN, NEW s \in BOOLEAN,
         NEW l \in Decoded(e, o, isOdd, s)
  PROVE  l \in Int
<1>1. \A a \in Int : Wrap(a) \in Int
  BY Wraps, Sizes DEF Cells
<1>2. Zone(isOdd) \in Nat /\ Zone(isOdd) > 0
  <2>1. isOdd = TRUE \/ isOdd = FALSE  OBVIOUS
  <2> QED BY <2>1, Zones
<1>3. e.raw \in Int /\ o.raw \in Int /\ lon \in Int
  BY DEF FrameRecords, FixTypeOK
<1>4. Airborne(e.raw, o.raw, isOdd) \in Int
  <2>1. PICK m \in Int : m = (2 * (e.raw - o.raw) + Units) \div (2 * Units)
    <3>1. 2 * (e.raw - o.raw) + Units \in Int /\ 2 * Units \in Nat /\ 2 * Units > 0  BY <1>3, Sizes
    <3> QED BY <3>1, Parts
  <2>2. m % ZO \in Int /\ m % ZE \in Int  BY Sizes, Parts
  <2>3. Zone(TRUE) * (m % ZO) + o.raw \in Int /\ Zone(FALSE) * (m % ZE) + e.raw \in Int
    <3>1. PICK w \in Nat : w = Zone(TRUE)  BY Zones
    <3>4. PICK n \in Nat : n = Zone(FALSE)  BY Zones
    <3>2. PICK a \in Int, b \in Int : a = m % ZO /\ b = m % ZE  BY <2>2
    <3>3. w * a + o.raw \in Int /\ n * b + e.raw \in Int  BY <1>3
    <3> QED BY <3>1, <3>2, <3>3, <3>4
  <2> QED BY <1>1, <2>1, <2>3 DEF Airborne
<1>5. \A raw \in Int : Relative(lon, raw, isOdd) \in Int
  <2> SUFFICES ASSUME NEW raw \in Int PROVE Relative(lon, raw, isOdd) \in Int  OBVIOUS
  <2>1. PICK z \in Nat : z = Zone(isOdd) /\ z > 0  BY <1>2
  <2>2. PICK q \in Int, r \in Nat : lon \div z = q /\ lon % z = r  BY <1>3, <2>1, Parts
  <2>3. PICK p \in Int : p = (z + 2 * r - 2 * raw) \div (2 * z)
    <3>1. z + 2 * r - 2 * raw \in Int /\ 2 * z \in Nat /\ 2 * z > 0  BY <2>1
    <3> QED BY <3>1, Parts
  <2>4. PICK a \in Int : a = z * (lon \div z + (z + 2 * (lon % z) - 2 * raw) \div (2 * z)) + raw
    BY <2>2, <2>3
  <2>5. Relative(lon, raw, isOdd) = IF a > Half THEN a - 2 * Half ELSE a  BY <2>1, <2>4 DEF Relative
  <2> QED BY <2>5, Sizes
<1>6. l = Airborne(e.raw, o.raw, isOdd) \/ l = Relative(lon, e.raw, isOdd) \/ l = Relative(lon, o.raw, isOdd)
  BY DEF Decoded
<1> QED BY <1>3, <1>4, <1>5, <1>6

(* What is decoded from frames that came as they were sent is right.       *)
LEMMA DecodedRight ==
  ASSUME FixTypeOK, Flown, NEW e \in FrameRecords, NEW o \in FrameRecords, NEW isOdd \in BOOLEAN, NEW s \in BOOLEAN,
         HeardAs(e, Zone(FALSE), x), HeardAs(o, Zone(TRUE), x),
         IF isOdd THEN o.age = 0 ELSE e.age = 0,
         NEW l \in Decoded(e, o, isOdd, s)
  PROVE  Wrap(l) = x
<1>1. x \in Cells /\ lon \in Int /\ age \in Nat /\ e.age \in Nat /\ o.age \in Nat
  BY DEF FixTypeOK, FrameRecords
<1>2. CASE e.age <= PairDt /\ o.age <= PairDt /\ l = Airborne(e.raw, o.raw, isOdd)
  <2>1. PICK de \in Within(e.age) : Told(e.raw, Zone(FALSE), x, de)  BY <1>2 DEF HeardAs
  <2>2. PICK do \in Within(o.age) : Told(o.raw, Zone(TRUE), x, do)  BY <1>2 DEF HeardAs
  <2>3. de \in Within(PairDt) /\ do \in Within(PairDt)  BY <1>1, <1>2, Sizes DEF Within
  <2>4. IF isOdd THEN do = 0 ELSE de = 0  BY DEF Within
  <2>5. l = x  BY <1>1, <1>2, <2>1, <2>2, <2>3, <2>4, PairIsRight
  <2> QED BY <1>1, <2>5, WrapOwn
<1>3. ASSUME known, age < RefAge, NEW raw, raw = IF isOdd THEN o.raw ELSE e.raw, l = Relative(lon, raw, isOdd)
      PROVE  Wrap(l) = x
  <2>1. PICK d \in Within(age) : x = Wrap(lon + d)  BY <1>3 DEF Flown
  <2>2. d \in Within(RefAge)  BY <1>1, <1>3, Sizes DEF Within
  <2>3. x \in Int  BY <1>1, Sizes DEF Cells
  <2>4. raw = x % Zone(isOdd)
    <3>1. CASE isOdd
      <4>0. o.age = 0 /\ 0 <= PairDt  BY <3>1, Sizes
      <4>1. PICK do \in Within(0) : Told(o.raw, Zone(TRUE), x, do)  BY <4>0 DEF HeardAs
      <4>2. do = 0 /\ x - do = x  BY <2>3 DEF Within
      <4> QED BY <1>3, <3>1, <4>1, <4>2 DEF Told
    <3>2. CASE ~ isOdd
      <4>0. e.age = 0 /\ 0 <= PairDt  BY <3>2, Sizes
      <4>1. PICK de \in Within(0) : Told(e.raw, Zone(FALSE), x, de)  BY <4>0 DEF HeardAs
      <4>2. de = 0 /\ x - de = x  BY <2>3 DEF Within
      <4> QED BY <1>3, <3>2, <4>1, <4>2 DEF Told
    <3> QED BY <3>1, <3>2
  <2> QED BY <1>1, <1>3, <2>1, <2>2, <2>4, SingleIsRight
<1> QED BY <1>2, <1>3 DEF Decoded

(* A frame ages while the aircraft flies a cell on.                        *)
LEMMA FrameAges ==
  ASSUME NEW f \in FrameRecords, NEW p \in Cells, NEW dd \in {-1, 0, 1}, NEW isOdd \in BOOLEAN,
         HeardAs(f, Zone(isOdd), p)
  PROVE  OlderFrame(f) \in FrameRecords /\ HeardAs(OlderFrame(f), Zone(isOdd), Wrap(p + dd))
<1>1. f.age \in Nat /\ f.age <= Old /\ Old \in Nat /\ Old = PairDt + 1 /\ p \in Int /\ dd \in Int
  BY Sizes DEF FrameRecords, Old, Cells
<1> DEFINE g == OlderFrame(f)
<1>2. g \in FrameRecords /\ g.raw = f.raw /\ g.age = IF f.age < Old THEN f.age + 1 ELSE Old
  BY <1>1 DEF OlderFrame, FrameRecords
<1> HIDE DEF g
<1>3. ASSUME g.age <= PairDt
      PROVE  \E d \in Within(g.age) : Told(g.raw, Zone(isOdd), Wrap(p + dd), d)
  <2>0. PairDt \in Nat  BY Sizes
  <2>1. g.age = f.age + 1 /\ f.age <= PairDt
    <3>1. CASE f.age < Old  BY <1>1, <1>2, <2>0, <3>1
    <3>2. CASE ~(f.age < Old)  BY <1>1, <1>2, <1>3, <2>0, <3>2
    <3> QED BY <3>1, <3>2
  <2>2. PICK d \in Within(f.age) : Told(f.raw, Zone(isOdd), p, d)  BY <2>1 DEF HeardAs
  <2>3. d \in Int /\ d + dd \in Within(g.age)  BY <1>1, <2>1 DEF Within
  <2>4. p + dd \in Int  BY <1>1
  <2>5. PICK k \in Int : Wrap(p + dd) = p + dd + Circle * k  BY <2>4, Wraps
  <2>6. Circle * k \in Int  BY Sizes DEF Circle
  <2>7. Wrap(p + dd) - (d + dd) = (p - d) + Circle * k  BY <1>1, <2>3, <2>5, <2>6
  <2>8. p - d \in Int  BY <1>1, <2>3
  <2>9. ((p - d) + Circle * k) % Zone(isOdd) = (p - d) % Zone(isOdd)  BY <2>8, ZoneTurned
  <2>10. Told(g.raw, Zone(isOdd), Wrap(p + dd), d + dd)  BY <1>2, <2>2, <2>7, <2>9 DEF Told
  <2> QED BY <2>3, <2>10
<1> QED BY <1>2, <1>3 DEF HeardAs, g

(* A frame that has just come as it was sent tells where the aircraft is.  *)
LEMMA JustHeard ==
  ASSUME NEW p \in Cells, NEW isOdd \in BOOLEAN, NEW raw \in Nat
  PROVE  /\ [raw |-> raw, age |-> 0] \in FrameRecords
         /\ raw = p % Zone(isOdd) => HeardAs([raw |-> raw, age |-> 0], Zone(isOdd), p)
<1>1. Old \in Nat /\ p \in Int  BY Sizes DEF Old, Cells
<1>2. [raw |-> raw, age |-> 0] \in FrameRecords  BY <1>1 DEF FrameRecords
<1>3. ASSUME raw = p % Zone(isOdd)  PROVE HeardAs([raw |-> raw, age |-> 0], Zone(isOdd), p)
  <2>1. 0 \in Within(0) /\ p - 0 = p  BY <1>1 DEF Within
  <2>2. Told(raw, Zone(isOdd), p, 0)  BY <1>3, <2>1 DEF Told
  <2> QED BY <2>1, <2>2 DEF HeardAs
<1> QED BY <1>2, <1>3

LEMMA FixInitInv ==
  ASSUME FixInit
  PROVE  FixInv
<1>1. x \in Cells  BY FixAssumption DEF FixInit, Cells
<1>2. NoFrame \in FrameRecords /\ ~(NoFrame.age <= PairDt)  BY Sizes DEF NoFrame, FrameRecords, Old
<1>3. FixTypeOK
  <2>1. RefAge \in 0 .. RefAge  BY Sizes
  <2>2. even \in FrameRecords /\ odd \in FrameRecords /\ lon = 0 /\ age = RefAge /\ rejects = 0
        /\ known = FALSE /\ wrong = FALSE /\ bad = 0
    BY <1>2 DEF FixInit
  <2>3. known \in BOOLEAN /\ wrong \in BOOLEAN  BY <2>2
  <2>4. lon \in Int /\ age \in 0 .. RefAge /\ rejects \in Nat /\ bad \in Nat  BY <2>1, <2>2
  <2> QED BY <1>1, <2>2, <2>3, <2>4 DEF FixTypeOK
<1>4. Flown /\ ~wrong /\ HeardAs(even, Zone(FALSE), x) /\ HeardAs(odd, Zone(TRUE), x)
  BY <1>2 DEF FixInit, Flown, HeardAs
<1> QED BY <1>3, <1>4 DEF FixInv

(* A position that is judged is taken or not; one that is right and taken  *)
(* is where the aircraft is.                                               *)
LEMMA Verdict ==
  ASSUME FixTypeOK, NEW l \in Int, Judge(l), x' = x
  PROVE  /\ lon' \in Int /\ age' \in 0 .. RefAge /\ rejects' \in Nat /\ known' \in BOOLEAN /\ wrong' \in BOOLEAN
         /\ ~wrong /\ Flown /\ Wrap(l) = x => ~wrong' /\ Flown'
<1>1. ASSUME NEW n \in Nat, Take(l, n)
      PROVE  /\ lon' \in Int /\ age' \in 0 .. RefAge /\ rejects' \in Nat /\ known' \in BOOLEAN /\ wrong' \in BOOLEAN
             /\ Wrap(l) = x => ~wrong' /\ Flown'
  <2>1. lon' = l /\ age' = 0 /\ rejects' = n /\ known' = TRUE /\ wrong' = (Wrap(l) # x)  BY <1>1 DEF Take
  <2>2. wrong' \in BOOLEAN  BY <2>1
  <2>3. 0 \in Within(0) /\ l + 0 = l  BY DEF Within
  <2>4. Wrap(l) = x => Flown'  BY <2>1, <2>3 DEF Flown
  <2>5. 0 \in 0 .. RefAge  BY Sizes
  <2> QED BY <2>1, <2>2, <2>4, <2>5
<1>2. ASSUME Drop
      PROVE  /\ lon' \in Int /\ age' \in 0 .. RefAge /\ rejects' \in Nat /\ known' \in BOOLEAN /\ wrong' \in BOOLEAN
             /\ ~wrong /\ Flown => ~wrong' /\ Flown'
  <2>1. lon' = lon /\ age' = age /\ known' = known /\ wrong' = wrong /\ rejects' = rejects + 1  BY <1>2 DEF Drop
  <2>2. wrong' \in BOOLEAN /\ known' \in BOOLEAN  BY <2>1 DEF FixTypeOK
  <2>3. Flown => Flown'  BY <2>1 DEF Flown
  <2> QED BY <2>1, <2>2, <2>3 DEF FixTypeOK
<1>3. (\E n \in Nat : Take(l, n)) \/ Drop  BY DEF Judge, FixTypeOK
<1> QED BY <1>1, <1>2, <1>3

LEMMA CprStep ==
  ASSUME FixInv, NEW isOdd \in BOOLEAN, CprFrame(isOdd)
  PROVE  FixInv'
<1>0. FixTypeOK /\ x' = x  BY DEF FixInv, CprFrame
<1>1. PICK raw \in 0 .. Zone(isOdd) - 1, s \in BOOLEAN :
        LET e == IF isOdd THEN even ELSE [raw |-> raw, age |-> 0]
            o == IF isOdd THEN [raw |-> raw, age |-> 0] ELSE odd
            d == Decoded(e, o, isOdd, s)
        IN  /\ even' = e /\ odd' = o
            /\ IF raw = x % Zone(isOdd) THEN UNCHANGED bad ELSE steady /\ bad < MaxBad /\ bad' = bad + 1
            /\ \/ d = {} /\ UNCHANGED <<known, lon, age, rejects, wrong>>
               \/ \E l \in d : Judge(l)
  BY DEF CprFrame
<1>2. raw \in Nat  BY Zones
<1> DEFINE f == [raw |-> raw, age |-> 0]
<1>3. f \in FrameRecords /\ (raw = x % Zone(isOdd) => HeardAs(f, Zone(isOdd), x))
  BY <1>0, <1>2, JustHeard DEF FixTypeOK
<1>4. f.age = 0  OBVIOUS
<1>5. even' = (IF isOdd THEN even ELSE f) /\ odd' = (IF isOdd THEN f ELSE odd)  BY <1>1
<1>6. even' \in FrameRecords /\ odd' \in FrameRecords /\ (IF isOdd THEN odd'.age = 0 ELSE even'.age = 0)
  BY <1>0, <1>3, <1>4, <1>5 DEF FixTypeOK
<1>7. \/ bad' = bad /\ raw = x % Zone(isOdd)
      \/ bad' = bad + 1
  BY <1>1
<1>8. \/ UNCHANGED <<known, lon, age, rejects, wrong>>
      \/ \E l \in Decoded(even', odd', isOdd, s) : Judge(l)
  BY <1>1, <1>5
<1> HIDE DEF f
<1>9. bad' \in Nat /\ (bad' = 0 => bad = 0 /\ raw = x % Zone(isOdd))  BY <1>0, <1>7 DEF FixTypeOK
<1>10. ASSUME bad' = 0  PROVE HeardAs(even', Zone(FALSE), x) /\ HeardAs(odd', Zone(TRUE), x)
  BY <1>3, <1>5, <1>9, <1>10 DEF FixInv
<1>11. CASE UNCHANGED <<known, lon, age, rejects, wrong>>
  <2>1. Flown <=> Flown'  BY <1>0, <1>11 DEF Flown
  <2>2. FixTypeOK'  BY <1>0, <1>6, <1>9, <1>11 DEF FixTypeOK
  <2>3. bad' = 0 => (~wrong)' /\ Flown'  BY <1>9, <1>11, <2>1 DEF FixInv
  <2>4. bad' = 0 => HeardAs(even, Zone(FALSE), x)' /\ HeardAs(odd, Zone(TRUE), x)'
    BY <1>0, <1>10 DEF HeardAs, Told
  <2> QED BY <2>2, <2>3, <2>4 DEF FixInv
<1>12. ASSUME NEW l \in Decoded(even', odd', isOdd, s), Judge(l)  PROVE FixInv'
  <2>1. l \in Int  BY <1>0, <1>6, <1>12, DecodedType
  <2>2. FixTypeOK'  BY <1>0, <1>6, <1>9, <1>12, <2>1, Verdict DEF FixTypeOK
  <2>3. ASSUME bad' = 0  PROVE (~wrong)' /\ Flown'
    <3>1. ~wrong /\ Flown  BY <1>9, <2>3 DEF FixInv
    <3>2. HeardAs(even', Zone(FALSE), x) /\ HeardAs(odd', Zone(TRUE), x)  BY <1>10, <2>3
    <3>3. Wrap(l) = x  BY <1>0, <1>6, <1>12, <3>1, <3>2, DecodedRight
    <3> QED BY <1>0, <1>12, <2>1, <3>1, <3>3, Verdict
  <2>4. bad' = 0 => HeardAs(even, Zone(FALSE), x)' /\ HeardAs(odd, Zone(TRUE), x)'
    BY <1>0, <1>10 DEF HeardAs, Told
  <2> QED BY <2>2, <2>3, <2>4 DEF FixInv
<1> QED BY <1>8, <1>11, <1>12

LEMMA TickStep ==
  ASSUME FixInv, Tick
  PROVE  FixInv'
<1>1. FixTypeOK  BY DEF FixInv
<1>2. PICK dd \in {-1, 0, 1} : x' = Wrap(x + dd)  BY DEF Tick
<1>3. even' = OlderFrame(even) /\ odd' = OlderFrame(odd) /\ age' = (IF age < RefAge THEN age + 1 ELSE age)
      /\ UNCHANGED <<lon, rejects, known, bad, steady, wrong>>
  BY DEF Tick
<1>4. x \in Cells /\ x \in Int /\ x + dd \in Int /\ dd \in Int /\ lon \in Int /\ age \in 0 .. RefAge
  BY <1>1, Sizes DEF FixTypeOK, Cells
<1>5. \A f \in FrameRecords : OlderFrame(f) \in FrameRecords
  BY Sizes DEF OlderFrame, FrameRecords, Old
<1>6. FixTypeOK'
  <2>1. x' \in Cells  BY <1>2, <1>4, Wraps
  <2>2. even' \in FrameRecords /\ odd' \in FrameRecords  BY <1>1, <1>3, <1>5 DEF FixTypeOK
  <2>3. age' \in 0 .. RefAge  BY <1>3, <1>4, Sizes
  <2>4. known' \in BOOLEAN /\ wrong' \in BOOLEAN /\ lon' \in Int /\ rejects' \in Nat /\ bad' \in Nat
    BY <1>1, <1>3 DEF FixTypeOK
  <2> QED BY <2>1, <2>2, <2>3, <2>4 DEF FixTypeOK
<1>7. ASSUME bad' = 0
      PROVE  ~wrong' /\ Flown' /\ HeardAs(even', Zone(FALSE), x') /\ HeardAs(odd', Zone(TRUE), x')
  <2>1. ~wrong /\ Flown /\ HeardAs(even, Zone(FALSE), x) /\ HeardAs(odd, Zone(TRUE), x)
    BY <1>3, <1>7 DEF FixInv
  <2>2. ~wrong'  BY <1>3, <2>1
  <2>3. HeardAs(even', Zone(FALSE), x') /\ HeardAs(odd', Zone(TRUE), x')
    BY <1>1, <1>2, <1>3, <2>1, FrameAges DEF FixTypeOK
  <2>4. ASSUME known', age' < RefAge  PROVE \E d \in Within(age') : x' = Wrap(lon' + d)
    <3>1. known /\ age < RefAge /\ age' = age + 1 /\ lon' = lon  BY <1>3, <1>4, <2>4, Sizes
    <3>2. PICK d \in Within(age) : x = Wrap(lon + d)  BY <2>1, <3>1 DEF Flown
    <3>3. d \in Int /\ d + dd \in Within(age') /\ lon + d \in Int /\ lon + d + dd \in Int
      BY <1>4, <3>1 DEF Within
    <3>4. PICK k \in Int : x = lon + d + Circle * k  BY <3>2, <3>3, Wraps
    <3>5. Circle * k \in Int  BY Sizes DEF Circle
    <3>6. x + dd = (lon + d + dd) + Circle * k  BY <1>4, <3>3, <3>4, <3>5
    <3>7. Wrap((lon + d + dd) + Circle * k) = Wrap(lon + d + dd)  BY <3>3, WrapTurned
    <3>8. lon + d + dd = lon' + (d + dd)  BY <1>4, <3>1, <3>3
    <3> QED BY <1>2, <3>3, <3>6, <3>7, <3>8
  <2> QED BY <2>2, <2>3, <2>4 DEF Flown
<1>8. bad' = 0 => (~wrong /\ HeardAs(even, Zone(FALSE), x) /\ HeardAs(odd, Zone(TRUE), x))' /\ Flown'
  BY <1>7 DEF HeardAs, Told
<1> QED BY <1>6, <1>8 DEF FixInv

LEMMA LostStep ==
  ASSUME FixInv, Lost
  PROVE  FixInv'
<1>1. NoFrame \in FrameRecords /\ ~(NoFrame.age <= PairDt)  BY Sizes DEF NoFrame, FrameRecords, Old
<1>2. even' = NoFrame /\ odd' = NoFrame /\ known' = FALSE /\ lon' = 0 /\ age' = RefAge /\ rejects' = 0
      /\ wrong' = FALSE /\ x' = x /\ bad' = bad
  BY DEF Lost
<1>3. FixTypeOK'
  <2>1. RefAge \in 0 .. RefAge  BY Sizes
  <2>2. even' \in FrameRecords /\ odd' \in FrameRecords /\ x' \in Cells /\ bad' \in Nat
    BY <1>1, <1>2 DEF FixInv, FixTypeOK
  <2>3. known' \in BOOLEAN /\ wrong' \in BOOLEAN  BY <1>2
  <2>4. lon' \in Int /\ age' \in 0 .. RefAge /\ rejects' \in Nat  BY <1>2, <2>1
  <2> QED BY <2>2, <2>3, <2>4 DEF FixTypeOK
<1>4. Flown' /\ (~wrong)' /\ HeardAs(even, Zone(FALSE), x)' /\ HeardAs(odd, Zone(TRUE), x)'
  BY <1>1, <1>2 DEF Flown, HeardAs
<1> QED BY <1>3, <1>4 DEF FixInv

LEMMA FixKeeps ==
  ASSUME FixInv, [FixNext]_fixVars
  PROVE  FixInv'
<1>1. CASE EvenFrame  BY <1>1, CprStep DEF EvenFrame
<1>2. CASE OddFrame  BY <1>2, CprStep DEF OddFrame
<1>3. CASE Tick  BY <1>3, TickStep
<1>4. CASE Lost  BY <1>4, LostStep
<1>5. CASE UNCHANGED fixVars
  BY <1>5 DEF fixVars, FixInv, FixTypeOK, Flown, HeardAs, Told
<1> QED BY <1>1, <1>2, <1>3, <1>4, <1>5 DEF FixNext

(* The inductive invariant holds in every behaviour.                       *)
THEOREM FixInvariant == FixSpec => []FixInv
<1>1. FixInit => FixInv  BY FixInitInv
<1>2. FixInv /\ [FixNext]_fixVars => FixInv'  BY FixKeeps
<1> QED BY <1>1, <1>2, PTL DEF FixSpec

(* With no frame corrupted every position taken is where the aircraft was. *)
THEOREM PositionsAreRight == FixSpec => []FixIsRight
<1>1. FixInv => FixIsRight  BY DEF FixInv, FixIsRight
<1> QED BY <1>1, FixInvariant, PTL

-----------------------------------------------------------------------------
(* The stages together.                                                    *)

(* Whatever the behaviour of the whole is about, each stage behaves as it  *)
(* does alone.                                                             *)
THEOREM StagesAreTheirs == ReceiverSpec => Spec /\ FixSpec /\ ScanSpec /\ PhaseSpec /\ ContactSpec
<1>1. ReceiverInit => Init /\ FixInit /\ ScanInit /\ PhaseInit /\ ContactInit
  BY DEF ReceiverInit
<1>2. [ReceiverNext]_<<part, stageVars>> => [Next]_vars /\ [FixNext]_fixVars /\ [ScanNext]_scanVars
                                                /\ [PhaseNext]_samples /\ [ContactNext]_contactVars
  BY DEF ReceiverNext, PositionStep, FixStep, SearchStep, SliceStep, DecodeStep, CommBStep, ContactStep, stageVars
<1> QED BY <1>1, <1>2, PTL DEF ReceiverSpec, Spec, FixSpec, ScanSpec, PhaseSpec, ContactSpec

(* What the run Receiver checks of these: no setting lost, positions of    *)
(* aircraft where they were, samples judged as they were received, no      *)
(* frame twice, and a row that shows what the aircraft said itself.        *)
THEOREM ReceiverSafe ==
  ReceiverSpec => [](NoSettingLost /\ FixIsRight /\ SamplesAsReceived /\ EachFrameOnce /\ SquitterComesFirst)
  BY StagesAreTheirs, SettingKept, PositionsAreRight, AsReceived, FramesOnce, OwnWordComesFirst, PTL
=============================================================================
