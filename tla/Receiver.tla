------------------------------ MODULE Receiver ------------------------------
(***************************************************************************)
(* The way of a message, from the samples of a buffer to a row of the      *)
(* aircraft table: Scan finds frames, Phase slices their bits, ModeS       *)
(* believes some of them, CommB says which register a reply carries,       *)
(* Contact fills the row and Fix its position; Position is the receiver's  *)
(* own, set from a console.                                                *)
(*                                                                         *)
(* Each stage is a function call away from the next and shares no state    *)
(* with it but the message, so that what one does in any order of inputs   *)
(* includes what it does in this receiver.  A behaviour is about one stage.*)
(***************************************************************************)
EXTENDS Position, Fix, Scan, Phase, ModeS, CommB, Contact

VARIABLE part          \* the stage that this behaviour is about

Stages      == {"position", "fix", "scan", "slice", "decode", "commb", "contact"}
stageVars   == <<vars, fixVars, scanVars, samples, decodeVars, commbVars, contactVars>>

ReceiverInit == /\ part \in Stages
                /\ Init /\ FixInit /\ ScanInit /\ PhaseInit /\ DecodeInit /\ CommBInit /\ ContactInit
                /\ part # "fix" => steady /\ x = 0

PositionStep == /\ part = "position" /\ Next
                /\ UNCHANGED <<part, fixVars, scanVars, samples, decodeVars, commbVars, contactVars>>
FixStep      == /\ part = "fix" /\ FixNext
                /\ UNCHANGED <<part, vars, scanVars, samples, decodeVars, commbVars, contactVars>>
SearchStep   == /\ part = "scan" /\ ScanNext
                /\ UNCHANGED <<part, vars, fixVars, samples, decodeVars, commbVars, contactVars>>
SliceStep    == /\ part = "slice" /\ PhaseNext
                /\ UNCHANGED <<part, vars, fixVars, scanVars, decodeVars, commbVars, contactVars>>
DecodeStep   == /\ part = "decode" /\ DecodeNext
                /\ UNCHANGED <<part, vars, fixVars, scanVars, samples, commbVars, contactVars>>
CommBStep    == /\ part = "commb" /\ CommBNext
                /\ UNCHANGED <<part, vars, fixVars, scanVars, samples, decodeVars, contactVars>>
ContactStep  == /\ part = "contact" /\ ContactNext
                /\ UNCHANGED <<part, vars, fixVars, scanVars, samples, decodeVars, commbVars>>

ReceiverNext == \/ PositionStep \/ FixStep \/ SearchStep \/ SliceStep \/ DecodeStep \/ CommBStep \/ ContactStep

\* Both tasks of the position's run; nobody has to type a command or plug in a dongle.
PositionFairness ==
  /\ WF_vars(part = "position" /\ Set)
  /\ WF_vars(part = "position" /\ Receiver /\ rx # "off")

\* Steady reception: both frames come and time passes.
FixFairness ==
  /\ WF_fixVars(part = "fix" /\ steady /\ EvenFrame /\ even.age > 0)
  /\ WF_fixVars(part = "fix" /\ steady /\ OddFrame /\ odd.age > 0)
  /\ WF_fixVars(part = "fix" /\ steady /\ Tick)

ReceiverSpec == /\ ReceiverInit /\ [][ReceiverNext]_<<part, stageVars>>
                /\ PositionFairness /\ FixFairness

-----------------------------------------------------------------------------
(* The instance that is checked *)

\* A parity of six bits with the distance that the real one has.
SmallColumn == <<{1,5,6}, {1,4,5}, {2,5,6}, {1,2,3,4,5}, {2,3,4,5,6}, {1,2,3}, {2,3,4},
                 {3,4,5}, {4,5,6}, {1,2,4}, {2,3,5}, {3,4,6}, {1,2,6}, {1,3,4,5,6}>>
SmallHash(a)  == IF 1 \in a THEN 1 ELSE 2
ThreePlanes   == {{1, 3, 6}, {2, 4, 6}, {3, 5, 6}}
TwoPayloads   == {{}, {12}}
OneOrTwoWrong == {{}} \cup {{b} : b \in 1 .. 20} \cup {{b, b + 1} : b \in 1 .. 19}
                   \cup {{1, 5}, {2, 4}, {3, 5}, {1, 3}, {4, 12}}

\* Rolls of 0, 10 and 20 degrees; 45/256 degrees is one.
SomeRolls      == {-114, -57, 0, 57, 114}
SomeRates      == {-64, -20, 0, 20, 64, 320}
SomeClimbs     == {-187, -60, 0, 2, 128, 187}
SomeCalls      == {<<1, 6, 18, 48, 49, 50, 32, 32>>, <<26, 57, 0, 0, 1, 2, 3, 4>>, <<11, 12, 13, 57, 57, 57, 57, 32>>}
SomeAdvisories == {{9, 10, 11, 15}, {27}, {9, 10, 29}, {9, 12, 30, 31, 54}}
HeardIfOne(a)  == 1 \in a

\* A thousandth of a tangent; 68625 tan / (tas 20 pi) is in degrees per second.
Tangent(roll) == CASE roll = 0 -> 0 [] roll \in 1 .. 100 -> 176 [] roll > 100 -> 364
                   [] roll \in -100 .. -1 -> -176 [] OTHER -> -364
WithinTwoDegrees(roll, tas, rate) == (Tangent(roll) * 34951) \div (tas * 1000) - rate \in -64 .. 64
=============================================================================
