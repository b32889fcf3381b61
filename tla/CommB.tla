------------------------------- MODULE CommB --------------------------------
(***************************************************************************)
(* Which register a Comm-B reply carries: the reply does not say, and      *)
(* decode_commb() of src/main/mode-s.c scores what each register would     *)
(* make of its 56 bits and takes the one with the highest score, if it is  *)
(* alone.  A block is the set of its bits that are one, counted from 1.    *)
(***************************************************************************)
EXTENDS Integers, FiniteSets, FiniteSetsExt

CONSTANTS
  Calls,               \* callsigns, as eight codes
  Selected,            \* altitudes selected, in 16 ft, 0 for none
  Settings,            \* barometric settings, in 0.1 hPa above 800, 0 for none
  Rolls, Rates,        \* roll in 45/256 degrees, rate of turn in 1/32 degree per second
  Speeds, Machs,       \* speeds in knots, Mach in 0.004
  Climbs,              \* vertical rates in 32 ft/min
  Advisories,          \* bits 9 to 56 of resolution advisories
  HeardLately(_),      \* icao_addr_was_recently_seen()
  Coordinated(_, _, _) \* the rate of turn is that of the roll at the speed, within 2 degrees per second

VARIABLES
  sent,                \* the register that an aircraft sends
  block                \* its bits

commbVars == <<sent, block>>

Bit(n)      == n \in block
Value(i, j) == LET upTo[b \in i - 1 .. j] == IF b < i THEN 0 ELSE 2 * upTo[b - 1] + (IF Bit(b) THEN 1 ELSE 0)
               IN  upTo[j]
Zero(i, j)  == block \cap i .. j = {}
Signed(s, i, j) == Value(i, j) - (IF Bit(s) THEN 2^(j - i + 1) ELSE 0)
Field(v, i, j)  == {b \in i .. j : (v \div 2^(j - b)) % 2 = 1}
Minus(v, s, i, j) == (IF v < 0 THEN {s} ELSE {}) \cup Field(IF v < 0 THEN v + 2^(j - i + 1) ELSE v, i, j)

Sum(points) == IF \E p \in points : p[2] = -1000 THEN 0 ELSE MapThenSumSet(LAMBDA p : p[2], points)
Sunk == -1000
\* A field that has a status bit: its score, or a point for being clear, or the end.
Judged(part, status, value, good, score) ==
  <<part, CASE status /\ good -> score [] ~ status /\ value = 0 -> 1 [] OTHER -> Sunk>>
Minor(part, cond, loss) == <<part, IF cond THEN -loss ELSE 0>>

-----------------------------------------------------------------------------
(* The scores *)

Empty == IF block = {} THEN 56 ELSE 0

Bds10 == IF Value(1, 8) = 16 /\ Zero(10, 14) THEN 56 ELSE 0

\* The capability report: combinations that are seen in practice.
Bds17 ==
  IF ~ Zero(25, 56) THEN 0
  ELSE (IF Bit(7) THEN 1 ELSE -2)
       - 2 * Cardinality({b \in {10, 11, 12, 13, 14, 20, 21, 22} : Bit(b)})
       + (CASE Value(1, 5) = 31            -> IF Bit(6) THEN 6 ELSE 5
            [] Value(1, 5) = 0 /\ ~ Bit(6) -> 1
            [] OTHER                       -> -12)
       + (CASE Bit(16) /\ Bit(24)          -> IF Bit(9) THEN 3 ELSE 2
            [] ~ Bit(16) /\ ~ Bit(24) /\ ~ Bit(9) -> 1
            [] OTHER                       -> -6)

\* decode_callsign(): a code without a letter is a hole.
Letter(c) == c \in 0 .. 26 \cup {32} \cup 48 .. 57
Bds20 == IF Value(1, 8) = 32 /\ \A k \in 1 .. 8 : Letter(Value(3 + 6 * k, 8 + 6 * k)) THEN 56 ELSE 0

\* acas_ra_plausible(), also for the air-to-air reply and the broadcast.
AcasPlausible(df, tc28) ==
  /\ tc28 \/ Value(1, 8) = 48
  /\ Bit(9) \/ Bit(27) \/ Bit(28)
  /\ ~ (Bit(23) /\ Bit(24)) /\ ~ (Bit(25) /\ Bit(26))
  /\ IF df = 16 THEN Zero(29, 56)
     ELSE /\ ~ Bit(25) /\ ~ Bit(26)
          /\ CASE Value(29, 30) = 0 -> Zero(31, 56)
               [] Value(29, 30) = 1 -> Zero(55, 56) /\ HeardLately({b - 30 : b \in block \cap 31 .. 54})
               [] Value(29, 30) = 2 -> tc28
               [] OTHER            -> FALSE
Bds30 == IF AcasPlausible(20, FALSE) THEN 56 ELSE 0

\* Selected altitudes, the barometric setting, the modes and the altitude source.
Uneven(alt) == (alt * 16) % 500 \in 16 .. 484
Bds40 ==
  LET mcp == Value(2, 13) fms == Value(15, 26) qnh == Value(28, 39)
      altitude(part, status, v) ==
        Judged(part, status, v, v # 0 /\ v * 16 \in 1000 .. 50000, 13)
  IN  IF ~ (Bit(1) \/ Bit(14) \/ Bit(27) \/ Bit(48) \/ Bit(54)) \/ ~ Zero(40, 47) \/ ~ Zero(52, 53) THEN 0
      ELSE Sum({altitude("mcp", Bit(1), mcp), altitude("fms", Bit(14), fms),
                Judged("qnh", Bit(27), qnh, qnh \in 1000 .. 3000, 13),
                Judged("mode", Bit(48), Value(49, 51), TRUE, 4),
                Judged("source", Bit(54), Value(55, 56), TRUE, 3),
                Minor("differ", Bit(1) /\ Bit(14) /\ mcp # fms, 4),
                Minor("mcp500", Bit(1) /\ Uneven(mcp), 4),
                Minor("fms500", Bit(14) /\ Uneven(fms), 4)})

\* Track and turn.
Bds50 ==
  LET roll == Signed(2, 3, 11)
      gs == 2 * Value(25, 34) rate == Signed(36, 37, 45) tas == 2 * Value(47, 56)
  IN  IF \/ ~ (Bit(1) /\ Bit(12) /\ Bit(24) /\ Bit(46))
         \/ roll * 45 \notin -40 * 256 .. 40 * 256 - 1
         \/ gs \notin 50 .. 700 \/ tas \notin 50 .. 700
        THEN 0
      ELSE Sum({<<"has", 45>>,
                Judged("rate", Bit(35), Value(36, 45), rate \in -320 .. 320, 11),
                Minor("turn", Bit(35) /\ ~ Coordinated(roll, tas, rate), 6)})

\* Heading and speed.  Of the ends of Mach 0.1 to 0.9 the float of the second is
\* just too large.
Rate(part, status, value, v) == Judged(part, status, value, v \in -187 .. 187, 11)
Inertial_Lenient(v) == <<"inertial", IF Bit(46) /\ v \in -187 .. 187 THEN 11 ELSE 1>>
Inertial(v)         == Rate("inertial", Bit(46), Value(47, 56), v)
Bds60 ==
  LET ias == Value(14, 23) mach == Value(25, 34)
      baro == Signed(36, 37, 45) inertial == Signed(47, 48, 56)
  IN  IF \/ ~ (Bit(1) /\ Bit(13) /\ Bit(24) /\ (Bit(35) \/ Bit(46)))
         \/ ias \notin 50 .. 700 \/ mach \notin 25 .. 224
        THEN 0
      ELSE Sum({<<"has", 34>>,
                Rate("baro", Bit(35), Value(36, 45), baro),
                Inertial(inertial),
                Minor("agree", Bit(35) /\ Bit(46) /\ 32 * baro - 32 * inertial \notin -2000 .. 2000, 12)})

\* decode_commb(): the highest score, if no other register has it too.
Scores == [r \in {"empty", "10", "17", "20", "30", "40", "50", "60"} |->
             CASE r = "empty" -> Empty [] r = "10" -> Bds10 [] r = "17" -> Bds17 [] r = "20" -> Bds20
               [] r = "30" -> Bds30 [] r = "40" -> Bds40 [] r = "50" -> Bds50 [] OTHER -> Bds60]

Winners(best, scores)       == {r \in DOMAIN scores : scores[r] = best}

Found == LET scores == Scores
             best   == Max({scores[r] : r \in DOMAIN scores})
         IN  IF best > 0 /\ Cardinality(Winners(best, scores)) = 1
               THEN CHOOSE r \in Winners(best, scores) : TRUE ELSE "none"

-----------------------------------------------------------------------------
(* What aircraft send *)

Nobody    == [reg |-> "none", usual |-> FALSE]
CommBInit == sent = Nobody /\ block = {}

Sends(reg, usual, bits) == sent' = [reg |-> reg, usual |-> usual] /\ block' = bits
Forgotten == sent # Nobody /\ sent' = Nobody /\ block' = {}
On(v, b) == IF v = 0 THEN {} ELSE {b}

SendNothing == Sends("empty", TRUE, {})
SendLink(bits)  == Sends("10", TRUE, {4} \cup bits)
\* All of the squitter registers or none; a track report comes with a speed one.
SendCapabilities(es, speed) ==
  Sends("17", TRUE, {7} \cup (IF es THEN 1 .. 6 ELSE {}) \cup (IF speed THEN {9, 16, 24} ELSE {}))
SendCall(cs) == Sends("20", TRUE, {3} \cup UNION {Field(cs[k], 3 + 6 * k, 8 + 6 * k) : k \in 1 .. 8})
SendAdvisory(ra) == Sends("30", TRUE, {3, 4} \cup ra)

SendSelected(mcp, fms, qnh, mode) ==
  /\ mcp + fms + qnh + mode > 0
  /\ Sends("40", mode # 0,
           On(mcp, 1) \cup Field(mcp, 2, 13) \cup On(fms, 14) \cup Field(fms, 15, 26)
             \cup On(qnh, 27) \cup Field(qnh, 28, 39) \cup On(mode, 48) \cup Field(mode, 49, 51))

SendTrack(roll, track, gs, rate, has, tas) ==
  Sends("50", has => Coordinated(roll, tas, rate),
        {1, 12, 24, 46} \cup Minus(roll, 2, 3, 11) \cup Field(track, 13, 23) \cup Field(gs \div 2, 25, 34)
          \cup (IF has THEN {35} \cup Minus(rate, 36, 37, 45) ELSE {}) \cup Field(tas \div 2, 47, 56))

SendHeading(hdg, ias, mach, baro, inertial, has) ==
  Sends("60", has = {"baro", "inertial"} => 32 * baro - 32 * inertial \in -2000 .. 2000,
        {1, 13, 24} \cup Field(hdg, 2, 12) \cup Field(ias, 14, 23) \cup Field(mach, 25, 34)
          \cup (IF "baro" \in has THEN {35} \cup Minus(baro, 36, 37, 45) ELSE {})
          \cup (IF "inertial" \in has THEN {46} \cup Minus(inertial, 47, 48, 56) ELSE {}))

CommBNext ==
  \/ Forgotten
  \/ /\ sent = Nobody
     /\ \/ SendNothing
        \/ \E bits \in {{}, {15, 16, 17, 23, 33}, {9, 25, 56}} : SendLink(bits)
        \/ \E es, speed \in BOOLEAN : SendCapabilities(es, speed)
        \/ \E cs \in Calls : SendCall(cs)
        \/ \E ra \in Advisories : SendAdvisory(ra)
        \/ \E mcp, fms \in Selected, qnh \in Settings, mode \in 0 .. 7 : SendSelected(mcp, fms, qnh, mode)
        \/ \E roll \in Rolls, track \in {0, 1023, 1024 + 341}, gs, tas \in Speeds, rate \in Rates, has \in BOOLEAN :
             SendTrack(roll, track, gs, rate, has, tas)
        \/ \E hdg \in {0, 1365, 2047}, ias \in Speeds, mach \in Machs, baro, inertial \in Climbs,
              has \in {{"baro"}, {"inertial"}, {"baro", "inertial"}} :
             SendHeading(hdg, ias, mach, baro, inertial, has)

-----------------------------------------------------------------------------
(* Properties *)

\* What an aircraft sends is never taken for another register: its bits may give
\* a second one as much, and then nothing is read, but never more.  This needs
\* a turn that fits its roll, vertical rates that agree, and selected altitudes
\* that come with a mode.
NeverAnother == sent.usual => Found \in {sent.reg, "none"}
=============================================================================
