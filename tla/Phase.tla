------------------------------- MODULE Phase --------------------------------
(***************************************************************************)
(* How src/main/mode-s.c slices samples into bits and what its correction  *)
(* for frames that are out of phase does to them.  A bit is two samples of *)
(* 16 bits, one if the first is the larger.                                *)
(***************************************************************************)
EXTENDS Integers, Sequences

CONSTANTS
  FrameBits,                \* bits of a frame
  Levels,              \* magnitudes that are received
  Margin                \* how many times larger the larger sample of a clear bit is

ASSUME PhaseAssumption == FrameBits \in Nat \ {0} /\ Levels \subseteq 0 .. 2^16 - 1 /\ Margin \in Nat

VARIABLE samples       \* one pair for each bit

Pairs == Levels \X Levels

PhaseInit == samples = <<>>

Sample == /\ Len(samples) < FrameBits
          /\ \E s \in Pairs : samples' = Append(samples, s)

PhaseNext == Sample \/ (Len(samples) = FrameBits /\ samples' = <<>>)
PhaseSpec == PhaseInit /\ [][PhaseNext]_samples

\* The factors of apply_phase_correction(), the result cut to 16 bits.
Amplify(m)      == ((m * 5) \div 4) % 2^16
Weaken_Away(m)  == (m * 1) \div 5
Weaken(m)       == (m * 4) \div 5

\* The first sample of each bit after the correction, which looks at the bit
\* before as it was corrected.
Firsts ==
  LET f[i \in DOMAIN samples] ==
        IF i = 1 THEN samples[1][1]
        ELSE IF f[i - 1] > samples[i - 1][2] THEN Amplify(samples[i][1]) ELSE Weaken(samples[i][1])
  IN  f

\* The bit of two samples; nearly equal ones repeat the bit before.
Gap(a, b) == IF a > b THEN a - b ELSE b - a
Slice(firsts) ==
  LET bit[i \in DOMAIN samples] ==
        IF i > 1 /\ Gap(firsts[i], samples[i][2]) < 256 THEN bit[i - 1]
        ELSE IF firsts[i] = samples[i][2] THEN 2
        ELSE IF firsts[i] > samples[i][2] THEN 1 ELSE 0
  IN  bit

ClearBit(s) == \/ s[1] >= Margin * s[2] /\ s[1] - s[2] >= 1024
               \/ s[2] >= Margin * s[1] /\ s[2] - s[1] >= 1024

-----------------------------------------------------------------------------
(* Properties *)

\* A frame all of whose bits are clear says the same after the correction as
\* before it, whatever its bits are.
ClearFrameSurvives ==
  (\A i \in DOMAIN samples : ClearBit(samples[i]))
    => Slice(Firsts) = Slice([i \in DOMAIN samples |-> samples[i][1]])

\* "If the previous bit was one, we amplify it a bit" (mode-s.c:1237): after a
\* one the correction never makes a sample smaller.
AmplifiesAfterAOne ==
  \A i \in 2 .. Len(samples) :
    Firsts[i - 1] > samples[i - 1][2] => Firsts[i] >= samples[i][1]
=============================================================================
