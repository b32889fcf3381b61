------------------------------- MODULE Tuner -------------------------------
(***************************************************************************)
(* The dongle from the port to a tuned receiver: rtlsdr_setup_task() and   *)
(* the `sdr` command of src/main/class_driver.c, src/main/librtlsdr.c and  *)
(* src/main/tuner_r82xx.c.  A register is written in one transfer, which   *)
(* may fail; the driver keeps a copy of every register of the tuner, and a *)
(* masked write sends what the copy has of the other fields.  One          *)
(* operation is one action; Fuse says at which of its transfers it fails.  *)
(* Frequencies are in kHz.                                                 *)
(***************************************************************************)
EXTENDS Integers, Sequences, SequencesExt

CONSTANTS
  Sticks,              \* dongles: the chip of the tuner ("none": no R82xx), and its true reference
  Freqs,               \* what `sdr freq` asks for
  Gains,               \* what `sdr gain` asks for
  Fuse                 \* bound: the transfer of an operation that fails, 0 for none

ASSUME TunerAssumption ==
  /\ Sticks \subseteq [chip : {"R820T", "R828D", "none"}, ref : {16000, 28800}]
  /\ Freqs \subseteq Nat \ {0} /\ Gains \subseteq Nat \ {0} /\ Fuse \subseteq Nat /\ 0 \in Fuse

VARIABLES
  stage,               \* where rtlsdr_setup_task is
  s_gain_manual,
  sdr                  \* the stick in the port and the driver's view of it, see Fresh

tunerVars == <<stage, s_gain_manual, sdr>>

\* The fields of the tuner's registers that the operations below differ in; the
\* other writes only succeed or fail.
Fields(reg) ==
  CASE reg = 5  -> {"input", "lna_auto", "lna"}
    [] reg = 7  -> {"mix_auto", "mix"}
    [] reg = 10 -> {"filter"}
    [] reg = 11 -> {"corner"}
    [] reg = 12 -> {"vga"}
    [] reg = 15 -> {"clock"}
    [] reg = 16 -> {"div"}
    [] reg = 20 -> {"nint"}
    [] reg = 21 -> {"sdm_lo"}
    [] reg = 22 -> {"sdm_hi"}
    [] OTHER    -> {}

\* r82xx_init_array
Initial ==
  [input |-> 0, lna_auto |-> TRUE, lna |-> 3, mix_auto |-> TRUE, mix |-> 5, filter |-> 22, corner |-> 108, vga |-> 245,
   clock |-> FALSE, div |-> 3, nint |-> 15, sdm_lo |-> 0, sdm_hi |-> 192]

\* What is in them when the dongle gets its power, and in the copy.
Off ==
  [input |-> 0, lna_auto |-> FALSE, lna |-> 0, mix_auto |-> FALSE, mix |-> 0, filter |-> 0, corner |-> 0, vga |-> 0,
   clock |-> FALSE, div |-> 0, nint |-> 0, sdm_lo |-> 0, sdm_hi |-> 0]

\* A device that was just opened.  fuse counts down to the transfer that fails,
\* rc is what the running function returns, trouble remembers any failure.
Garbled == 0 - 1
Fresh(s, fuse, weak) ==
  [stick |-> s, type |-> "none", direct |-> FALSE, freq |-> 0, gain |-> 0, i2c_repeater_on |-> FALSE,
   xtal |-> 28800, int_freq |-> 0, tuned_if |-> 0, has_lock |-> FALSE, input |-> 0,
   shadow |-> Off, regs |-> Off, repeater |-> FALSE, if_freq |-> 0,
   ok |-> TRUE, fuse |-> fuse, weak |-> weak, trouble |-> weak]

NoStick == [chip |-> "none", ref |-> 28800]
TunerInit ==
  /\ stage = "none"
  /\ s_gain_manual = FALSE /\ sdr = Fresh(NoStick, 0, FALSE)

-----------------------------------------------------------------------------
(* Transfers *)

Burn(d) == [d EXCEPT !.fuse = IF @ > 0 THEN @ - 1 ELSE 0, !.trouble = @ \/ d.fuse = 1]
Blown(d) == d.fuse = 1

\* r82xx_write(): the copy is changed first, whatever comes of the transfer.
Block(regs)  == [regs |-> regs, set |-> <<>>]
Wr(reg, set) == [regs |-> {reg}, set |-> set]
Poll         == Block({})
Write(d, w) ==
  IF ~ d.ok THEN d
  ELSE LET copy == [f \in DOMAIN d.shadow |-> IF f \in DOMAIN w.set THEN w.set[f] ELSE d.shadow[f]]
           fails == Blown(d) \/ ~ d.repeater
       IN  [Burn(d) EXCEPT !.shadow = copy, !.ok = ~ fails, !.trouble = @ \/ fails,
              !.regs = IF fails THEN @ ELSE [f \in DOMAIN @ |-> IF f \in UNION {Fields(r) : r \in w.regs} THEN copy[f] ELSE @[f]]]

Writes(d, ws) == FoldLeft(Write, d, ws)
Blank(n)      == [i \in 1 .. n |-> Poll]

\* rtlsdr_demod_write_reg() of n registers that nothing below depends on.
Demod(d, n) ==
  LET fails == d.fuse \in 1 .. n
  IN  [d EXCEPT !.fuse = IF @ > n THEN @ - n ELSE 0, !.ok = @ /\ ~ fails, !.trouble = @ \/ fails]

Repeater(d, on) ==
  IF on = d.i2c_repeater_on THEN d
  ELSE [Burn(d) EXCEPT !.i2c_repeater_on = on, !.repeater = IF Blown(d) THEN @ ELSE on]

\* The intermediate frequency is in three registers, all of which are written.
SetIf(d, f) ==
  LET e == Demod([d EXCEPT !.ok = TRUE], 3)
  IN  [e EXCEPT !.if_freq = IF e.ok THEN f ELSE Garbled]

-----------------------------------------------------------------------------
(* The tuner's phase locked loop *)

VcoMin == 1770000
InBand(vco) == VcoMin <= vco /\ vco < 2 * VcoMin

\* The first divider that brings the oscillator into its range, 128 if none.
Divider(lo) == IF \E k \in 1 .. 6 : InBand(lo * 2^k) THEN 2^(CHOOSE k \in 1 .. 6 : InBand(lo * 2^k)) ELSE 128
DivNum(mix) == IF mix = 128 THEN 0 ELSE CHOOSE n \in 0 .. 5 : mix = 2^(n + 1)

\* The fraction in 16 bits, by halving; n_sdm never gets past 2^15.
Halve(s, k, ref) ==
  LET part == (2 * ref) \div 2^k
  IN  IF s.fra > 1 /\ s.fra > part THEN [fra |-> s.fra - part, sdm |-> s.sdm + 32768 \div 2^(k - 1)] ELSE s
Sdm(fra, ref) ==
  FoldLeft(LAMBDA s, k : Halve(s, k, ref), [fra |-> fra, sdm |-> 0], [k \in 1 .. 15 |-> k]).sdm % 65536

\* nint is kept in 8 bits and written as 4 * ni + si + 13, quotients towards 0.
Nint(lo, ref) == ((lo * Divider(lo)) \div (2 * ref)) % 256
Packed(nint) ==
  LET ni == IF nint >= 13 THEN (nint - 13) \div 4 ELSE 256 - (13 - nint) \div 4
      si == (nint - 4 * ni - 13) % 4
  IN  4 * (ni % 64) + (((ni \div 64) + si) % 4) + 13

\* What the oscillator makes of the registers with a reference.
Vco(regs, ref) == 2 * ref * regs.nint + ((ref \div 8) * (256 * regs.sdm_hi + regs.sdm_lo)) \div 4096
Lo(regs, ref)  == Vco(regs, ref) \div 2^(regs.div + 1)

\* It locks if that is in its range, though it may fail to.
Locks(d) == ~ d.weak /\ InBand(Vco(d.regs, d.stick.ref))

\* With more current if it does not lock at once, and finer steps once it does.
Nudged(d)  == IF Locks(d) THEN d ELSE Writes(d, Blank(3))
Settled(d) == IF ~ d.ok THEN d
              ELSE Writes([d EXCEPT !.has_lock = Locks(d)], IF Locks(d) THEN Blank(1) ELSE <<>>)

\* r82xx_set_pll_ref()
SetPllRef(d, lo, ref) ==
  LET nint   == Nint(lo, ref)
      sdm    == Sdm(lo * Divider(lo) - 2 * ref * nint, ref)
      before == Writes(d, Blank(5) \o <<Wr(16, [div |-> DivNum(Divider(lo))])>>)
      valid  == nint <= IF d.type = "R828D" THEN 127 ELSE 63
      set    == Writes([before EXCEPT !.ok = @ /\ valid],
                  <<Wr(20, [nint |-> Packed(nint)]), Poll,
                    Wr(22, [sdm_hi |-> sdm \div 256]), Wr(21, [sdm_lo |-> sdm % 256])>> \o Blank(2))
  IN  Settled(Nudged(set))

\* r82xx_set_pll(): an R828D that does not lock gets the other reference.
Other(ref)         == IF ref = 16000 THEN 28800 ELSE 16000
Adopted(d)         == [d EXCEPT !.xtal = IF d.ok /\ d.has_lock THEN Other(@) ELSE @]
ByOtherRef(d, lo)  == IF d.type = "R828D" /\ d.ok /\ ~ d.has_lock
                        THEN Adopted(SetPllRef(d, lo, Other(d.xtal))) ELSE d
SetPll(d, lo)      == ByOtherRef(SetPllRef(d, lo, d.xtal), lo)

-----------------------------------------------------------------------------
(* Frequency, bandwidth and gain *)

\* r82xx_set_freq(): the R828D has an antenna input for each side of 345 MHz.
Input(f) == IF f > 345000 THEN 0 ELSE 96
SetMux(d) == Writes([d EXCEPT !.ok = TRUE], Blank(6))
SetInput(d, f) ==
  IF ~ d.ok \/ ~ d.has_lock \/ d.type # "R828D" \/ d.input = Input(f) THEN d
  ELSE Writes([d EXCEPT !.input = Input(f)], <<Wr(5, [input |-> Input(f)])>>)
SetFreq(d, f) == SetInput(SetPll(SetMux(d), f + d.int_freq), f)

\* rtlsdr_set_center_freq()
Shown_Anyway(d, f) == [d EXCEPT !.freq = f, !.tuned_if = d.int_freq]
Shown(d, f) == [d EXCEPT !.freq = IF d.ok THEN f ELSE 0, !.tuned_if = d.int_freq]
SetCenter(d, f) ==
  Shown(IF d.direct THEN SetIf(d, f) ELSE Repeater(SetFreq(Repeater(d, TRUE), f), FALSE), f)

\* r82xx_set_bandwidth(): the filters for a bandwidth, and where it puts the
\* intermediate frequency.
LowPass == <<1700, 1600, 1550, 1450, 1200, 900, 700, 550, 450, 350>>
Narrow(bw) ==
  LET high  == IF bw > 2050 THEN 380 ELSE 0
      low   == IF bw - high > 1700 THEN 350 ELSE 0
      rest  == bw - high - low
      fits  == {i \in DOMAIN LowPass : rest > LowPass[i]}
      i     == IF fits = {} THEN Len(LowPass) ELSE (CHOOSE k \in fits : \A l \in fits : k <= l) - 1
      real  == high + low + LowPass[i]
  IN  [filter |-> 0, corner |-> 128 + (IF high = 0 THEN 32 ELSE 0) + (IF low = 0 THEN 64 ELSE 0) + 16 - i,
       int_freq |-> 2300 + high + low - real \div 2]
Band(bw) ==
  CASE bw > 7000 -> [filter |-> 16, corner |-> 11, int_freq |-> 4570]
    [] 6000 < bw /\ bw <= 7000 -> [filter |-> 16, corner |-> 42, int_freq |-> 4570]
    [] 2430 < bw /\ bw <= 6000 -> [filter |-> 16, corner |-> 107, int_freq |-> 3570]
    [] OTHER -> Narrow(bw)

\* r820t_set_bw(): the demodulator and the tuner follow, one after the other.
Retune_Not(d) == d
Retune(d)     == SetCenter(d, d.freq)
Follow(d)     == IF d.ok THEN Retune(d) ELSE d
SetFilter(d, b) ==
  Writes([d EXCEPT !.ok = TRUE, !.int_freq = b.int_freq],
         <<Wr(10, [filter |-> b.filter]), Wr(11, [corner |-> b.corner])>>)
MoveIf(d)     == IF d.ok THEN Follow(SetIf(d, d.int_freq)) ELSE d
SetBw(d, bw)  == MoveIf(SetFilter(d, Band(bw)))

\* rtlsdr_set_sample_rate(): what set_bw returns is ignored; the reset of the
\* demodulator goes through the register that has the repeater's bit.
SetSampleRate(d, rate) ==
  LET b == IF d.type = "none" THEN d ELSE Repeater(SetBw(Repeater(d, TRUE), rate), FALSE)
      e == Demod([b EXCEPT !.ok = TRUE], 4)
  IN  [Demod(e, 2) EXCEPT !.repeater = FALSE]

\* r82xx_set_gain()
SetGain(d, manual, gain) ==
  Writes([d EXCEPT !.ok = TRUE],
    IF manual
      THEN <<Wr(5, [lna_auto |-> FALSE]), Wr(7, [mix_auto |-> FALSE]), Poll, Poll, Wr(12, [vga |-> 8]),
             Wr(5, [lna |-> gain]), Wr(7, [mix |-> gain])>>
      ELSE <<Wr(5, [lna_auto |-> TRUE]), Wr(7, [mix_auto |-> TRUE]), Wr(12, [vga |-> 11])>>)

GainByTuner(d, manual, gain) ==
  IF d.type = "none" THEN [d EXCEPT !.ok = TRUE]
    ELSE Repeater(SetGain(Repeater(d, TRUE), manual, gain), FALSE)

SetGainMode(d, manual) == GainByTuner(d, manual, 0)
SetTunerGain(d, gain) ==
  LET e == GainByTuner(d, TRUE, gain)
  IN  [e EXCEPT !.gain = IF e.ok THEN gain ELSE 0]

-----------------------------------------------------------------------------
(* Opening *)

\* r82xx_set_tv_standard(), with the calibration of the filter at 56 MHz, tried
\* twice if its result is no good; without a lock the rest is left out.
IfLocked(d, ws) == IF d.ok /\ d.has_lock THEN Writes(d, ws) ELSE d
Calibrate(d) ==
  IfLocked(SetPll(Writes(d, <<Poll, Wr(15, [clock |-> TRUE]), Poll>>), 56000),
           <<Poll, Poll, Wr(15, [clock |-> FALSE])>> \o Blank(2))
Recalibrate(d, twice) == IF twice /\ d.ok /\ d.has_lock THEN Calibrate(d) ELSE d
SetTvStandard(d, twice) ==
  LET start == Writes([d EXCEPT !.ok = TRUE, !.shadow = Initial], Blank(3))
  IN  IfLocked(Recalibrate(Calibrate([start EXCEPT !.int_freq = IF start.ok THEN 3570 ELSE @]), twice),
               <<Wr(10, [filter |-> 16]), Wr(11, [corner |-> 107])>> \o Blank(7))

\* r82xx_sysfreq_sel() for DVB-T: thresholds, and the antenna input of the air.
SysFreqSel(d) ==
  LET sel  == Writes(d, Blank(4))
      path == IF sel.ok THEN Writes([sel EXCEPT !.input = 0], <<Wr(5, [input |-> 0])>>) ELSE sel
  IN  Writes(path, Blank(12))

\* r82xx_init(): the registers in four messages, then each part whatever became
\* of the one before.
R82xxInit(d, twice) ==
  LET all  == Writes([d EXCEPT !.ok = TRUE, !.shadow = Initial],
                     <<Block(5 .. 11), Block(12 .. 18), Block(19 .. 25), Block(26 .. 31)>>)
      tv   == SetTvStandard(all, twice)
  IN  SysFreqSel([tv EXCEPT !.ok = TRUE, !.int_freq = 6000])

\* rtlsdr_init_baseband() goes on whatever fails; rtlsdr_open() looks for an
\* R820T, then for an R828D, and takes a failed reading for "not there".
Probe(d, chip) ==
  LET e == Writes([d EXCEPT !.ok = TRUE], Blank(2))
  IN  IF d.type # "none" THEN d
      ELSE [e EXCEPT !.type = IF e.ok /\ d.stick.chip = chip THEN chip ELSE @]
InitTuner(d, twice) ==
  IF d.type = "none" THEN SetCenter([Demod(d, 4) EXCEPT !.direct = TRUE], 0)
  ELSE R82xxInit(SetIf([d EXCEPT !.xtal = IF d.type = "R828D" THEN 16000 ELSE 28800], 3570), twice)
Open(s, fuse, weak, twice) ==
  LET base == Repeater(Demod(Fresh(s, fuse, weak), 1), TRUE)
  IN  Repeater(InitTuner(Probe(Probe(base, "R820T"), "R828D"), twice), FALSE)

-----------------------------------------------------------------------------
(* Actions *)

\* What an operation starts from and leaves.
Idle(d)          == [d EXCEPT !.fuse = 0, !.weak = FALSE]
With(fuse, weak) == [sdr EXCEPT !.fuse = fuse, !.weak = weak, !.trouble = @ \/ weak]

\* A dongle is pulled; the next has a device of its own.
Unplug == /\ stage = "ready" /\ stage' = "none"
          /\ sdr' = Fresh(NoStick, 0, FALSE) /\ UNCHANGED s_gain_manual
Plug ==
  /\ stage = "none"
  /\ stage' = "center"
  /\ \E s \in Sticks, fuse \in Fuse, weak, twice \in BOOLEAN : (fuse # 0 => ~ weak) /\ sdr' = Idle(Open(s, fuse, weak, twice))
  /\ UNCHANGED s_gain_manual

SetupCenter(fuse, weak) == /\ stage = "center" /\ stage' = "rate"
                           /\ sdr' = Idle(SetCenter(With(fuse, weak), 1090000))
                           /\ UNCHANGED s_gain_manual
SetupRate(fuse, weak) == /\ stage = "rate" /\ stage' = "gain"
                         /\ sdr' = Idle(SetSampleRate(With(fuse, weak), 2000))
                         /\ UNCHANGED s_gain_manual
SetupGain(fuse, weak) == /\ stage = "gain" /\ stage' = "ready"
                         /\ sdr' = Idle(SetGainMode(With(fuse, weak), FALSE))
                         /\ UNCHANGED s_gain_manual

\* cmd_sdr()
CmdFreq(fuse, weak, f) == /\ stage = "ready"
                          /\ sdr' = Idle(SetCenter(With(fuse, weak), f))
                          /\ UNCHANGED <<stage, s_gain_manual>>
CmdAuto(fuse, weak) == /\ stage = "ready"
                       /\ sdr' = Idle(SetGainMode(With(fuse, weak), FALSE))
                       /\ s_gain_manual' = (s_gain_manual /\ ~ sdr'.ok)
                       /\ UNCHANGED stage
CmdGain(fuse, weak, g) == /\ stage = "ready"
                          /\ sdr' = Idle(SetTunerGain(SetGainMode(With(fuse, weak), TRUE), g))
                          /\ s_gain_manual' = (s_gain_manual \/ sdr'.ok)
                          /\ UNCHANGED stage

\* Bound: one failure for each time a dongle is plugged in.
Lucky(fuse, weak) == (fuse = 0 \/ ~ weak) /\ (sdr.trouble => fuse = 0 /\ ~ weak)

TunerNext ==
  \/ Unplug \/ Plug
  \/ \E fuse \in Fuse, weak \in BOOLEAN :
     /\ Lucky(fuse, weak)
     /\ \/ SetupCenter(fuse, weak) \/ SetupRate(fuse, weak) \/ SetupGain(fuse, weak)
        \/ \E f \in Freqs : CmdFreq(fuse, weak, f)
        \/ CmdAuto(fuse, weak)
        \/ \E g \in Gains : CmdGain(fuse, weak, g)

TunerSpec == TunerInit /\ [][TunerNext]_tunerVars

-----------------------------------------------------------------------------
(* Properties *)

Gap(a, b) == IF a > b THEN a - b ELSE b - a
Tunable(f) == \E k \in 1 .. 6 : InBand(f * 2^k)
Tuned == sdr.type # "none" /\ sdr.freq # 0 /\ sdr.has_lock /\ Tunable(sdr.freq + sdr.tuned_if)

\* The frequency that `sdr` shows as locked is the one whose registers the tuner
\* has, by the reference that the driver takes it for, whichever transfers failed
\* before: a failed one leaves no frequency (tuner_r82xx.c:600-700,
\* librtlsdr.c:1387-1415).  That is so of frequencies in the range of the tuner.
ShownIsSet == Tuned => Gap(Lo(sdr.regs, sdr.xtal), sdr.freq + sdr.tuned_if) <= 4

\* Once set up without a failure, a stick receives what it shows, whatever its
\* reference was taken for at first: the oscillator, by the reference that it
\* really has, is above the frequency by what the demodulator was told, the
\* antenna is the one for the band, the filters are set, and the way to the
\* tuner is closed (tuner_r82xx.c:600-700, librtlsdr.c:1387-1530).  After a
\* frequency out of the tuner's range an R828D may keep the wrong reference.
ReceivesShown ==
  stage \in {"gain", "ready"} /\ sdr.stick.chip # "none" /\ ~ sdr.trouble =>
    /\ sdr.freq # 0 /\ ~ sdr.repeater /\ sdr.shadow = sdr.regs /\ ~ sdr.regs.clock
    /\ Tuned => /\ Gap(Lo(sdr.regs, sdr.stick.ref) - sdr.if_freq, sdr.freq) <= 4
                /\ sdr.regs.input = IF sdr.stick.chip = "R828D" THEN Input(sdr.freq) ELSE 0
=============================================================================
