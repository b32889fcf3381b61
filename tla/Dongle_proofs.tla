--------------------------- MODULE Dongle_proofs ---------------------------
(***************************************************************************)
(* Proofs about the dongle.                                                *)
(*                                                                         *)
(* CtrlTransfer: whatever the number of tasks and of their calls, and      *)
(* however late the device answers, a caller gets the reply to its own     *)
(* request, but for an abandoned transfer that completes in one identified *)
(* window.                                                                 *)
(*                                                                         *)
(* Tuner: whichever transfers of whichever operations fail, the frequency  *)
(* that is shown as locked is the one whose numbers the tuner has, to      *)
(* 4 kHz.  The driver's loops over bits and transfers are folds: a fold    *)
(* is taken for a function on 0 .. n, and what each step keeps, the fold   *)
(* keeps (`Induct').                                                       *)
(***************************************************************************)
EXTENDS Dongle, WellFoundedInduction, TLAPS

-----------------------------------------------------------------------------
(* The shared transfer (CtrlTransfer).                                     *)

(* A task is past the mutex if and only if it holds it.                    *)
Holds == \A c \in Callers : mux = c <=> at[c] \in {"setup", "submit", "wait", "check", "fail"}

(* A call that is under way has a number.                                  *)
Begun == \A c \in Callers : at[c] # "idle" => calls[c] # 0

(* What is under way is the request of the call that waits for it, and     *)
(* what has come in is its reply.                                          *)
Mine(c) ==
  /\ at[c] = "submit" => ~done /\ packet = Current(c)
  /\ at[c] = "wait" /\ ~done =>
       /\ xfer # "idle" /\ packet = Current(c)
       /\ xfer \in {"asked", "retired"} => asked = Current(c)
  /\ at[c] = "wait" /\ done => xfer = "idle" /\ (success => response = Current(c))
  /\ at[c] = "check" => xfer = "idle" /\ response = Current(c)

(* Holds for every call that was not overrun by an abandoned transfer.     *)
CtrlInv == TypeOK /\ Holds /\ Begun /\ \A c \in Callers : ~overrun[c] => Mine(c)

(* At boot no call is under way.                                           *)
LEMMA InitInv == Init => CtrlInv
<1> SUFFICES ASSUME Init PROVE CtrlInv  OBVIOUS
<1>1. 0 \in 0 .. MaxCalls  BY CtrlAssumption
<1>2. TypeOK  BY <1>1 DEF Init, TypeOK, Places
<1>3. Holds  BY CtrlAssumption DEF Init, Holds
<1>4. \A c \in Callers : Mine(c)  BY DEF Init, Mine
<1>5. Begun  BY DEF Init, Begun
<1>6. QED  BY <1>2, <1>3, <1>4, <1>5 DEF CtrlInv

(* A call's number is in range from its beginning.                         *)
LEMMA CurrentTyped ==
  ASSUME TypeOK, NEW c \in Callers, calls[c] # 0
  PROVE  Current(c) \in Request
<1>1. calls[c] \in 1 .. MaxCalls  BY CtrlAssumption DEF TypeOK
<1>2. QED  BY <1>1 DEF Current, Request

(* Every step keeps the types.                                             *)
LEMMA TypeStep == CtrlInv /\ [Next]_vars => TypeOK'
<1> SUFFICES ASSUME CtrlInv, [Next]_vars PROVE TypeOK'  OBVIOUS
<1> USE DEF CtrlInv, TypeOK, Places, devVars, cbVars
<1>1. CASE DeviceAsked  BY <1>1 DEF DeviceAsked, callVars
<1>2. CASE DeviceAnswers  BY <1>2 DEF DeviceAnswers, callVars
<1>3. CASE Callback  BY <1>3 DEF Callback, callVars
<1>4. ASSUME NEW c \in Callers, Call(c) PROVE TypeOK'
  <2>1. calls[c] + 1 \in 0 .. MaxCalls  BY <1>4, CtrlAssumption DEF Call
  <2>2. QED  BY <1>4, <2>1 DEF Call
<1>5. ASSUME NEW c \in Callers, TakeMux(c) \/ MuxBusy(c) PROVE TypeOK'
  BY <1>5 DEF TakeMux, MuxBusy
<1>6. ASSUME NEW c \in Callers, Setup(c) PROVE TypeOK'
  <2>1. Current(c) \in Request  BY <1>6, CurrentTyped DEF Begun, Setup
  <2>2. QED  BY <1>6, <2>1 DEF Setup
<1>7. ASSUME NEW c \in Callers, Submit(c) PROVE TypeOK'  BY <1>7 DEF Submit
<1>8. ASSUME NEW c \in Callers, Timeout(c) \/ Wake(c) PROVE TypeOK'  BY <1>8 DEF Timeout, Wake
<1>9. ASSUME NEW c \in Callers, Return(c) \/ Fail(c) PROVE TypeOK'  BY <1>9 DEF Return, Fail
<1>10. CASE UNCHANGED vars  BY <1>10 DEF vars, callVars
<1>11. QED
  BY <1>1, <1>2, <1>3, <1>4, <1>5, <1>6, <1>7, <1>8, <1>9, <1>10 DEF Next, Device, Caller

(* Every step leaves the mutex with the task that is past it.              *)
LEMMA HoldsStep == CtrlInv /\ [Next]_vars => Holds'
<1> SUFFICES ASSUME CtrlInv, [Next]_vars PROVE Holds'  OBVIOUS
<1> USE CtrlAssumption DEF CtrlInv, TypeOK, Holds
<1>1. CASE Device  BY <1>1 DEF Device, DeviceAsked, DeviceAnswers, Callback, callVars
<1>2. ASSUME NEW c \in Callers, Caller(c) PROVE Holds'
  <2>1. CASE Call(c) \/ TakeMux(c) \/ MuxBusy(c)  BY <2>1 DEF Call, TakeMux, MuxBusy
  <2>2. CASE Setup(c) \/ Submit(c)  BY <2>2 DEF Setup, Submit
  <2>3. CASE Timeout(c) \/ Wake(c)  BY <2>3 DEF Timeout, Wake
  <2>4. CASE Return(c) \/ Fail(c)  BY <2>4 DEF Return, Fail
  <2>5. QED  BY <1>2, <2>1, <2>2, <2>3, <2>4 DEF Caller
<1>3. CASE UNCHANGED vars  BY <1>3 DEF vars, callVars
<1>4. QED  BY <1>1, <1>2, <1>3 DEF Next

(* A call gets its number when it begins.                                  *)
LEMMA BegunStep == CtrlInv /\ [Next]_vars => Begun'
<1> SUFFICES ASSUME CtrlInv, [Next]_vars, NEW d \in Callers, at'[d] # "idle" PROVE calls'[d] # 0
  BY DEF Begun
<1> USE DEF CtrlInv, TypeOK, Begun
<1>1. CASE Device  BY <1>1 DEF Device, DeviceAsked, DeviceAnswers, Callback, callVars
<1>2. ASSUME NEW c \in Callers, Call(c) PROVE calls'[d] # 0
  <2>1. calls[c] + 1 # 0 /\ calls' = [calls EXCEPT ![c] = calls[c] + 1]  BY <1>2, CtrlAssumption DEF Call
  <2>2. CASE c = d  BY <2>1, <2>2
  <2>3. CASE c # d  BY <1>2, <2>1, <2>3 DEF Call
  <2>4. QED  BY <2>2, <2>3
<1>3. ASSUME NEW c \in Callers, TakeMux(c) \/ MuxBusy(c) \/ Setup(c) \/ Submit(c) PROVE calls'[d] # 0
  BY <1>3 DEF TakeMux, MuxBusy, Setup, Submit
<1>4. ASSUME NEW c \in Callers, Timeout(c) \/ Wake(c) \/ Return(c) \/ Fail(c) PROVE calls'[d] # 0
  BY <1>4 DEF Timeout, Wake, Return, Fail
<1>5. CASE UNCHANGED vars  BY <1>5 DEF vars, callVars
<1>6. QED  BY <1>1, <1>2, <1>3, <1>4, <1>5 DEF Next, Caller

(* One task's step does not disturb what another waits for: only who holds *)
(* the mutex touches the transfer.                                         *)
LEMMA MineStep == CtrlInv /\ [Next]_vars => \A d \in Callers : ~overrun'[d] => Mine(d)'
<1> SUFFICES ASSUME CtrlInv, [Next]_vars, NEW d \in Callers, ~overrun'[d] PROVE Mine(d)'
  OBVIOUS
<1> USE CtrlAssumption DEF CtrlInv, TypeOK, Holds, Mine, Current
<1>1. CASE DeviceAsked  BY <1>1 DEF DeviceAsked, cbVars, callVars
<1>2. CASE DeviceAnswers  BY <1>2 DEF DeviceAnswers, cbVars, callVars
<1>3. CASE Callback  BY <1>3 DEF Callback
<1>4. ASSUME NEW c \in Callers, Call(c) PROVE Mine(d)'  BY <1>4 DEF Call, devVars, cbVars
<1>5. ASSUME NEW c \in Callers, TakeMux(c) \/ MuxBusy(c) PROVE Mine(d)'
  BY <1>5 DEF TakeMux, MuxBusy, devVars, cbVars
<1>6. ASSUME NEW c \in Callers, Setup(c) PROVE Mine(d)'  BY <1>6 DEF Setup
<1>7. ASSUME NEW c \in Callers, Submit(c) PROVE Mine(d)'  BY <1>7 DEF Submit, cbVars
<1>8. ASSUME NEW c \in Callers, Timeout(c) PROVE Mine(d)'  BY <1>8 DEF Timeout, devVars, cbVars
<1>9. ASSUME NEW c \in Callers, Wake(c) PROVE Mine(d)'  BY <1>9 DEF Wake, devVars
<1>10. ASSUME NEW c \in Callers, Return(c) \/ Fail(c) PROVE Mine(d)'
  BY <1>10 DEF Return, Fail, devVars, cbVars
<1>11. CASE UNCHANGED vars  BY <1>11 DEF vars, devVars, cbVars, callVars
<1>12. QED
  BY <1>1, <1>2, <1>3, <1>4, <1>5, <1>6, <1>7, <1>8, <1>9, <1>10, <1>11 DEF Next, Device, Caller

(* The inductive invariant, for any number of tasks and calls.             *)
THEOREM Invariant == Spec => []CtrlInv
<1>1. Init => CtrlInv  BY InitInv
<1>2. CtrlInv /\ [Next]_vars => CtrlInv'
  BY TypeStep, HoldsStep, BegunStep, MineStep DEF CtrlInv
<1>3. QED  BY <1>1, <1>2, PTL DEF Spec

(* Every variable keeps its type.                                          *)
THEOREM TypeCorrect == Spec => []TypeOK
<1>1. CtrlInv => TypeOK  BY DEF CtrlInv
<1>2. QED  BY <1>1, Invariant, PTL

(* What a caller copies out answers its own request, but for the window    *)
(* (esp_libusb.c:463-531).                                                 *)
THEOREM OwnReplies == Spec => []OwnReplyUnlessOverrun
<1>1. CtrlInv => OwnReplyUnlessOverrun  BY DEF CtrlInv, Mine, OwnReplyUnlessOverrun
<1>2. QED  BY <1>1, Invariant, PTL

-----------------------------------------------------------------------------
(* Induction.                                                              *)

(* A set of naturals has a least element.                                  *)
LEMMA LeastNat ==
  ASSUME NEW T, T \subseteq Nat, T # {}
  PROVE  \E n \in T : \A m \in T : n <= m
<1>1. \E n \in T : \A m \in T : ~ (<<m, n>> \in OpToRel(<, Nat))
  BY NatLessThanWellFounded, WFMin, Zenon
<1>2. PICK n \in T : \A m \in T : ~ (<<m, n>> \in OpToRel(<, Nat))
  BY <1>1, Zenon
<1>3. n \in Nat /\ \A m \in T : m \in Nat
  BY <1>2
<1>4. \A m \in T : ~(m < n)
  <2> SUFFICES ASSUME NEW m \in T, m < n PROVE FALSE
    OBVIOUS
  <2>1. <<m, n>> \in Nat \X Nat /\ <<m, n>>[1] = m /\ <<m, n>>[2] = n
    BY <1>3
  <2>2. <<m, n>>[1] < <<m, n>>[2]
    BY <2>1
  <2>3. <<m, n>> \in OpToRel(<, Nat)
    BY <2>1, <2>2, Zenon DEF OpToRel
  <2> QED BY <1>2, <2>3, Zenon
<1>5. \A m \in T : n <= m
  BY <1>3, <1>4
<1> QED BY <1>2, <1>5

(* What holds at first and goes from each to the next holds of all.        *)
LEMMA Induct ==
  ASSUME NEW n \in Nat, NEW T, 0 \in T, \A i \in 0 .. n : i # n /\ i \in T => i + 1 \in T
  PROVE  \A i \in 0 .. n : i \in T
<1> DEFINE B == {i \in 0 .. n : i \notin T}
<1> SUFFICES ASSUME B # {} PROVE FALSE
  OBVIOUS
<1>1. B \subseteq Nat
  OBVIOUS
<1>2. PICK b \in B : \A m \in B : b <= m
  <2> HIDE DEF B
  <2> QED BY <1>1, LeastNat
<1>3. b \in 0 .. n /\ b \notin T /\ b # 0
  BY <1>2
<1>4. b - 1 \in 0 .. n /\ b - 1 # n /\ b - 1 \notin B
  BY <1>2, <1>3
<1>5. b - 1 \in T
  BY <1>4
<1>6. (b - 1) + 1 \in T
  BY <1>4, <1>5
<1> QED BY <1>3, <1>6

-----------------------------------------------------------------------------
(* Folds.                                                                  *)

(* The greatest of a set that has m and nothing above.                     *)
LEMMA TopIsMax ==
  ASSUME NEW m \in Int, NEW s, s \subseteq Int, m \in s, \A y \in s : y <= m
  PROVE  Max(s) = m
<1>1. \E y \in s : \A z \in s : y >= z
  OBVIOUS
<1>2. Max(s) \in s /\ \A z \in s : Max(s) >= z
  BY <1>1 DEF Max
<1>3. Max(s) <= m /\ Max(s) >= m /\ Max(s) \in Int
  BY <1>2
<1> QED BY <1>3

(* A fold from left to right exists, whatever the step is.                 *)
IsFold(g, d, n, G) ==
  /\ g[{}] = d
  /\ \A s \in SUBSET (1 .. n) : s # {} => Max(s) \in s /\ g[s] = G[<<g[s \ {Max(s)}], Max(s)>>]

(* For each step function there is such a fold.                            *)
LEMMA FoldExists ==
  ASSUME NEW S, NEW d \in S, NEW n \in Nat, NEW G, G \in [S \X (1 .. n) -> S]
  PROVE  \E g \in [SUBSET (1 .. n) -> S] : IsFold(g, d, n, G)
<1> DEFINE Upto(m, g) ==
      /\ g[{}] = d
      /\ \A s \in SUBSET (1 .. m) : s # {} => Max(s) \in s /\ g[s] = G[<<g[s \ {Max(s)}], Max(s)>>]
    T == {m \in 0 .. n : \E g \in [SUBSET (1 .. m) -> S] : Upto(m, g)}
<1>1. 0 \in T
  <2> DEFINE g0 == [s \in SUBSET (1 .. 0) |-> d]
  <2>1. g0 \in [SUBSET (1 .. 0) -> S] /\ g0[{}] = d
    OBVIOUS
  <2>2. \A s \in SUBSET (1 .. 0) : s = {}
    OBVIOUS
  <2>3. Upto(0, g0)
    BY <2>1, <2>2
  <2>4. 0 \in 0 .. n
    OBVIOUS
  <2> HIDE DEF Upto, g0
  <2> QED BY <2>1, <2>3, <2>4
<1>2. ASSUME NEW m \in 0 .. n, m # n, m \in T
      PROVE  m + 1 \in T
  <2>1. PICK g \in [SUBSET (1 .. m) -> S] : Upto(m, g)
    BY <1>2
  <2> DEFINE h == [s \in SUBSET (1 .. m + 1) |-> IF m + 1 \in s THEN G[<<g[s \ {m + 1}], m + 1>>] ELSE g[s]]
  <2>2. \A s \in SUBSET (1 .. m + 1) :
          /\ s \ {m + 1} \in SUBSET (1 .. m)
          /\ m + 1 \notin s => s \in SUBSET (1 .. m)
    OBVIOUS
  <2>3. m + 1 \in 1 .. n /\ m + 1 \in Nat
    BY <1>2
  <2>4. h \in [SUBSET (1 .. m + 1) -> S]
    <3> SUFFICES ASSUME NEW s \in SUBSET (1 .. m + 1) PROVE h[s] \in S
      OBVIOUS
    <3>1. CASE m + 1 \in s
      <4>1. g[s \ {m + 1}] \in S  BY <2>2
      <4>2. <<g[s \ {m + 1}], m + 1>> \in S \X (1 .. n)  BY <2>3, <4>1
      <4>3. h[s] = G[<<g[s \ {m + 1}], m + 1>>]  BY <3>1
      <4> QED BY <4>2, <4>3
    <3>2. CASE m + 1 \notin s
      BY <2>2, <3>2
    <3> QED BY <3>1, <3>2
  <2>5. \A s \in SUBSET (1 .. m) : s \in SUBSET (1 .. m + 1) /\ h[s] = g[s]
    OBVIOUS
  <2>6. Upto(m + 1, h)
    <3>1. h[{}] = d
      BY <2>1, <2>5
    <3> SUFFICES ASSUME NEW s \in SUBSET (1 .. m + 1), s # {}
                 PROVE  Max(s) \in s /\ h[s] = G[<<h[s \ {Max(s)}], Max(s)>>]
      BY <3>1
    <3>2. CASE m + 1 \in s
      <4>1. Max(s) = m + 1
        <5>1. s \subseteq Int /\ \A y \in s : y <= m + 1  OBVIOUS
        <5> QED BY <2>3, <3>2, <5>1, TopIsMax
      <4>2. h[s \ {m + 1}] = g[s \ {m + 1}]  BY <2>2, <2>5
      <4> QED BY <3>2, <4>1, <4>2
    <3>3. CASE m + 1 \notin s
      <4>1. s \in SUBSET (1 .. m)  BY <2>2, <3>3
      <4>2. Max(s) \in s /\ g[s] = G[<<g[s \ {Max(s)}], Max(s)>>]  BY <2>1, <4>1
      <4>3. s \ {Max(s)} \in SUBSET (1 .. m)  BY <4>1
      <4> QED BY <2>5, <4>1, <4>2, <4>3
    <3> QED BY <3>2, <3>3
  <2>7. m + 1 \in 0 .. n
    BY <1>2
  <2> HIDE DEF h, Upto
  <2> QED BY <2>4, <2>6, <2>7
<1>3. n \in T
  <2>1. \A i \in 0 .. n : i \in T
    <3> HIDE DEF T
    <3> QED BY <1>1, <1>2, Induct
  <2>2. n \in 0 .. n
    OBVIOUS
  <2> HIDE DEF T
  <2> QED BY <2>1, <2>2
<1> QED BY <1>3 DEF IsFold

(* It takes the last first.                                                *)
LEMMA UptoMax ==
  ASSUME NEW n \in Nat, NEW i \in 1 .. n
  PROVE  Max(1 .. i) = i /\ (1 .. i) \ {i} = 1 .. i - 1
<1>1. Max(1 .. i) = i
  <2>1. 1 .. i \subseteq Int /\ i \in 1 .. i /\ i \in Int /\ \A y \in 1 .. i : y <= i  OBVIOUS
  <2> QED BY <2>1, TopIsMax
<1>2. (1 .. i) \ {i} = 1 .. i - 1
  <2>1. \A y \in Int : y \in (1 .. i) \ {i} <=> y \in 1 .. i - 1  OBVIOUS
  <2> QED BY <2>1
<1> QED BY <1>1, <1>2

-----------------------------------------------------------------------------
(* Transfers (Tuner).                                                      *)

Names  == {"input", "lna_auto", "lna", "mix_auto", "mix", "filter", "corner", "vga", "clock", "div", "nint",
           "sdm_lo", "sdm_hi"}
Images == [Names -> Int \cup BOOLEAN]
Refs   == {16000, 28800}

Devices ==
  [stick : [chip : {"R820T", "R828D", "none"}, ref : Refs], type : {"none", "R820T", "R828D"}, direct : BOOLEAN,
   freq : Nat, gain : Nat, i2c_repeater_on : BOOLEAN, xtal : Refs, int_freq : Nat, tuned_if : Nat,
   has_lock : BOOLEAN, input : Int, shadow : Images, regs : Images, repeater : BOOLEAN, if_freq : Int,
   ok : BOOLEAN, fuse : Nat, weak : BOOLEAN, trouble : BOOLEAN]

(* A write of some fields of the registers that it goes to.                *)
Touched(w)  == UNION {Fields(r) : r \in w.regs}
SomeFields  == UNION {[F -> Int \cup BOOLEAN] : F \in SUBSET Names}
Steps       == [regs : SUBSET Nat, set : SomeFields]

(* What a transfer leaves alone.                                           *)
SameRest(e, d) ==
  /\ e.stick = d.stick /\ e.type = d.type /\ e.direct = d.direct /\ e.freq = d.freq /\ e.gain = d.gain
  /\ e.i2c_repeater_on = d.i2c_repeater_on /\ e.int_freq = d.int_freq /\ e.tuned_if = d.tuned_if
  /\ e.repeater = d.repeater /\ e.if_freq = d.if_freq /\ e.weak = d.weak
SameBut(e, d) == SameRest(e, d) /\ e.xtal = d.xtal /\ e.has_lock = d.has_lock /\ e.input = d.input

(* A device with another fuse, result and images.                          *)
Changed(d, fuse, trouble, ok, shadow, regs) ==
  [d EXCEPT !.fuse = fuse, !.trouble = trouble, !.ok = ok, !.shadow = shadow, !.regs = regs]

(* Such a device is one, and the rest of it is as it was.                  *)
LEMMA ChangedIs ==
  ASSUME NEW d \in Devices, NEW fuse \in Nat, NEW trouble \in BOOLEAN, NEW ok \in BOOLEAN,
         NEW shadow \in Images, NEW regs \in Images,
         NEW e, e = Changed(d, fuse, trouble, ok, shadow, regs)
  PROVE  /\ e \in Devices /\ SameBut(e, d)
         /\ e.fuse = fuse /\ e.trouble = trouble /\ e.ok = ok /\ e.shadow = shadow /\ e.regs = regs
<1>1. e \in Devices  BY DEF Devices, Changed
<1>2. SameBut(e, d)  BY DEF Devices, Changed, SameBut, SameRest
<1>3. e.fuse = fuse /\ e.trouble = trouble /\ e.ok = ok  BY DEF Devices, Changed
<1>4. e.shadow = shadow /\ e.regs = regs  BY DEF Devices, Changed
<1> QED BY <1>1, <1>2, <1>3, <1>4

(* What the fields of a device are.                                        *)
LEMMA DeviceTypes ==
  ASSUME NEW d \in Devices
  PROVE  /\ d.fuse \in Nat /\ d.trouble \in BOOLEAN /\ d.ok \in BOOLEAN /\ d.repeater \in BOOLEAN
         /\ d.shadow \in Images /\ d.regs \in Images
         /\ DOMAIN d.shadow = Names /\ DOMAIN d.regs = Names /\ Blown(d) \in BOOLEAN
<1>1. d.fuse \in Nat /\ d.trouble \in BOOLEAN /\ d.ok \in BOOLEAN /\ d.repeater \in BOOLEAN  BY DEF Devices
<1>2. d.shadow \in Images /\ d.regs \in Images  BY DEF Devices
<1> QED BY <1>1, <1>2 DEF Images, Blown

(* What comes of one write.                                                *)
Image(d, w) == [f \in Names |-> IF f \in DOMAIN w.set THEN w.set[f] ELSE d.shadow[f]]
Written(e, d, w) ==
  /\ SameBut(e, d)
  /\ ~ d.ok => e = d
  /\ d.trouble => e.trouble
  /\ e.ok => d.ok
  /\ d.ok /\ ~ e.trouble => e.ok
  /\ d.ok => e.shadow = Image(d, w)
  /\ e.ok => e.regs = [f \in Names |-> IF f \in Touched(w) THEN e.shadow[f] ELSE d.regs[f]]
  /\ ~ e.ok => e.regs = d.regs

(* The copy goes first, then the chip.                                     *)
LEMMA WriteIs ==
  ASSUME NEW d \in Devices, NEW w \in Steps
  PROVE  Write(d, w) \in Devices /\ Written(Write(d, w), d, w)
<1>1. CASE ~ d.ok
  BY <1>1, DeviceTypes DEF Write, Written, SameBut, SameRest
<1>2. CASE d.ok
  <2> DEFINE copy == Image(d, w)
             fails == Blown(d) \/ ~ d.repeater
             fuse == IF d.fuse > 0 THEN d.fuse - 1 ELSE 0
             ok == ~ fails
             trouble == (d.trouble \/ Blown(d)) \/ fails
             regs == IF fails THEN d.regs ELSE [f \in Names |-> IF f \in Touched(w) THEN copy[f] ELSE d.regs[f]]
             e == Write(d, w)
  <2>1. copy \in Images
    <3>1. \A f \in Names : d.shadow[f] \in Int \cup BOOLEAN  BY DeviceTypes DEF Images
    <3>2. \A f \in DOMAIN w.set : w.set[f] \in Int \cup BOOLEAN
      <4>1. PICK F \in SUBSET Names : w.set \in [F -> Int \cup BOOLEAN]  BY DEF Steps, SomeFields
      <4> QED BY <4>1
    <3> QED BY <3>1, <3>2 DEF Images, Image
  <2>2. regs \in Images
    <3>1. \A f \in Names : d.regs[f] \in Int \cup BOOLEAN  BY DeviceTypes DEF Images
    <3> QED BY <2>1, <3>1, DeviceTypes DEF Images
  <2>3. fails \in BOOLEAN /\ trouble \in BOOLEAN /\ ok \in BOOLEAN
    BY DeviceTypes, Zenon
  <2>4. fuse \in Nat  BY DeviceTypes
  <2>5. e = Changed(d, fuse, trouble, ok, copy, regs)
    <3>1. Burn(d).regs = d.regs  BY DEF Burn, Devices
    <3>1a. DOMAIN d.regs = Names  BY DeviceTypes
    <3>2. e = [Burn(d) EXCEPT !.shadow = copy, !.ok = ~ fails, !.trouble = @ \/ fails, !.regs = regs]
      BY <1>2, <3>1, <3>1a, DeviceTypes DEF Write, Touched, Image
    <3>3. Burn(d).trouble = (d.trouble \/ Blown(d))  BY DEF Burn, Devices, Blown
    <3> QED BY <3>2, <3>3 DEF Burn, Devices, Blown, Changed
  <2> HIDE DEF copy, regs, fails, ok, trouble, fuse, e
  <2>6. /\ e \in Devices /\ SameBut(e, d)
        /\ e.trouble = trouble /\ e.ok = ok /\ e.shadow = copy /\ e.regs = regs
    BY <2>1, <2>2, <2>3, <2>4, <2>5, ChangedIs
  <2>7. e.ok <=> ~ fails  BY <2>6, <2>3, Zenon DEF ok
  <2>8. (d.trouble => e.trouble) /\ (~ e.trouble => ~ fails)  BY <2>6, <2>3, Zenon DEF trouble
  <2> QED BY <1>2, <2>6, <2>7, <2>8 DEF copy, regs, e, Written
<1> QED BY <1>1, <1>2, DeviceTypes

(* Writes, one after the other.                                            *)
LEMMA WritesRun ==
  ASSUME NEW d \in Devices, NEW ws \in Seq(Steps)
  PROVE  \E h \in [0 .. Len(ws) -> Devices] :
           h[0] = d /\ h[Len(ws)] = Writes(d, ws) /\ \A i \in 1 .. Len(ws) : h[i] = Write(h[i - 1], ws[i])
<1> DEFINE n == Len(ws)
           G == [p \in Devices \X (1 .. n) |-> Write(p[1], ws[p[2]])]
           Goes(f) == f = [s \in SUBSET (DOMAIN ws) |-> IF s = {} THEN d ELSE Write(f[s \ {Max(s)}], ws[Max(s)])]
<1>1. n \in Nat /\ DOMAIN ws = 1 .. n /\ \A i \in 1 .. n : ws[i] \in Steps
  OBVIOUS
<1>2. G \in [Devices \X (1 .. n) -> Devices] /\ \A e \in Devices, i \in 1 .. n : G[<<e, i>>] = Write(e, ws[i])
  BY <1>1, WriteIs
<1> HIDE DEF n, G
<1>3. PICK g \in [SUBSET (1 .. n) -> Devices] : IsFold(g, d, n, G)
  BY <1>1, <1>2, FoldExists, Zenon
<1>4. Goes(g)
  <2>1. \A s \in SUBSET (1 .. n) : g[s] = IF s = {} THEN d ELSE Write(g[s \ {Max(s)}], ws[Max(s)])
    <3> SUFFICES ASSUME NEW s \in SUBSET (1 .. n), s # {} PROVE g[s] = Write(g[s \ {Max(s)}], ws[Max(s)])
      BY <1>3 DEF IsFold
    <3>1. Max(s) \in 1 .. n /\ s \ {Max(s)} \in SUBSET (1 .. n)  BY <1>3 DEF IsFold
    <3>2. g[s \ {Max(s)}] \in Devices  BY <3>1
    <3> QED BY <1>2, <1>3, <3>1, <3>2 DEF IsFold
  <2> QED BY <1>1, <2>1
<1>5. PICK f : Goes(f) /\ Writes(d, ws) = f[DOMAIN ws]
  <2>1. Goes(CHOOSE f : Goes(f))  BY <1>4
  <2>2. Writes(d, ws) = (CHOOSE f : Goes(f))[DOMAIN ws]
    BY DEF Writes, FoldLeft, MapThenFoldSet
  <2> QED BY <2>1, <2>2
<1>6. f[{}] = d /\ \A i \in 1 .. n : f[1 .. i] = Write(f[1 .. i - 1], ws[i])
  <2>1. f[{}] = d  BY <1>5
  <2>2. ASSUME NEW i \in 1 .. n  PROVE f[1 .. i] = Write(f[1 .. i - 1], ws[i])
    <3>0. i \in 1 .. i /\ \A j \in 1 .. i : j \in 1 .. n  BY <1>1
    <3>1. 1 .. i \in SUBSET (1 .. n) /\ 1 .. i # {}  BY <3>0, Zenon
    <3>2. Max(1 .. i) = i /\ (1 .. i) \ {i} = 1 .. i - 1  BY <1>1, UptoMax
    <3> QED BY <1>1, <1>5, <3>1, <3>2
  <2> QED BY <2>1, <2>2
<1> DEFINE h == [i \in 0 .. n |-> f[1 .. i]]
<1>7. h[0] = d /\ h[n] = Writes(d, ws) /\ \A i \in 1 .. n : h[i] = Write(h[i - 1], ws[i])
  <2>1. 1 .. 0 = {} /\ 0 \in 0 .. n /\ n \in 0 .. n  BY <1>1
  <2>2. \A i \in 1 .. n : i \in 0 .. n /\ i - 1 \in 0 .. n  BY <1>1
  <2> QED BY <1>1, <1>5, <1>6, <2>1, <2>2
<1>8. \A i \in 0 .. n : h[i] \in Devices
  <2> DEFINE T == {i \in 0 .. n : h[i] \in Devices}
  <2> HIDE DEF h
  <2>1. 0 \in T  BY <1>1, <1>7
  <2>2. ASSUME NEW i \in 0 .. n, i # n, i \in T  PROVE i + 1 \in T
    <3>1. i + 1 \in 1 .. n /\ (i + 1) - 1 = i  BY <1>1, <2>2
    <3>2. h[i + 1] = Write(h[i], ws[i + 1])  BY <1>7, <3>1
    <3>3. h[i] \in Devices /\ ws[i + 1] \in Steps  BY <1>1, <2>2, <3>1
    <3>4. h[i + 1] \in Devices  BY <3>2, <3>3, WriteIs, Zenon
    <3> QED BY <3>1, <3>4
  <2>3. \A i \in 0 .. n : i \in T
    <3> HIDE DEF T
    <3> QED BY <1>1, <2>1, <2>2, Induct
  <2> QED BY <2>3
<1>9. h \in [0 .. n -> Devices]
  BY <1>8
<1> HIDE DEF h
<1> QED BY <1>7, <1>9 DEF n

(* Field by field.                                                         *)
ByField(e, d, w, f) ==
  /\ f \notin DOMAIN w.set => e.shadow[f] = d.shadow[f]
  /\ f \notin Touched(w) => e.regs[f] = d.regs[f]
  /\ e.ok /\ f \in DOMAIN w.set => e.shadow[f] = w.set[f]
  /\ e.ok /\ f \in Touched(w) => e.regs[f] = e.shadow[f]

(* What one write does to one field.                                       *)
LEMMA WrittenField ==
  ASSUME NEW d \in Devices, NEW w \in Steps, NEW e \in Devices, Written(e, d, w), NEW f \in Names
  PROVE  ByField(e, d, w, f)
<1>1. e.shadow[f] = IF d.ok /\ f \in DOMAIN w.set THEN w.set[f] ELSE d.shadow[f]
  <2>1. CASE ~ d.ok  BY <2>1 DEF Written
  <2>2. CASE d.ok
    <3>1. e.shadow = Image(d, w)  BY <2>2 DEF Written
    <3> QED BY <2>2, <3>1 DEF Image
  <2> QED BY <2>1, <2>2
<1>2. e.regs[f] = IF e.ok /\ f \in Touched(w) THEN e.shadow[f] ELSE d.regs[f]
  <2>1. CASE ~ e.ok  BY <2>1 DEF Written
  <2>2. CASE e.ok
    <3>1. e.regs = [x \in Names |-> IF x \in Touched(w) THEN e.shadow[x] ELSE d.regs[x]]  BY <2>2 DEF Written
    <3> QED BY <2>2, <3>1
  <2> QED BY <2>1, <2>2
<1>3. e.ok => d.ok  BY DEF Written
<1> QED BY <1>1, <1>2, <1>3 DEF ByField

(* A run of writes.                                                        *)
Ran(e, d) ==
  /\ SameBut(e, d)
  /\ ~ d.ok => e = d
  /\ d.trouble => e.trouble
  /\ e.ok => d.ok
  /\ d.ok /\ ~ e.trouble => e.ok

(* One more write goes on with the run.                                    *)
LEMMA RanOn ==
  ASSUME NEW d \in Devices, NEW e \in Devices, NEW x \in Devices, NEW w, Ran(e, d), Written(x, e, w)
  PROVE  Ran(x, d)
<1>1. SameBut(x, d)  BY DEF Ran, Written, SameBut, SameRest
<1>2. ~ d.ok => x = d  BY DEF Ran, Written
<1>3. (d.trouble => x.trouble) /\ (x.ok => d.ok)  BY DeviceTypes DEF Ran, Written
<1>4. d.ok /\ ~ x.trouble => x.ok  BY DeviceTypes DEF Ran, Written
<1> QED BY <1>1, <1>2, <1>3, <1>4 DEF Ran

(* Writes of ws, what they leave alone.                                    *)
LEMMA WritesIs ==
  ASSUME NEW d \in Devices, NEW ws \in Seq(Steps)
  PROVE  /\ Writes(d, ws) \in Devices /\ Ran(Writes(d, ws), d)
         /\ \A f \in Names : (\A i \in 1 .. Len(ws) : f \notin Touched(ws[i])) => Writes(d, ws).regs[f] = d.regs[f]
         /\ \A f \in Names : (\A i \in 1 .. Len(ws) : f \notin DOMAIN ws[i].set) => Writes(d, ws).shadow[f] = d.shadow[f]
<1> DEFINE n == Len(ws)
<1>1. n \in Nat /\ \A i \in 1 .. n : ws[i] \in Steps
  OBVIOUS
<1>2. PICK h \in [0 .. n -> Devices] :
        h[0] = d /\ h[n] = Writes(d, ws) /\ \A i \in 1 .. n : h[i] = Write(h[i - 1], ws[i])
  BY WritesRun
<1> HIDE DEF n
<1>3. ASSUME NEW i \in 0 .. n, i # n
      PROVE  /\ i + 1 \in 1 .. n /\ i + 1 \in 0 .. n /\ h[i] \in Devices /\ h[i + 1] \in Devices /\ ws[i + 1] \in Steps
             /\ Written(h[i + 1], h[i], ws[i + 1])
  <2>1. i + 1 \in 1 .. n /\ i + 1 \in 0 .. n /\ (i + 1) - 1 = i  BY <1>1, <1>3
  <2>2. h[i] \in Devices /\ h[i + 1] \in Devices /\ ws[i + 1] \in Steps  BY <1>1, <2>1
  <2>3. h[i + 1] = Write(h[i], ws[i + 1])  BY <1>2, <2>1
  <2>4. Written(h[i + 1], h[i], ws[i + 1])  BY <2>2, <2>3, WriteIs, Zenon
  <2> QED BY <2>1, <2>2, <2>4
<1>4. 0 \in 0 .. n /\ n \in 0 .. n
  BY <1>1
<1> DEFINE Same(f, i) == /\ (\A j \in 1 .. i : f \notin Touched(ws[j])) => h[i].regs[f] = d.regs[f]
                         /\ (\A j \in 1 .. i : f \notin DOMAIN ws[j].set) => h[i].shadow[f] = d.shadow[f]
           T == {i \in 0 .. n : Ran(h[i], d) /\ \A f \in Names : Same(f, i)}
<1>5. 0 \in T
  BY <1>2, <1>4 DEF Ran, SameBut, SameRest
<1>6. ASSUME NEW i \in 0 .. n, i # n, i \in T  PROVE i + 1 \in T
  <2>1. Ran(h[i + 1], d)
    <3>1. Ran(h[i], d)  BY <1>6
    <3>2. h[i] \in Devices /\ h[i + 1] \in Devices /\ Written(h[i + 1], h[i], ws[i + 1])  BY <1>3, <1>6
    <3> QED BY <3>1, <3>2, RanOn
  <2>2. ASSUME NEW f \in Names  PROVE Same(f, i + 1)
    <3>1. Same(f, i)  BY <1>6
    <3>2. \A j \in 1 .. i : j \in 1 .. i + 1  BY <1>1, <1>6
    <3>3. i + 1 \in 1 .. i + 1  BY <1>1, <1>6
    <3>3a. h[i] \in Devices /\ h[i + 1] \in Devices /\ ws[i + 1] \in Steps /\ Written(h[i + 1], h[i], ws[i + 1])
      BY <1>3, <1>6
    <3>3b. ByField(h[i + 1], h[i], ws[i + 1], f)  BY <3>3a, WrittenField, Zenon
    <3>4. f \notin Touched(ws[i + 1]) => h[i + 1].regs[f] = h[i].regs[f]  BY <3>3b DEF ByField
    <3>5. f \notin DOMAIN ws[i + 1].set => h[i + 1].shadow[f] = h[i].shadow[f]  BY <3>3b DEF ByField
    <3> QED BY <3>1, <3>2, <3>3, <3>4, <3>5, Zenon
  <2> HIDE DEF Same
  <2> QED BY <1>3, <1>6, <2>1, <2>2
<1>7. \A i \in 0 .. n : i \in T
  <2> HIDE DEF T
  <2> QED BY <1>1, <1>5, <1>6, Induct
<1>8. n \in T
  <2> HIDE DEF T
  <2> QED BY <1>4, <1>7
<1> QED BY <1>2, <1>4, <1>8 DEF n

(* What was written last, if all of it was.                                *)
LEMMA WritesLast ==
  ASSUME NEW d \in Devices, NEW ws \in Seq(Steps), Writes(d, ws).ok, NEW k \in 1 .. Len(ws), NEW f \in Names,
         f \in DOMAIN ws[k].set, f \in Touched(ws[k]),
         \A j \in 1 .. Len(ws) : j > k => f \notin DOMAIN ws[j].set
  PROVE  Writes(d, ws).regs[f] = ws[k].set[f]
<1> DEFINE n == Len(ws)
<1>1. n \in Nat /\ k \in 1 .. n /\ \A i \in 1 .. n : ws[i] \in Steps
  OBVIOUS
<1>2. PICK h \in [0 .. n -> Devices] :
        h[0] = d /\ h[n] = Writes(d, ws) /\ \A i \in 1 .. n : h[i] = Write(h[i - 1], ws[i])
  BY WritesRun
<1>3. \A j \in 1 .. n : j > k => f \notin DOMAIN ws[j].set
  OBVIOUS
<1> HIDE DEF n
<1>4. ASSUME NEW i \in 0 .. n, i # n
      PROVE  /\ i + 1 \in 1 .. n /\ i + 1 \in 0 .. n /\ h[i] \in Devices /\ h[i + 1] \in Devices /\ ws[i + 1] \in Steps
             /\ Written(h[i + 1], h[i], ws[i + 1])
  <2>1. i + 1 \in 1 .. n /\ i + 1 \in 0 .. n /\ (i + 1) - 1 = i  BY <1>1, <1>4
  <2>2. h[i] \in Devices /\ h[i + 1] \in Devices /\ ws[i + 1] \in Steps  BY <1>1, <2>1
  <2>3. h[i + 1] = Write(h[i], ws[i + 1])  BY <1>2, <2>1
  <2>4. Written(h[i + 1], h[i], ws[i + 1])  BY <2>2, <2>3, WriteIs, Zenon
  <2> QED BY <2>1, <2>2, <2>4
<1>5. 0 \in 0 .. n /\ n \in 0 .. n /\ n >= k
  BY <1>1
<1> DEFINE Stays(i) == h[i].ok /\ i >= k => h[i].shadow[f] = ws[k].set[f] /\ h[i].regs[f] = ws[k].set[f]
           T == {i \in 0 .. n : Stays(i)}
<1>6. 0 \in T
  BY <1>1, <1>5
<1>7. ASSUME NEW i \in 0 .. n, i # n, i \in T  PROVE i + 1 \in T
  <2>1. Stays(i) /\ i + 1 \in 1 .. n /\ i + 1 \in 0 .. n  BY <1>4, <1>7
  <2>2. h[i + 1].ok => h[i].ok  BY <1>4, <1>7 DEF Written
  <2>3. /\ f \notin DOMAIN ws[i + 1].set => h[i + 1].shadow[f] = h[i].shadow[f]
        /\ f \notin Touched(ws[i + 1]) => h[i + 1].regs[f] = h[i].regs[f]
        /\ h[i + 1].ok /\ f \in DOMAIN ws[i + 1].set => h[i + 1].shadow[f] = ws[i + 1].set[f]
        /\ h[i + 1].ok /\ f \in Touched(ws[i + 1]) => h[i + 1].regs[f] = h[i + 1].shadow[f]
    <3>1. h[i] \in Devices /\ h[i + 1] \in Devices /\ ws[i + 1] \in Steps /\ Written(h[i + 1], h[i], ws[i + 1])  BY <1>4, <1>7
    <3>2. ByField(h[i + 1], h[i], ws[i + 1], f)  BY <3>1, WrittenField, Zenon
    <3> QED BY <3>2 DEF ByField
  <2>4. Stays(i + 1)
    <3> SUFFICES ASSUME h[i + 1].ok, i + 1 >= k
                 PROVE  h[i + 1].shadow[f] = ws[k].set[f] /\ h[i + 1].regs[f] = ws[k].set[f]
      OBVIOUS
    <3>1. CASE i + 1 = k  BY <2>3, <3>1
    <3>2. CASE i + 1 # k
      <4>1. i >= k /\ i + 1 > k  BY <1>1, <1>7, <3>2
      <4>2. f \notin DOMAIN ws[i + 1].set  BY <1>3, <2>1, <4>1
      <4>3. h[i].shadow[f] = ws[k].set[f] /\ h[i].regs[f] = ws[k].set[f]  BY <2>1, <2>2, <4>1
      <4> QED BY <2>3, <4>2, <4>3, Zenon
    <3> QED BY <3>1, <3>2
  <2> HIDE DEF Stays
  <2> QED BY <2>1, <2>4
<1>8. n \in T
  <2>1. \A i \in 0 .. n : i \in T
    <3> HIDE DEF T
    <3> QED BY <1>1, <1>6, <1>7, Induct
  <2> HIDE DEF T
  <2> QED BY <1>5, <2>1
<1> QED BY <1>2, <1>5, <1>8

(* The copy tells what the chip has, if all of it was written.             *)
THEOREM WritesMatch ==
  ASSUME NEW d \in Devices, NEW ws \in Seq(Steps), Writes(d, ws).ok,
         \A i \in 1 .. Len(ws) : DOMAIN ws[i].set \subseteq Touched(ws[i]),
         \A f \in Names : d.shadow[f] = d.regs[f] \/ \E i \in 1 .. Len(ws) : f \in Touched(ws[i])
  PROVE  Writes(d, ws).shadow = Writes(d, ws).regs
<1> DEFINE n == Len(ws)
<1>1. n \in Nat /\ \A i \in 1 .. n : ws[i] \in Steps
  OBVIOUS
<1>2. PICK h \in [0 .. n -> Devices] :
        h[0] = d /\ h[n] = Writes(d, ws) /\ \A i \in 1 .. n : h[i] = Write(h[i - 1], ws[i])
  BY WritesRun
<1>3. \A i \in 1 .. n : DOMAIN ws[i].set \subseteq Touched(ws[i])
  OBVIOUS
<1>3a. \A f \in Names : d.shadow[f] = d.regs[f] \/ \E i \in 1 .. n : f \in Touched(ws[i])
  OBVIOUS
<1> HIDE DEF n
<1>4. ASSUME NEW i \in 0 .. n, i # n
      PROVE  /\ i + 1 \in 1 .. n /\ i + 1 \in 0 .. n /\ h[i] \in Devices /\ h[i + 1] \in Devices /\ ws[i + 1] \in Steps
             /\ Written(h[i + 1], h[i], ws[i + 1])
  <2>1. i + 1 \in 1 .. n /\ i + 1 \in 0 .. n /\ (i + 1) - 1 = i  BY <1>1, <1>4
  <2>2. h[i] \in Devices /\ h[i + 1] \in Devices /\ ws[i + 1] \in Steps  BY <1>1, <2>1
  <2>3. h[i + 1] = Write(h[i], ws[i + 1])  BY <1>2, <2>1
  <2>4. Written(h[i + 1], h[i], ws[i + 1])  BY <2>2, <2>3, WriteIs, Zenon
  <2> QED BY <2>1, <2>2, <2>4
<1>5. 0 \in 0 .. n /\ n \in 0 .. n /\ h[n] \in Devices
  BY <1>1
<1> DEFINE Known(f, i) == d.shadow[f] = d.regs[f] \/ \E j \in 1 .. i : f \in Touched(ws[j])
           Match(f, i) == h[i].ok /\ Known(f, i) => h[i].shadow[f] = h[i].regs[f]
           T == {i \in 0 .. n : \A f \in Names : Match(f, i)}
<1>6. 0 \in T
  BY <1>2, <1>5
<1>7. ASSUME NEW i \in 0 .. n, i # n, i \in T  PROVE i + 1 \in T
  <2>1. i + 1 \in 1 .. n /\ i + 1 \in 0 .. n  BY <1>4, <1>7
  <2>2. h[i + 1].ok => h[i].ok  BY <1>4, <1>7 DEF Written
  <2>3. ASSUME NEW f \in Names  PROVE Match(f, i + 1)
    <3>1. Match(f, i)  BY <1>7
    <3>2. /\ f \notin DOMAIN ws[i + 1].set => h[i + 1].shadow[f] = h[i].shadow[f]
          /\ f \notin Touched(ws[i + 1]) => h[i + 1].regs[f] = h[i].regs[f]
          /\ h[i + 1].ok /\ f \in Touched(ws[i + 1]) => h[i + 1].regs[f] = h[i + 1].shadow[f]
      <4>1. h[i] \in Devices /\ h[i + 1] \in Devices /\ ws[i + 1] \in Steps /\ Written(h[i + 1], h[i], ws[i + 1])  BY <1>4, <1>7
      <4>2. ByField(h[i + 1], h[i], ws[i + 1], f)  BY <4>1, WrittenField, Zenon
      <4> QED BY <4>2 DEF ByField
    <3>3. CASE f \in Touched(ws[i + 1])  BY <3>2, <3>3
    <3>4. CASE f \notin Touched(ws[i + 1])
      <4>1. f \notin DOMAIN ws[i + 1].set  BY <1>3, <2>1, <3>4
      <4>2. Known(f, i + 1) => Known(f, i)
        <5>1. \A j \in 1 .. i + 1 : j = i + 1 \/ j \in 1 .. i  BY <1>1, <1>7
        <5> QED BY <3>4, <5>1
      <4> HIDE DEF Known
      <4> QED BY <2>2, <3>1, <3>2, <3>4, <4>1, <4>2
    <3> QED BY <3>3, <3>4
  <2> HIDE DEF Match
  <2> QED BY <2>1, <2>3
<1>8. n \in T
  <2>1. \A i \in 0 .. n : i \in T
    <3> HIDE DEF T
    <3> QED BY <1>1, <1>6, <1>7, Induct
  <2> HIDE DEF T
  <2> QED BY <1>5, <2>1
<1>9. \A f \in Names : h[n].shadow[f] = h[n].regs[f]
  BY <1>2, <1>3a, <1>8
<1> QED BY <1>2, <1>5, <1>9, DeviceTypes DEF Images

-----------------------------------------------------------------------------
(* The fraction (Tuner).                                                   *)

Halves == [fra : Int, sdm : Int]

(* Halving, one bit after the other.                                       *)
LEMMA SdmRun ==
  ASSUME NEW fra \in Int, NEW ref \in Refs
  PROVE  \E h \in [0 .. 15 -> Halves] :
           /\ h[0] = [fra |-> fra, sdm |-> 0] /\ Sdm(fra, ref) = h[15].sdm % 65536
           /\ \A i \in 1 .. 15 : h[i] = Halve(h[i - 1], i, ref)
<1> DEFINE n == 15
           d == [fra |-> fra, sdm |-> 0]
           ws == [k \in 1 .. 15 |-> k]
           G == [p \in Halves \X (1 .. n) |-> Halve(p[1], p[2], ref)]
           Goes(f) == f = [s \in SUBSET (DOMAIN ws) |-> IF s = {} THEN d ELSE Halve(f[s \ {Max(s)}], ws[Max(s)], ref)]
<1>1. n \in Nat /\ DOMAIN ws = 1 .. n /\ (\A i \in 1 .. n : ws[i] = i) /\ d \in Halves
  BY DEF Halves
<1>2. G \in [Halves \X (1 .. n) -> Halves] /\ \A e \in Halves, i \in 1 .. n : G[<<e, i>>] = Halve(e, i, ref)
  <2>1. ASSUME NEW e \in Halves, NEW i \in 1 .. n  PROVE Halve(e, i, ref) \in Halves
    <3>1. PICK p, b : p = (2 * ref) \div 2^i /\ b = 32768 \div 2^(i - 1)  OBVIOUS
    <3>2. p \in Int /\ b \in Int
      BY <3>1 DEF Refs
    <3>3. Halve(e, i, ref) = IF e.fra > 1 /\ e.fra > p THEN [fra |-> e.fra - p, sdm |-> e.sdm + b] ELSE e
      BY <3>1 DEF Halve
    <3> QED BY <3>2, <3>3 DEF Halves
  <2> QED BY <2>1
<1> HIDE DEF n, G, d, ws
<1>0. n \in Nat
  BY <1>1
<1>3. PICK g \in [SUBSET (1 .. n) -> Halves] : IsFold(g, d, n, G)
  BY <1>1, <1>2, FoldExists, Zenon
<1>4. Goes(g)
  <2>1. \A s \in SUBSET (1 .. n) : g[s] = IF s = {} THEN d ELSE Halve(g[s \ {Max(s)}], ws[Max(s)], ref)
    <3> SUFFICES ASSUME NEW s \in SUBSET (1 .. n), s # {} PROVE g[s] = Halve(g[s \ {Max(s)}], ws[Max(s)], ref)
      BY <1>3 DEF IsFold
    <3>1. Max(s) \in 1 .. n /\ s \ {Max(s)} \in SUBSET (1 .. n)  BY <1>3 DEF IsFold
    <3>2. g[s \ {Max(s)}] \in Halves  BY <3>1
    <3> QED BY <1>1, <1>2, <1>3, <3>1, <3>2 DEF IsFold
  <2> QED BY <1>1, <2>1
<1> DEFINE f == CHOOSE f : Goes(f)
<1>5. Goes(f)
  BY <1>4
<1>5a. Sdm(fra, ref) = f[DOMAIN ws].sdm % 65536
  BY DEF Sdm, FoldLeft, MapThenFoldSet, d, ws
<1>6. f[{}] = d /\ \A i \in 1 .. n : f[1 .. i] = Halve(f[1 .. i - 1], i, ref)
  <2> HIDE DEF f
  <2>1. f[{}] = d  BY <1>5
  <2>2. ASSUME NEW i \in 1 .. n  PROVE f[1 .. i] = Halve(f[1 .. i - 1], i, ref)
    <3>1. 1 .. i \in SUBSET (1 .. n) /\ 1 .. i # {}  BY <1>0
    <3>2. Max(1 .. i) = i /\ (1 .. i) \ {i} = 1 .. i - 1  BY <1>0, UptoMax
    <3>3. f[1 .. i] = Halve(f[(1 .. i) \ {Max(1 .. i)}], ws[Max(1 .. i)], ref)  BY <1>1, <1>5, <3>1
    <3>4. ws[i] = i  BY <1>1
    <3> QED BY <3>2, <3>3, <3>4, Zenon
  <2> QED BY <2>1, <2>2
<1> DEFINE h == [i \in 0 .. n |-> f[1 .. i]]
<1>7. h[0] = d /\ h[n] = f[1 .. n] /\ \A i \in 1 .. n : h[i] = Halve(h[i - 1], i, ref)
  <2> HIDE DEF f
  <2>1. 1 .. 0 = {} /\ 0 \in 0 .. n /\ n \in 0 .. n  BY <1>0
  <2>2. h[0] = d /\ h[n] = f[1 .. n]  BY <1>6, <2>1
  <2>3. ASSUME NEW i \in 1 .. n  PROVE h[i] = Halve(h[i - 1], i, ref)
    <3>1. i \in 0 .. n /\ i - 1 \in 0 .. n  BY <1>0
    <3>2. h[i] = f[1 .. i] /\ h[i - 1] = f[1 .. i - 1]  BY <3>1
    <3> QED BY <1>6, <3>2, Zenon
  <2> QED BY <2>2, <2>3
<1> HIDE DEF f
<1>8. \A i \in 0 .. n : h[i] \in Halves
  <2> DEFINE T == {i \in 0 .. n : h[i] \in Halves}
  <2> HIDE DEF h
  <2>0. 0 \in 0 .. n  BY <1>0
  <2>1. 0 \in T  BY <1>1, <1>7, <2>0
  <2>2. ASSUME NEW i \in 0 .. n, i # n, i \in T  PROVE i + 1 \in T
    <3>1. i + 1 \in 1 .. n /\ i + 1 \in 0 .. n /\ (i + 1) - 1 = i  BY <1>0, <2>2
    <3>2. h[i + 1] = Halve(h[i], i + 1, ref)  BY <1>7, <3>1
    <3>3. h[i] \in Halves  BY <2>2
    <3>4. h[i + 1] = G[<<h[i], i + 1>>]  BY <1>2, <3>1, <3>2, <3>3
    <3>5. h[i + 1] \in Halves  BY <1>2, <3>1, <3>3, <3>4
    <3> QED BY <3>1, <3>5
  <2>3. \A i \in 0 .. n : i \in T
    <3> HIDE DEF T
    <3> QED BY <1>0, <2>1, <2>2, Induct
  <2> QED BY <2>3
<1>9. h \in [0 .. n -> Halves] /\ DOMAIN ws = 1 .. n
  BY <1>1, <1>8
<1>10. Sdm(fra, ref) = h[n].sdm % 65536
  <2> HIDE DEF h
  <2> QED BY <1>5a, <1>7, <1>9
<1> HIDE DEF h
<1> QED BY <1>7, <1>9, <1>10 DEF n, d

(* The same in numbers.                                                    *)
Halved(f, m, i, ref) ==
  LET p    == (2 * ref) \div 2^i
      more == f[i - 1] > 1 /\ f[i - 1] > p
  IN  /\ f[i] = IF more THEN f[i - 1] - p ELSE f[i - 1]
      /\ m[i] = IF more THEN m[i - 1] + 32768 \div 2^(i - 1) ELSE m[i - 1]

IsSdm(fra, ref, f, m) ==
  f[0] = fra /\ m[0] = 0 /\ Sdm(fra, ref) = m[15] % 65536 /\ \A i \in 1 .. 15 : Halved(f, m, i, ref)

HasSdm(fra, ref) == \E f, m \in [0 .. 15 -> Int] : IsSdm(fra, ref, f, m)

(* The halvings exist, whatever the fraction.                              *)
LEMMA SdmSteps ==
  ASSUME NEW fra \in Int, NEW ref \in Refs
  PROVE  HasSdm(fra, ref)
<1>1. PICK h \in [0 .. 15 -> Halves] :
           /\ h[0] = [fra |-> fra, sdm |-> 0] /\ Sdm(fra, ref) = h[15].sdm % 65536
           /\ \A i \in 1 .. 15 : h[i] = Halve(h[i - 1], i, ref)
  BY SdmRun
<1> DEFINE f == [i \in 0 .. 15 |-> h[i].fra]
           m == [i \in 0 .. 15 |-> h[i].sdm]
<1>2. f \in [0 .. 15 -> Int] /\ m \in [0 .. 15 -> Int]
  <2>1. \A i \in 0 .. 15 : h[i] \in Halves  BY <1>1
  <2> QED BY <2>1 DEF Halves
<1>3. f[0] = fra /\ m[0] = 0 /\ m[15] = h[15].sdm
  BY <1>1
<1>4. ASSUME NEW i \in 1 .. 15
      PROVE  Halved(f, m, i, ref)
  <2> DEFINE p == (2 * ref) \div 2^i
             b == 32768 \div 2^(i - 1)
  <2>1. i \in 0 .. 15 /\ i - 1 \in 0 .. 15  OBVIOUS
  <2>2. h[i] = IF h[i - 1].fra > 1 /\ h[i - 1].fra > p THEN [fra |-> h[i - 1].fra - p, sdm |-> h[i - 1].sdm + b]
                                                        ELSE h[i - 1]
    <3>1. h[i] = Halve(h[i - 1], i, ref)  BY <1>1
    <3> QED BY <3>1 DEF Halve
  <2>3. f[i] = h[i].fra /\ m[i] = h[i].sdm /\ f[i - 1] = h[i - 1].fra /\ m[i - 1] = h[i - 1].sdm  BY <2>1
  <2> HIDE DEF f, m, p, b
  <2>4. /\ f[i] = IF f[i - 1] > 1 /\ f[i - 1] > p THEN f[i - 1] - p ELSE f[i - 1]
        /\ m[i] = IF f[i - 1] > 1 /\ f[i - 1] > p THEN m[i - 1] + b ELSE m[i - 1]
    <3>1. CASE f[i - 1] > 1 /\ f[i - 1] > p
      <4>1. h[i] = [fra |-> f[i - 1] - p, sdm |-> m[i - 1] + b]  BY <2>2, <2>3, <3>1
      <4> QED BY <2>3, <3>1, <4>1
    <3>2. CASE ~ (f[i - 1] > 1 /\ f[i - 1] > p)
      <4>1. h[i] = h[i - 1]  BY <2>2, <2>3, <3>2
      <4> QED BY <2>3, <3>2, <4>1
    <3> QED BY <3>1, <3>2
  <2> QED BY <2>4 DEF Halved, p, b
<1> HIDE DEF f, m
<1> QED BY <1>1, <1>2, <1>3, <1>4 DEF IsSdm, HasSdm

(* By 16 MHz the 16 bits are the fraction, to 6 kHz below and 5 above.     *)
LEMMA SdmOf16 ==
  ASSUME NEW fra \in Nat, fra <= 31999
  PROVE  LET d == Sdm(fra, 16000)
         IN  d \in Nat /\ d <= 65535 /\ 65536 * (fra - 6) <= 32000 * d /\ 32000 * d <= 65536 * fra + 329216
<1>0a. PICK f, m \in [0 .. 15 -> Int] : IsSdm(fra, 16000, f, m)
  <2>1. fra \in Int /\ 16000 \in Refs  BY DEF Refs
  <2>2. HasSdm(fra, 16000)  BY <2>1, SdmSteps
  <2> QED BY <2>2 DEF HasSdm
<1>0. f[0] = fra /\ m[0] = 0 /\ Sdm(fra, 16000) = m[15] % 65536 /\ \A i \in 1 .. 15 : Halved(f, m, i, 16000)
  BY <1>0a DEF IsSdm
<1> DEFINE Near(i, left, top, off) ==
             /\ f[i] \in Int /\ 0 <= f[i] /\ f[i] <= left /\ m[i] \in Int /\ 0 <= m[i] /\ m[i] <= top
             /\ 65536 * (fra - f[i]) <= 32000 * m[i] /\ 32000 * m[i] <= 65536 * (fra - f[i]) + off
<1>1. Near(0, 31999, 0, 0)
  BY <1>0
<1>2. Near(1, 16000, 32768, 0)
  <2>1. Halved(f, m, 1, 16000) /\ f[1] \in Int /\ m[1] \in Int
    BY <1>0
  <2>0. f[0] = fra /\ m[0] = 0 /\ fra \in Int /\ 0 <= fra /\ fra <= 31999
    BY <1>0
  <2>2. IF f[0] > 1 /\ f[0] > 16000 THEN f[1] = f[0] - 16000 /\ m[1] = m[0] + 32768
                                  ELSE f[1] = f[0] /\ m[1] = m[0]
    BY <2>1 DEF Halved
  <2> QED BY <2>0, <2>1, <2>2
<1>3. Near(2, 8000, 49152, 0)
  <2>1. Halved(f, m, 2, 16000) /\ f[2] \in Int /\ m[2] \in Int
    BY <1>0
  <2>2. IF f[1] > 1 /\ f[1] > 8000 THEN f[2] = f[1] - 8000 /\ m[2] = m[1] + 16384
                                  ELSE f[2] = f[1] /\ m[2] = m[1]
    BY <2>1 DEF Halved
  <2> QED BY <1>2, <2>1, <2>2
<1>4. Near(3, 4000, 57344, 0)
  <2>1. Halved(f, m, 3, 16000) /\ f[3] \in Int /\ m[3] \in Int
    BY <1>0
  <2>2. IF f[2] > 1 /\ f[2] > 4000 THEN f[3] = f[2] - 4000 /\ m[3] = m[2] + 8192
                                  ELSE f[3] = f[2] /\ m[3] = m[2]
    BY <2>1 DEF Halved
  <2> QED BY <1>3, <2>1, <2>2
<1>5. Near(4, 2000, 61440, 0)
  <2>1. Halved(f, m, 4, 16000) /\ f[4] \in Int /\ m[4] \in Int
    BY <1>0
  <2>2. IF f[3] > 1 /\ f[3] > 2000 THEN f[4] = f[3] - 2000 /\ m[4] = m[3] + 4096
                                  ELSE f[4] = f[3] /\ m[4] = m[3]
    BY <2>1 DEF Halved
  <2> QED BY <1>4, <2>1, <2>2
<1>6. Near(5, 1000, 63488, 0)
  <2>1. Halved(f, m, 5, 16000) /\ f[5] \in Int /\ m[5] \in Int
    BY <1>0
  <2>2. IF f[4] > 1 /\ f[4] > 1000 THEN f[5] = f[4] - 1000 /\ m[5] = m[4] + 2048
                                  ELSE f[5] = f[4] /\ m[5] = m[4]
    BY <2>1 DEF Halved
  <2> QED BY <1>5, <2>1, <2>2
<1>7. Near(6, 500, 64512, 0)
  <2>1. Halved(f, m, 6, 16000) /\ f[6] \in Int /\ m[6] \in Int
    BY <1>0
  <2>2. IF f[5] > 1 /\ f[5] > 500 THEN f[6] = f[5] - 500 /\ m[6] = m[5] + 1024
                                  ELSE f[6] = f[5] /\ m[6] = m[5]
    BY <2>1 DEF Halved
  <2> QED BY <1>6, <2>1, <2>2
<1>8. Near(7, 250, 65024, 0)
  <2>1. Halved(f, m, 7, 16000) /\ f[7] \in Int /\ m[7] \in Int
    BY <1>0
  <2>2. IF f[6] > 1 /\ f[6] > 250 THEN f[7] = f[6] - 250 /\ m[7] = m[6] + 512
                                  ELSE f[7] = f[6] /\ m[7] = m[6]
    BY <2>1 DEF Halved
  <2> QED BY <1>7, <2>1, <2>2
<1>9. Near(8, 125, 65280, 0)
  <2>1. Halved(f, m, 8, 16000) /\ f[8] \in Int /\ m[8] \in Int
    BY <1>0
  <2>2. IF f[7] > 1 /\ f[7] > 125 THEN f[8] = f[7] - 125 /\ m[8] = m[7] + 256
                                  ELSE f[8] = f[7] /\ m[8] = m[7]
    BY <2>1 DEF Halved
  <2> QED BY <1>8, <2>1, <2>2
<1>10. Near(9, 63, 65408, 32768)
  <2>1. Halved(f, m, 9, 16000) /\ f[9] \in Int /\ m[9] \in Int
    BY <1>0
  <2>2. IF f[8] > 1 /\ f[8] > 62 THEN f[9] = f[8] - 62 /\ m[9] = m[8] + 128
                                  ELSE f[9] = f[8] /\ m[9] = m[8]
    BY <2>1 DEF Halved
  <2> QED BY <1>9, <2>1, <2>2
<1>11. Near(10, 32, 65472, 49152)
  <2>1. Halved(f, m, 10, 16000) /\ f[10] \in Int /\ m[10] \in Int
    BY <1>0
  <2>2. IF f[9] > 1 /\ f[9] > 31 THEN f[10] = f[9] - 31 /\ m[10] = m[9] + 64
                                  ELSE f[10] = f[9] /\ m[10] = m[9]
    BY <2>1 DEF Halved
  <2> QED BY <1>10, <2>1, <2>2
<1>12. Near(11, 17, 65504, 90112)
  <2>1. Halved(f, m, 11, 16000) /\ f[11] \in Int /\ m[11] \in Int
    BY <1>0
  <2>2. IF f[10] > 1 /\ f[10] > 15 THEN f[11] = f[10] - 15 /\ m[11] = m[10] + 32
                                  ELSE f[11] = f[10] /\ m[11] = m[10]
    BY <2>1 DEF Halved
  <2> QED BY <1>11, <2>1, <2>2
<1>13. Near(12, 10, 65520, 143360)
  <2>1. Halved(f, m, 12, 16000) /\ f[12] \in Int /\ m[12] \in Int
    BY <1>0
  <2>2. IF f[11] > 1 /\ f[11] > 7 THEN f[12] = f[11] - 7 /\ m[12] = m[11] + 16
                                  ELSE f[12] = f[11] /\ m[12] = m[11]
    BY <2>1 DEF Halved
  <2> QED BY <1>12, <2>1, <2>2
<1>14. Near(13, 7, 65528, 202752)
  <2>1. Halved(f, m, 13, 16000) /\ f[13] \in Int /\ m[13] \in Int
    BY <1>0
  <2>2. IF f[12] > 1 /\ f[12] > 3 THEN f[13] = f[12] - 3 /\ m[13] = m[12] + 8
                                  ELSE f[13] = f[12] /\ m[13] = m[12]
    BY <2>1 DEF Halved
  <2> QED BY <1>13, <2>1, <2>2
<1>15. Near(14, 6, 65532, 265216)
  <2>1. Halved(f, m, 14, 16000) /\ f[14] \in Int /\ m[14] \in Int
    BY <1>0
  <2>2. IF f[13] > 1 /\ f[13] > 1 THEN f[14] = f[13] - 1 /\ m[14] = m[13] + 4
                                  ELSE f[14] = f[13] /\ m[14] = m[13]
    BY <2>1 DEF Halved
  <2> QED BY <1>14, <2>1, <2>2
<1>16. Near(15, 6, 65534, 329216)
  <2>1. Halved(f, m, 15, 16000) /\ f[15] \in Int /\ m[15] \in Int
    BY <1>0
  <2>2. IF f[14] > 1 /\ f[14] > 0 THEN f[15] = f[14] - 0 /\ m[15] = m[14] + 2
                                  ELSE f[15] = f[14] /\ m[15] = m[14]
    BY <2>1 DEF Halved
  <2> QED BY <1>15, <2>1, <2>2
<1>17. m[15] % 65536 = m[15] /\ m[15] \in Nat /\ m[15] <= 65535
  <2>1. \A x \in Int : 0 <= x /\ x <= 65534 => (x % 65536 = x /\ x \in Nat /\ x <= 65535)  OBVIOUS
  <2>2. m[15] \in Int /\ 0 <= m[15] /\ m[15] <= 65534  BY <1>16
  <2> QED BY <2>1, <2>2
<1>18. Sdm(fra, 16000) = m[15]
  BY <1>0, <1>17
<1>19. 65536 * (fra - 6) <= 32000 * m[15] /\ 32000 * m[15] <= 65536 * fra + 329216
  BY <1>16
<1> HIDE DEF Near
<1> QED BY <1>17, <1>18, <1>19

(* By 28.8 MHz they are, to 4 kHz below and 3 above.                       *)
LEMMA SdmOf28 ==
  ASSUME NEW fra \in Nat, fra <= 57599
  PROVE  LET d == Sdm(fra, 28800)
         IN  d \in Nat /\ d <= 65535 /\ 65536 * (fra - 4) <= 57600 * d /\ 57600 * d <= 65536 * fra + 146944
<1>0a. PICK f, m \in [0 .. 15 -> Int] : IsSdm(fra, 28800, f, m)
  <2>1. fra \in Int /\ 28800 \in Refs  BY DEF Refs
  <2>2. HasSdm(fra, 28800)  BY <2>1, SdmSteps
  <2> QED BY <2>2 DEF HasSdm
<1>0. f[0] = fra /\ m[0] = 0 /\ Sdm(fra, 28800) = m[15] % 65536 /\ \A i \in 1 .. 15 : Halved(f, m, i, 28800)
  BY <1>0a DEF IsSdm
<1> DEFINE Near(i, left, top, off) ==
             /\ f[i] \in Int /\ 0 <= f[i] /\ f[i] <= left /\ m[i] \in Int /\ 0 <= m[i] /\ m[i] <= top
             /\ 65536 * (fra - f[i]) <= 57600 * m[i] /\ 57600 * m[i] <= 65536 * (fra - f[i]) + off
<1>1. Near(0, 57599, 0, 0)
  BY <1>0
<1>2. Near(1, 28800, 32768, 0)
  <2>1. Halved(f, m, 1, 28800) /\ f[1] \in Int /\ m[1] \in Int
    BY <1>0
  <2>0. f[0] = fra /\ m[0] = 0 /\ fra \in Int /\ 0 <= fra /\ fra <= 57599
    BY <1>0
  <2>2. IF f[0] > 1 /\ f[0] > 28800 THEN f[1] = f[0] - 28800 /\ m[1] = m[0] + 32768
                                  ELSE f[1] = f[0] /\ m[1] = m[0]
    BY <2>1 DEF Halved
  <2> QED BY <2>0, <2>1, <2>2
<1>3. Near(2, 14400, 49152, 0)
  <2>1. Halved(f, m, 2, 28800) /\ f[2] \in Int /\ m[2] \in Int
    BY <1>0
  <2>2. IF f[1] > 1 /\ f[1] > 14400 THEN f[2] = f[1] - 14400 /\ m[2] = m[1] + 16384
                                  ELSE f[2] = f[1] /\ m[2] = m[1]
    BY <2>1 DEF Halved
  <2> QED BY <1>2, <2>1, <2>2
<1>4. Near(3, 7200, 57344, 0)
  <2>1. Halved(f, m, 3, 28800) /\ f[3] \in Int /\ m[3] \in Int
    BY <1>0
  <2>2. IF f[2] > 1 /\ f[2] > 7200 THEN f[3] = f[2] - 7200 /\ m[3] = m[2] + 8192
                                  ELSE f[3] = f[2] /\ m[3] = m[2]
    BY <2>1 DEF Halved
  <2> QED BY <1>3, <2>1, <2>2
<1>5. Near(4, 3600, 61440, 0)
  <2>1. Halved(f, m, 4, 28800) /\ f[4] \in Int /\ m[4] \in Int
    BY <1>0
  <2>2. IF f[3] > 1 /\ f[3] > 3600 THEN f[4] = f[3] - 3600 /\ m[4] = m[3] + 4096
                                  ELSE f[4] = f[3] /\ m[4] = m[3]
    BY <2>1 DEF Halved
  <2> QED BY <1>4, <2>1, <2>2
<1>6. Near(5, 1800, 63488, 0)
  <2>1. Halved(f, m, 5, 28800) /\ f[5] \in Int /\ m[5] \in Int
    BY <1>0
  <2>2. IF f[4] > 1 /\ f[4] > 1800 THEN f[5] = f[4] - 1800 /\ m[5] = m[4] + 2048
                                  ELSE f[5] = f[4] /\ m[5] = m[4]
    BY <2>1 DEF Halved
  <2> QED BY <1>5, <2>1, <2>2
<1>7. Near(6, 900, 64512, 0)
  <2>1. Halved(f, m, 6, 28800) /\ f[6] \in Int /\ m[6] \in Int
    BY <1>0
  <2>2. IF f[5] > 1 /\ f[5] > 900 THEN f[6] = f[5] - 900 /\ m[6] = m[5] + 1024
                                  ELSE f[6] = f[5] /\ m[6] = m[5]
    BY <2>1 DEF Halved
  <2> QED BY <1>6, <2>1, <2>2
<1>8. Near(7, 450, 65024, 0)
  <2>1. Halved(f, m, 7, 28800) /\ f[7] \in Int /\ m[7] \in Int
    BY <1>0
  <2>2. IF f[6] > 1 /\ f[6] > 450 THEN f[7] = f[6] - 450 /\ m[7] = m[6] + 512
                                  ELSE f[7] = f[6] /\ m[7] = m[6]
    BY <2>1 DEF Halved
  <2> QED BY <1>7, <2>1, <2>2
<1>9. Near(8, 225, 65280, 0)
  <2>1. Halved(f, m, 8, 28800) /\ f[8] \in Int /\ m[8] \in Int
    BY <1>0
  <2>2. IF f[7] > 1 /\ f[7] > 225 THEN f[8] = f[7] - 225 /\ m[8] = m[7] + 256
                                  ELSE f[8] = f[7] /\ m[8] = m[7]
    BY <2>1 DEF Halved
  <2> QED BY <1>8, <2>1, <2>2
<1>10. Near(9, 113, 65408, 32768)
  <2>1. Halved(f, m, 9, 28800) /\ f[9] \in Int /\ m[9] \in Int
    BY <1>0
  <2>2. IF f[8] > 1 /\ f[8] > 112 THEN f[9] = f[8] - 112 /\ m[9] = m[8] + 128
                                  ELSE f[9] = f[8] /\ m[9] = m[8]
    BY <2>1 DEF Halved
  <2> QED BY <1>9, <2>1, <2>2
<1>11. Near(10, 57, 65472, 49152)
  <2>1. Halved(f, m, 10, 28800) /\ f[10] \in Int /\ m[10] \in Int
    BY <1>0
  <2>2. IF f[9] > 1 /\ f[9] > 56 THEN f[10] = f[9] - 56 /\ m[10] = m[9] + 64
                                  ELSE f[10] = f[9] /\ m[10] = m[9]
    BY <2>1 DEF Halved
  <2> QED BY <1>10, <2>1, <2>2
<1>12. Near(11, 29, 65504, 57344)
  <2>1. Halved(f, m, 11, 28800) /\ f[11] \in Int /\ m[11] \in Int
    BY <1>0
  <2>2. IF f[10] > 1 /\ f[10] > 28 THEN f[11] = f[10] - 28 /\ m[11] = m[10] + 32
                                  ELSE f[11] = f[10] /\ m[11] = m[10]
    BY <2>1 DEF Halved
  <2> QED BY <1>11, <2>1, <2>2
<1>13. Near(12, 15, 65520, 61440)
  <2>1. Halved(f, m, 12, 28800) /\ f[12] \in Int /\ m[12] \in Int
    BY <1>0
  <2>2. IF f[11] > 1 /\ f[11] > 14 THEN f[12] = f[11] - 14 /\ m[12] = m[11] + 16
                                  ELSE f[12] = f[11] /\ m[12] = m[11]
    BY <2>1 DEF Halved
  <2> QED BY <1>12, <2>1, <2>2
<1>14. Near(13, 8, 65528, 63488)
  <2>1. Halved(f, m, 13, 28800) /\ f[13] \in Int /\ m[13] \in Int
    BY <1>0
  <2>2. IF f[12] > 1 /\ f[12] > 7 THEN f[13] = f[12] - 7 /\ m[13] = m[12] + 8
                                  ELSE f[13] = f[12] /\ m[13] = m[12]
    BY <2>1 DEF Halved
  <2> QED BY <1>13, <2>1, <2>2
<1>15. Near(14, 5, 65532, 97280)
  <2>1. Halved(f, m, 14, 28800) /\ f[14] \in Int /\ m[14] \in Int
    BY <1>0
  <2>2. IF f[13] > 1 /\ f[13] > 3 THEN f[14] = f[13] - 3 /\ m[14] = m[13] + 4
                                  ELSE f[14] = f[13] /\ m[14] = m[13]
    BY <2>1 DEF Halved
  <2> QED BY <1>14, <2>1, <2>2
<1>16. Near(15, 4, 65534, 146944)
  <2>1. Halved(f, m, 15, 28800) /\ f[15] \in Int /\ m[15] \in Int
    BY <1>0
  <2>2. IF f[14] > 1 /\ f[14] > 1 THEN f[15] = f[14] - 1 /\ m[15] = m[14] + 2
                                  ELSE f[15] = f[14] /\ m[15] = m[14]
    BY <2>1 DEF Halved
  <2> QED BY <1>15, <2>1, <2>2
<1>17. m[15] % 65536 = m[15] /\ m[15] \in Nat /\ m[15] <= 65535
  <2>1. \A x \in Int : 0 <= x /\ x <= 65534 => (x % 65536 = x /\ x \in Nat /\ x <= 65535)  OBVIOUS
  <2>2. m[15] \in Int /\ 0 <= m[15] /\ m[15] <= 65534  BY <1>16
  <2> QED BY <2>1, <2>2
<1>18. Sdm(fra, 28800) = m[15]
  BY <1>0, <1>17
<1>19. 65536 * (fra - 4) <= 57600 * m[15] /\ 57600 * m[15] <= 65536 * fra + 146944
  BY <1>16
<1> HIDE DEF Near
<1> QED BY <1>17, <1>18, <1>19

-----------------------------------------------------------------------------
(* The loop's numbers (Tuner).                                             *)

(* The dividers.                                                           *)
IsPower(p, k) ==
  \/ (k = 1 /\ p = 2) \/ (k = 2 /\ p = 4) \/ (k = 3 /\ p = 8)
  \/ (k = 4 /\ p = 16) \/ (k = 5 /\ p = 32) \/ (k = 6 /\ p = 64)

(* The powers of two that a divider can be.                                *)
LEMMA Powers ==
  ASSUME NEW k \in 1 .. 6, NEW p, p = 2^k
  PROVE  IsPower(p, k)
<1>0. k = 1 \/ k = 2 \/ k = 3 \/ k = 4 \/ k = 5 \/ k = 6
  OBVIOUS
<1>1. k = 1 => p = 2
  OBVIOUS
<1>2. k = 2 => p = 4
  OBVIOUS
<1>3. k = 3 => p = 8
  OBVIOUS
<1>4. k = 4 => p = 16
  OBVIOUS
<1>5. k = 5 => p = 32
  OBVIOUS
<1>6. k = 6 => p = 64
  OBVIOUS
<1> QED BY <1>0, <1>1, <1>2, <1>3, <1>4, <1>5, <1>6, Zenon DEF IsPower

(* The divider is written as its logarithm less one.                       *)
LEMMA DivNumIs ==
  ASSUME NEW k \in 1 .. 6
  PROVE  DivNum(2^k) \in 0 .. 5 /\ DivNum(2^k) + 1 = k
<1> DEFINE n == CHOOSE n \in 0 .. 5 : 2^k = 2^(n + 1)
<1>1. k - 1 \in 0 .. 5 /\ 2^k = 2^((k - 1) + 1)
  OBVIOUS
<1>2. n \in 0 .. 5 /\ 2^k = 2^(n + 1)
  BY <1>1
<1>3. DivNum(2^k) = n
  <2>1. 2^k # 128
    <3>1. PICK p : p = 2^k  OBVIOUS
    <3>2. IsPower(p, k)  BY <3>1, Powers, Zenon
    <3>3. p # 128  BY <3>2 DEF IsPower
    <3> QED BY <3>1, <3>3, Zenon
  <2> QED BY <2>1 DEF DivNum
<1> HIDE DEF n
<1>4. n + 1 = k
  <2>1. PICK j : j = n + 1  OBVIOUS
  <2>2. j \in 1 .. 6 /\ 2^k = 2^j  BY <1>2, <2>1
  <2>3. k = j
    <3>1. PICK p : p = 2^k  OBVIOUS
    <3>2. p = 2^j  BY <2>2, <3>1, Zenon
    <3>3. k \in 1 .. 6 /\ j \in 1 .. 6  BY <2>2
    <3>4. IsPower(p, k) /\ IsPower(p, j)  BY <3>1, <3>2, <3>3, Powers, Zenon
    <3> QED BY <3>4 DEF IsPower
  <2> QED BY <2>1, <2>3
<1> QED BY <1>2, <1>3, <1>4

(* A tunable frequency has a divider that brings it into the band.         *)
LEMMA DividerIs ==
  ASSUME NEW lo \in Nat, Tunable(lo)
  PROVE  \E k \in 1 .. 6 : Divider(lo) = 2^k /\ InBand(lo * 2^k)
BY DEF Tunable, Divider

(* Seven bits of the integer go as they are.                               *)
LEMMA PackedIs ==
  ASSUME NEW n \in Nat, 13 <= n, n <= 127
  PROVE  Packed(n) = n
<1> DEFINE ni == (n - 13) \div 4
           si == (n - 4 * ni - 13) % 4
<1>1. ni \in Nat /\ 4 * ni <= n - 13 /\ n - 13 < 4 * ni + 4 /\ ni <= 28
  OBVIOUS
<1>2. Packed(n) = 4 * (ni % 64) + (((ni \div 64) + si) % 4) + 13
  BY DEF Packed
<1> HIDE DEF ni
<1>3. si = n - 4 * ni - 13 /\ si \in 0 .. 3
  BY <1>1
<1>4. ni % 64 = ni /\ ni \div 64 = 0
  BY <1>1
<1> HIDE DEF si
<1>5. (0 + si) % 4 = si
  BY <1>3
<1> QED BY <1>1, <1>2, <1>3, <1>4, <1>5

(* The words that make up a value.                                         *)
LEMMA BytesIs ==
  ASSUME NEW m \in Nat, NEW hi, hi = m \div 256, NEW lo, lo = m % 256
  PROVE  hi \in Nat /\ lo \in Nat /\ 256 * hi + lo = m
<1>1. PICK q \in Nat : q = m \div 256 /\ 256 * q <= m /\ m < 256 * q + 256
  OBVIOUS
<1>2. PICK b \in Nat : b = m - 256 * q
  BY <1>1
<1>3. b < 256 /\ m = 256 * q + b
  BY <1>1, <1>2
<1>4. m % 256 = b
  BY <1>3
<1>5. hi = q /\ lo = b
  BY <1>1, <1>4
<1> QED BY <1>3, <1>5

(* With the numbers of a frequency the oscillator is near it.              *)
LEMMA VcoNear ==
  ASSUME NEW v \in Nat, InBand(v), NEW ref \in Refs, NEW n, n = (v \div (2 * ref)) % 256,
         NEW m, m = Sdm(v - 2 * ref * n, ref), NEW r, r.nint = Packed(n), r.sdm_hi = m \div 256, r.sdm_lo = m % 256
  PROVE  n \in Nat /\ n <= 127 /\ (ref = 28800 => n <= 63)
         /\ Vco(r, ref) \in Int /\ v - 6 <= Vco(r, ref) /\ Vco(r, ref) <= v + 5
<1>1. CASE ref = 16000
  <2>1. v >= 1770000 /\ v < 3540000
    BY DEF InBand, VcoMin
  <2>2. PICK q \in Nat : q = v \div 32000 /\ 32000 * q <= v /\ v < 32000 * q + 32000
    BY <2>1
  <2>3. q >= 55 /\ q <= 110
    BY <2>1, <2>2
  <2>4. n = q
    BY <1>1, <2>2, <2>3
  <2>5. Packed(n) = n
    BY <2>3, <2>4, PackedIs
  <2>6. v - 32000 * n \in Nat /\ v - 32000 * n <= 31999
    BY <2>2, <2>4
  <2>7. PICK fra \in Nat : fra = v - 32000 * n /\ fra <= 31999
    BY <2>6
  <2>8. m \in Nat /\ 65536 * (fra - 6) <= 32000 * m /\ 32000 * m <= 65536 * fra + 329216
    <3>1. m = Sdm(fra, 16000)  BY <1>1, <2>7
    <3> QED BY <2>7, <3>1, SdmOf16
  <2>9. 256 * r.sdm_hi + r.sdm_lo = m
    BY <2>8, BytesIs
  <2>10. PICK p \in Int : p = (2000 * m) \div 4096 /\ 4096 * p <= 2000 * m /\ 2000 * m < 4096 * p + 4096
    BY <2>8
  <2>11. fra - 6 <= p /\ p <= fra + 5
    BY <2>7, <2>8, <2>10
  <2>12. Vco(r, ref) = 32000 * n + p
    BY <1>1, <2>5, <2>9, <2>10 DEF Vco
  <2> QED BY <1>1, <2>3, <2>4, <2>7, <2>11, <2>12
<1>2. CASE ref = 28800
  <2>1. v >= 1770000 /\ v < 3540000
    BY DEF InBand, VcoMin
  <2>2. PICK q \in Nat : q = v \div 57600 /\ 57600 * q <= v /\ v < 57600 * q + 57600
    BY <2>1
  <2>3. q >= 30 /\ q <= 61
    BY <2>1, <2>2
  <2>4. n = q
    BY <1>2, <2>2, <2>3
  <2>5. Packed(n) = n
    BY <2>3, <2>4, PackedIs
  <2>6. v - 57600 * n \in Nat /\ v - 57600 * n <= 57599
    BY <2>2, <2>4
  <2>7. PICK fra \in Nat : fra = v - 57600 * n /\ fra <= 57599
    BY <2>6
  <2>8. m \in Nat /\ 65536 * (fra - 4) <= 57600 * m /\ 57600 * m <= 65536 * fra + 146944
    <3>1. m = Sdm(fra, 28800)  BY <1>2, <2>7
    <3> QED BY <2>7, <3>1, SdmOf28
  <2>9. 256 * r.sdm_hi + r.sdm_lo = m
    BY <2>8, BytesIs
  <2>10. PICK p \in Int : p = (3600 * m) \div 4096 /\ 4096 * p <= 3600 * m /\ 3600 * m < 4096 * p + 4096
    BY <2>8
  <2>11. fra - 6 <= p /\ p <= fra + 5
    BY <2>7, <2>8, <2>10
  <2>12. Vco(r, ref) = 57600 * n + p
    BY <1>2, <2>5, <2>9, <2>10 DEF Vco
  <2> QED BY <1>2, <2>3, <2>4, <2>7, <2>11, <2>12
<1> QED BY <1>1, <1>2 DEF Refs

(* And so is what comes out of the divider.                                *)
LEMMA LoNear ==
  ASSUME NEW lo \in Nat, NEW k \in 1 .. 6, NEW r, r.div + 1 = k, NEW ref, NEW x \in Int, x = Vco(r, ref),
         lo * 2^k - 6 <= x, x <= lo * 2^k + 5
  PROVE  Gap(Lo(r, ref), lo) <= 4
<1>1. Lo(r, ref) = x \div 2^k
  BY DEF Lo
<1>2. \A b \in {2, 4, 8, 16, 32, 64} : lo * b - 6 <= x /\ x <= lo * b + 5 => Gap(x \div b, lo) <= 4
  BY DEF Gap
<1>3. 2^k \in {2, 4, 8, 16, 32, 64}
  <2>1. PICK p : p = 2^k  OBVIOUS
  <2>2. IsPower(p, k)  BY <2>1, Powers, Zenon
  <2>3. p \in {2, 4, 8, 16, 32, 64}  BY <2>2 DEF IsPower
  <2> QED BY <2>1, <2>3, Zenon
<1> QED BY <1>1, <1>2, <1>3

(* Reading writes nothing.                                                 *)
LEMMA PollIs == Poll \in Steps /\ Touched(Poll) = {} /\ DOMAIN Poll.set = {}
<1>1. Poll.regs = {} /\ Poll.set = <<>> /\ Poll = [regs |-> {}, set |-> <<>>]
  BY DEF Poll, Block
<1>2. DOMAIN <<>> = {} /\ <<>> \in [{} -> Int \cup BOOLEAN]
  OBVIOUS
<1>3. <<>> \in SomeFields
  BY <1>2 DEF SomeFields
<1> QED BY <1>1, <1>2, <1>3 DEF Steps, Touched

(* Writes of nothing that the model keeps are reads.                       *)
LEMMA BlankIs ==
  ASSUME NEW n \in Nat
  PROVE  Blank(n) \in Seq(Steps) /\ Len(Blank(n)) = n /\ \A i \in 1 .. n : Blank(n)[i] = Poll
BY PollIs DEF Blank

(* A write of one register writes the fields of that register.             *)
LEMMA WrIs ==
  ASSUME NEW reg \in Nat, NEW F \in SUBSET Names, NEW set \in [F -> Int \cup BOOLEAN]
  PROVE  Wr(reg, set) \in Steps /\ Touched(Wr(reg, set)) = Fields(reg) /\ Wr(reg, set).set = set
<1>1. Wr(reg, set).regs = {reg} /\ Wr(reg, set).set = set /\ Wr(reg, set) = [regs |-> {reg}, set |-> set]
  BY DEF Wr
<1>2. set \in SomeFields
  BY DEF SomeFields
<1>3. UNION {Fields(r) : r \in {reg}} = Fields(reg)
  OBVIOUS
<1> QED BY <1>1, <1>2, <1>3 DEF Steps, Touched

(* The lists that occur.                                                  *)
IsFour(ws, a, b, c, e) ==
  /\ ws \in Seq(Steps) /\ Len(ws) = 6
  /\ ws[1] = a /\ ws[2] = b /\ ws[3] = c /\ ws[4] = e /\ ws[5] = Poll /\ ws[6] = Poll
IsSix(ws, a) == ws \in Seq(Steps) /\ Len(ws) = 6 /\ ws[6] = a /\ \A i \in 1 .. 5 : ws[i] = Poll

(* Four writes, read as a sequence.                                        *)
LEMMA Four ==
  ASSUME NEW a \in Steps, NEW b \in Steps, NEW c \in Steps, NEW e \in Steps, NEW ws, ws = <<a, b, c, e>> \o Blank(2)
  PROVE  IsFour(ws, a, b, c, e)
BY BlankIs DEF IsFour
(* Five reads and a write, read as a sequence.                             *)
LEMMA Six ==
  ASSUME NEW a \in Steps, NEW ws, ws = Blank(5) \o <<a>>
  PROVE  IsSix(ws, a)
BY BlankIs DEF IsSix


(* Reading, and writing of what nothing depends on.                        *)
LEMMA QuietIs ==
  ASSUME NEW d \in Devices, NEW ws \in Seq(Steps), \A i \in 1 .. Len(ws) : ws[i] = Poll, NEW e, e = Writes(d, ws)
  PROVE  e \in Devices /\ Ran(e, d) /\ e.regs = d.regs /\ e.shadow = d.shadow
<1>1. e \in Devices /\ Ran(e, d)
  BY WritesIs, Zenon
<1>2. \A f \in Names : \A i \in 1 .. Len(ws) : f \notin Touched(ws[i]) /\ f \notin DOMAIN ws[i].set
  BY PollIs
<1>3. \A f \in Names : e.regs[f] = d.regs[f] /\ e.shadow[f] = d.shadow[f]
  BY <1>2, WritesIs, Zenon
<1> QED BY <1>1, <1>3, DeviceTypes DEF Images

(* Reads alone change nothing but the fuse.                                *)
LEMMA QuietBlank ==
  ASSUME NEW d \in Devices, NEW n \in Nat, NEW e, e = Writes(d, Blank(n))
  PROVE  e \in Devices /\ Ran(e, d) /\ e.regs = d.regs /\ e.shadow = d.shadow
BY BlankIs, QuietIs, Zenon

(* No transfer at all changes nothing.                                     *)
LEMMA QuietNone ==
  ASSUME NEW d \in Devices, NEW e, e = Writes(d, <<>>)
  PROVE  e \in Devices /\ Ran(e, d) /\ e.regs = d.regs /\ e.shadow = d.shadow
<1>1. <<>> \in Seq(Steps) /\ \A i \in 1 .. Len(<<>>) : <<>>[i] = Poll
  OBVIOUS
<1> QED BY <1>1, QuietIs, Zenon

(* What the loop leaves alone.                                             *)
PllNames == {"div", "nint", "sdm_hi", "sdm_lo"}
PllRan(e, d) ==
  /\ SameRest(e, d) /\ e.input = d.input
  /\ d.trouble => e.trouble
  /\ e.ok => d.ok
  /\ \A f \in Names \ PllNames : e.regs[f] = d.regs[f] /\ e.shadow[f] = d.shadow[f]
  /\ e.ok /\ d.shadow = d.regs => e.shadow = e.regs

(* Two operations of the loop are one.                                     *)
LEMMA PllRanTrans ==
  ASSUME NEW d, NEW e, NEW x, PllRan(e, d), PllRan(x, e)
  PROVE  PllRan(x, d)
<1>1. SameRest(x, d) /\ x.input = d.input
  BY DEF PllRan, SameRest
<1>2. (d.trouble => x.trouble) /\ (x.ok => d.ok)
  BY Zenon DEF PllRan
<1>3. \A f \in Names \ PllNames : x.regs[f] = d.regs[f] /\ x.shadow[f] = d.shadow[f]
  BY DEF PllRan
<1>4. x.ok /\ d.shadow = d.regs => x.shadow = x.regs
  BY Zenon DEF PllRan
<1> QED BY <1>1, <1>2, <1>3, <1>4 DEF PllRan

(* The numbers are in the chip.                                            *)
IsSet(regs, lo, ref) ==
  \E k \in 1 .. 6 : /\ InBand(lo * 2^k) /\ regs.div + 1 = k /\ Vco(regs, ref) \in Int
                    /\ lo * 2^k - 6 <= Vco(regs, ref) /\ Vco(regs, ref) <= lo * 2^k + 5

(* Nothing after the k-th write goes to field f.                           *)
LastOf(ws, k, f) ==
  /\ k \in 1 .. Len(ws) /\ f \in DOMAIN ws[k].set /\ f \in Touched(ws[k])
  /\ \A j \in 1 .. Len(ws) : j > k => f \notin DOMAIN ws[j].set

(* The numbers that go last are the ones that stay.                        *)
LEMMA LastIs ==
  ASSUME NEW d \in Devices, NEW ws \in Seq(Steps), NEW e, e = Writes(d, ws), e.ok, NEW k, NEW f \in Names, LastOf(ws, k, f)
  PROVE  e.regs[f] = ws[k].set[f]
<1>1. Writes(d, ws).ok
  OBVIOUS
<1>2. k \in 1 .. Len(ws) /\ f \in DOMAIN ws[k].set /\ f \in Touched(ws[k])
      /\ \A j \in 1 .. Len(ws) : j > k => f \notin DOMAIN ws[j].set
  BY DEF LastOf
<1> QED BY <1>1, <1>2, WritesLast

(* The integers that are written.                                          *)
LEMMA NumbersAreInts ==
  ASSUME NEW lo \in Nat, NEW ref \in Refs
  PROVE  /\ Nint(lo, ref) \in Nat /\ Packed(Nint(lo, ref)) \in Int /\ DivNum(Divider(lo)) \in Int
         /\ Divider(lo) \in Nat
         /\ Sdm(lo * Divider(lo) - 2 * ref * Nint(lo, ref), ref) \in Int
<1>1. Divider(lo) \in Nat /\ DivNum(Divider(lo)) \in Int
  <2>1. CASE Tunable(lo)
    <3>1. PICK k \in 1 .. 6 : Divider(lo) = 2^k  BY <2>1, DividerIs
    <3>2. DivNum(2^k) \in 0 .. 5  BY DivNumIs
    <3>3. PICK p : p = 2^k  OBVIOUS
    <3>4. IsPower(p, k)  BY <3>3, Powers, Zenon
    <3>5. p \in Nat  BY <3>4 DEF IsPower
    <3>6. \A x \in 0 .. 5 : x \in Int  OBVIOUS
    <3> QED BY <3>1, <3>2, <3>3, <3>5, <3>6, Zenon
  <2>2. CASE ~ Tunable(lo)
    <3>1. Divider(lo) = 128  BY <2>2 DEF Tunable, Divider
    <3>2. DivNum(128) = 0  BY DEF DivNum
    <3> QED BY <3>1, <3>2
  <2> QED BY <2>1, <2>2
<1>2. PICK v \in Nat : v = lo * Divider(lo)
  BY <1>1
<1>3. Nint(lo, ref) \in Nat
  <2>1. Nint(lo, ref) = (v \div (2 * ref)) % 256  BY <1>2 DEF Nint
  <2> QED BY <2>1 DEF Refs
<1>4. PICK n \in Nat : n = Nint(lo, ref)
  BY <1>3
<1>5. Packed(n) \in Int
  BY DEF Packed
<1>6. PICK fra \in Int : fra = v - 2 * ref * n
  BY DEF Refs
<1>7. Sdm(fra, ref) \in Int
  <2>1. HasSdm(fra, ref)  BY SdmSteps
  <2>2. PICK m \in [0 .. 15 -> Int] : Sdm(fra, ref) = m[15] % 65536  BY <2>1 DEF HasSdm, IsSdm
  <2>3. m[15] \in Int  OBVIOUS
  <2> QED BY <2>2, <2>3
<1> QED BY <1>1, <1>2, <1>3, <1>4, <1>5, <1>6, <1>7, Zenon

(* r82xx_set_pll_ref() up to where it looks whether the loop has locked.   *)
PllBefore(d, lo) == Writes(d, Blank(5) \o <<Wr(16, [div |-> DivNum(Divider(lo))])>>)
PllValid(d, lo, ref) == Nint(lo, ref) <= IF d.type = "R828D" THEN 127 ELSE 63
PllGo(d, lo, ref) == [PllBefore(d, lo) EXCEPT !.ok = @ /\ PllValid(d, lo, ref)]
PllSdm(lo, ref) == Sdm(lo * Divider(lo) - 2 * ref * Nint(lo, ref), ref)
PllSet(d, lo, ref) ==
  Writes(PllGo(d, lo, ref),
         <<Wr(20, [nint |-> Packed(Nint(lo, ref))]), Poll,
           Wr(22, [sdm_hi |-> PllSdm(lo, ref) \div 256]), Wr(21, [sdm_lo |-> PllSdm(lo, ref) % 256])>> \o Blank(2))

(* r82xx_set_pll_ref() in the parts that follow.                           *)
LEMMA PllParts ==
  ASSUME NEW d, NEW lo, NEW ref
  PROVE  SetPllRef(d, lo, ref) = Settled(Nudged(PllSet(d, lo, ref)))
BY DEF SetPllRef, PllSet, PllGo, PllBefore, PllValid, PllSdm

(* A run of writes that touch nothing but the loop's fields.               *)
LEMMA PllWrites ==
  ASSUME NEW d \in Devices, NEW ws \in Seq(Steps), NEW e, e = Writes(d, ws),
         \A i \in 1 .. Len(ws) : DOMAIN ws[i].set = Touched(ws[i]) /\ Touched(ws[i]) \subseteq PllNames
  PROVE  e \in Devices /\ PllRan(e, d) /\ e.xtal = d.xtal /\ e.has_lock = d.has_lock /\ (d.ok /\ ~ e.trouble => e.ok)
<1>1. e \in Devices /\ Ran(e, d)
  BY WritesIs, Zenon
<1>2. \A f \in Names \ PllNames : e.regs[f] = d.regs[f] /\ e.shadow[f] = d.shadow[f]
  <2> SUFFICES ASSUME NEW f \in Names, f \notin PllNames  PROVE e.regs[f] = d.regs[f] /\ e.shadow[f] = d.shadow[f]
    OBVIOUS
  <2>1. \A i \in 1 .. Len(ws) : f \notin Touched(ws[i]) /\ f \notin DOMAIN ws[i].set  BY Zenon
  <2> QED BY <2>1, WritesIs, Zenon
<1>3. e.ok /\ d.shadow = d.regs => e.shadow = e.regs
  <2> SUFFICES ASSUME e.ok, d.shadow = d.regs  PROVE e.shadow = e.regs
    OBVIOUS
  <2>1. \A i \in 1 .. Len(ws) : DOMAIN ws[i].set \subseteq Touched(ws[i])  BY Zenon
  <2>2. \A f \in Names : d.shadow[f] = d.regs[f]  OBVIOUS
  <2> QED BY <2>1, <2>2, WritesMatch, Zenon
<1> QED BY <1>1, <1>2, <1>3 DEF PllRan, Ran, SameBut

(* The fields of the loop are the image's.                                 *)
LEMMA PllFieldIs ==
  /\ Fields(16) = {"div"} /\ Fields(20) = {"nint"} /\ Fields(22) = {"sdm_hi"} /\ Fields(21) = {"sdm_lo"}
  /\ Fields(5) = {"input", "lna_auto", "lna"} /\ Fields(7) = {"mix_auto", "mix"} /\ Fields(12) = {"vga"}
  /\ Fields(10) = {"filter"} /\ Fields(11) = {"corner"} /\ Fields(15) = {"clock"}
BY DEF Fields

(* A write of a field of the loop touches the loop alone.                  *)
LEMMA PllWr ==
  ASSUME NEW v \in Int
  PROVE  /\ Wr(16, [div |-> v]) \in Steps /\ Touched(Wr(16, [div |-> v])) = {"div"} /\ Wr(16, [div |-> v]).set = [div |-> v]
         /\ Wr(20, [nint |-> v]) \in Steps /\ Touched(Wr(20, [nint |-> v])) = {"nint"} /\ Wr(20, [nint |-> v]).set = [nint |-> v]
         /\ Wr(22, [sdm_hi |-> v]) \in Steps /\ Touched(Wr(22, [sdm_hi |-> v])) = {"sdm_hi"} /\ Wr(22, [sdm_hi |-> v]).set = [sdm_hi |-> v]
         /\ Wr(21, [sdm_lo |-> v]) \in Steps /\ Touched(Wr(21, [sdm_lo |-> v])) = {"sdm_lo"} /\ Wr(21, [sdm_lo |-> v]).set = [sdm_lo |-> v]
<1>1. [div |-> v] \in [{"div"} -> Int \cup BOOLEAN] /\ {"div"} \in SUBSET Names
  BY DEF Names
<1>2. [nint |-> v] \in [{"nint"} -> Int \cup BOOLEAN] /\ {"nint"} \in SUBSET Names
  BY DEF Names
<1>3. [sdm_hi |-> v] \in [{"sdm_hi"} -> Int \cup BOOLEAN] /\ {"sdm_hi"} \in SUBSET Names
  BY DEF Names
<1>4. [sdm_lo |-> v] \in [{"sdm_lo"} -> Int \cup BOOLEAN] /\ {"sdm_lo"} \in SUBSET Names
  BY DEF Names
<1>5. 16 \in Nat /\ 20 \in Nat /\ 21 \in Nat /\ 22 \in Nat
  OBVIOUS
<1>6. Wr(16, [div |-> v]) \in Steps /\ Touched(Wr(16, [div |-> v])) = {"div"} /\ Wr(16, [div |-> v]).set = [div |-> v]
  <2>1. Fields(16) = {"div"}  BY PllFieldIs
  <2> QED BY <1>1, <1>5, <2>1, WrIs, Zenon
<1>7. Wr(20, [nint |-> v]) \in Steps /\ Touched(Wr(20, [nint |-> v])) = {"nint"} /\ Wr(20, [nint |-> v]).set = [nint |-> v]
  <2>1. Fields(20) = {"nint"}  BY PllFieldIs
  <2> QED BY <1>2, <1>5, <2>1, WrIs, Zenon
<1>8. Wr(22, [sdm_hi |-> v]) \in Steps /\ Touched(Wr(22, [sdm_hi |-> v])) = {"sdm_hi"} /\ Wr(22, [sdm_hi |-> v]).set = [sdm_hi |-> v]
  <2>1. Fields(22) = {"sdm_hi"}  BY PllFieldIs
  <2> QED BY <1>3, <1>5, <2>1, WrIs, Zenon
<1>9. Wr(21, [sdm_lo |-> v]) \in Steps /\ Touched(Wr(21, [sdm_lo |-> v])) = {"sdm_lo"} /\ Wr(21, [sdm_lo |-> v]).set = [sdm_lo |-> v]
  <2>1. Fields(21) = {"sdm_lo"}  BY PllFieldIs
  <2> QED BY <1>4, <1>5, <2>1, WrIs, Zenon
<1> QED BY <1>6, <1>7, <1>8, <1>9, Zenon

(* First the divider is written.                                           *)
LEMMA PllBeforeIs ==
  ASSUME NEW d \in Devices, NEW lo \in Nat, NEW e, e = PllBefore(d, lo)
  PROVE  e \in Devices /\ PllRan(e, d) /\ e.xtal = d.xtal /\ e.has_lock = d.has_lock /\ (d.ok /\ ~ e.trouble => e.ok)
         /\ (e.ok => e.regs.div = DivNum(Divider(lo)))
<1>1. PICK v \in Int : v = DivNum(Divider(lo))
  BY NumbersAreInts DEF Refs
<1>2. PICK w : w = Wr(16, [div |-> v])
  OBVIOUS
<1>3. w \in Steps /\ Touched(w) = {"div"} /\ w.set = [div |-> v]
  BY <1>2, PllWr, Zenon
<1>4. PICK ws : ws = Blank(5) \o <<w>>
  OBVIOUS
<1>5. ws \in Seq(Steps) /\ Len(ws) = 6 /\ ws[6] = w /\ \A i \in 1 .. 5 : ws[i] = Poll
  <2>1. IsSix(ws, w)  BY <1>3, <1>4, Six
  <2> QED BY <2>1 DEF IsSix
<1>6. e = Writes(d, ws)
  BY <1>1, <1>2, <1>4 DEF PllBefore
<1>7. \A i \in 1 .. Len(ws) : DOMAIN ws[i].set = Touched(ws[i]) /\ Touched(ws[i]) \subseteq PllNames
  <2>1. DOMAIN w.set = {"div"}  BY <1>3
  <2>2. \A i \in 1 .. 6 : i = 6 \/ i \in 1 .. 5  OBVIOUS
  <2> QED BY <1>3, <1>5, <2>1, <2>2, PollIs DEF PllNames
<1>8. e.ok => e.regs.div = v
  <2>1. LastOf(ws, 6, "div") /\ "div" \in Names
    BY <1>3, <1>5 DEF LastOf, Names
  <2>2. ASSUME e.ok  PROVE e.regs["div"] = ws[6].set["div"]
    BY <1>5, <1>6, <2>1, <2>2, LastIs
  <2> QED BY <1>3, <1>5, <2>2
<1> QED BY <1>1, <1>5, <1>6, <1>7, <1>8, PllWrites, Zenon

(* Then a divider that is too large stops it.                              *)
LEMMA PllGoIs ==
  ASSUME NEW d \in Devices, NEW lo \in Nat, NEW ref \in Refs, NEW e, e = PllGo(d, lo, ref)
  PROVE  e \in Devices /\ PllRan(e, d) /\ e.xtal = d.xtal /\ e.has_lock = d.has_lock
         /\ (d.ok /\ ~ e.trouble /\ PllValid(d, lo, ref) => e.ok) /\ (e.ok => PllValid(d, lo, ref))
         /\ (e.ok => e.regs.div = DivNum(Divider(lo)))
<1> DEFINE b == PllBefore(d, lo)
           go == b.ok /\ PllValid(d, lo, ref)
<1>1. b \in Devices /\ PllRan(b, d) /\ b.xtal = d.xtal /\ b.has_lock = d.has_lock /\ (d.ok /\ ~ b.trouble => b.ok)
      /\ (b.ok => b.regs.div = DivNum(Divider(lo)))
  BY PllBeforeIs, Zenon
<1>2. e = [b EXCEPT !.ok = go]
  <2>1. b.ok \in BOOLEAN  BY <1>1, DeviceTypes
  <2> QED BY <1>1 DEF PllGo, Devices
<1>3. go \in BOOLEAN
  OBVIOUS
<1>4. go <=> b.ok /\ PllValid(d, lo, ref)
  OBVIOUS
<1> HIDE DEF b, go
<1>5. e \in Devices
  BY <1>1, <1>2, <1>3 DEF Devices
<1>6. SameRest(e, b) /\ e.input = b.input /\ e.xtal = b.xtal /\ e.has_lock = b.has_lock /\ e.regs = b.regs /\ e.shadow = b.shadow
  BY <1>1, <1>2, <1>3 DEF Devices, SameRest
<1>7. e.ok = go /\ e.trouble = b.trouble
  BY <1>1, <1>2, <1>3 DEF Devices
<1>8. PllRan(e, b)
  BY <1>4, <1>6, <1>7 DEF PllRan
<1>9. PllRan(e, d)
  BY <1>1, <1>8, PllRanTrans
<1> QED BY <1>1, <1>4, <1>5, <1>6, <1>7, <1>9

(* Then the integer and the fraction: in the end the registers have them.  *)
LEMMA PllSetIs ==
  ASSUME NEW d \in Devices, NEW lo \in Nat, NEW ref \in Refs, NEW e, e = PllSet(d, lo, ref)
  PROVE  /\ e \in Devices /\ PllRan(e, d) /\ e.xtal = d.xtal /\ e.has_lock = d.has_lock
         /\ d.ok /\ ~ e.trouble /\ PllValid(d, lo, ref) => e.ok
         /\ e.ok => PllValid(d, lo, ref)
         /\ e.ok => /\ e.regs.div = DivNum(Divider(lo)) /\ e.regs.nint = Packed(Nint(lo, ref))
                    /\ e.regs.sdm_hi = PllSdm(lo, ref) \div 256 /\ e.regs.sdm_lo = PllSdm(lo, ref) % 256
<1>1. PICK g : g = PllGo(d, lo, ref)
  OBVIOUS
<1>2. /\ g \in Devices /\ PllRan(g, d) /\ g.xtal = d.xtal /\ g.has_lock = d.has_lock
      /\ (d.ok /\ ~ g.trouble /\ PllValid(d, lo, ref) => g.ok) /\ (g.ok => PllValid(d, lo, ref))
      /\ (g.ok => g.regs.div = DivNum(Divider(lo)))
  BY <1>1, PllGoIs
<1>3. PICK n \in Int : n = Packed(Nint(lo, ref))
  BY NumbersAreInts
<1>4. PICK m \in Int : m = PllSdm(lo, ref)
  BY NumbersAreInts DEF PllSdm
<1>5. PICK hi \in Int : hi = m \div 256
  OBVIOUS
<1>6. PICK low \in Int : low = m % 256
  OBVIOUS
<1>7. PICK w20, w22, w21 : w20 = Wr(20, [nint |-> n]) /\ w22 = Wr(22, [sdm_hi |-> hi]) /\ w21 = Wr(21, [sdm_lo |-> low])
  OBVIOUS
<1>8. /\ w20 \in Steps /\ Touched(w20) = {"nint"} /\ w20.set = [nint |-> n]
      /\ w22 \in Steps /\ Touched(w22) = {"sdm_hi"} /\ w22.set = [sdm_hi |-> hi]
      /\ w21 \in Steps /\ Touched(w21) = {"sdm_lo"} /\ w21.set = [sdm_lo |-> low]
  <2>1. w20 \in Steps /\ Touched(w20) = {"nint"} /\ w20.set = [nint |-> n]  BY <1>7, PllWr, Zenon
  <2>2. w22 \in Steps /\ Touched(w22) = {"sdm_hi"} /\ w22.set = [sdm_hi |-> hi]  BY <1>7, PllWr, Zenon
  <2>3. w21 \in Steps /\ Touched(w21) = {"sdm_lo"} /\ w21.set = [sdm_lo |-> low]  BY <1>7, PllWr, Zenon
  <2> QED BY <2>1, <2>2, <2>3
<1>9. PICK ws : ws = <<w20, Poll, w22, w21>> \o Blank(2)
  OBVIOUS
<1>10. IsFour(ws, w20, Poll, w22, w21)
  BY <1>8, <1>9, PollIs, Four
<1>11. ws \in Seq(Steps) /\ Len(ws) = 6 /\ ws[1] = w20 /\ ws[2] = Poll /\ ws[3] = w22 /\ ws[4] = w21 /\ ws[5] = Poll /\ ws[6] = Poll
  BY <1>10 DEF IsFour
<1>12. e = Writes(g, ws)
  <2>1. e = Writes(PllGo(d, lo, ref),
         <<Wr(20, [nint |-> Packed(Nint(lo, ref))]), Poll,
           Wr(22, [sdm_hi |-> PllSdm(lo, ref) \div 256]), Wr(21, [sdm_lo |-> PllSdm(lo, ref) % 256])>> \o Blank(2))
    BY DEF PllSet
  <2>2. /\ Wr(20, [nint |-> Packed(Nint(lo, ref))]) = w20 /\ Wr(22, [sdm_hi |-> PllSdm(lo, ref) \div 256]) = w22
        /\ Wr(21, [sdm_lo |-> PllSdm(lo, ref) % 256]) = w21
    BY <1>3, <1>4, <1>5, <1>6, <1>7
  <2> QED BY <1>1, <1>9, <2>1, <2>2
<1>13. DOMAIN w20.set = {"nint"} /\ DOMAIN w22.set = {"sdm_hi"} /\ DOMAIN w21.set = {"sdm_lo"}
  BY <1>8
<1>14. \A i \in 1 .. Len(ws) : DOMAIN ws[i].set = Touched(ws[i]) /\ Touched(ws[i]) \subseteq PllNames
  <2>1. \A i \in 1 .. 6 : i = 1 \/ i = 2 \/ i = 3 \/ i = 4 \/ i = 5 \/ i = 6  OBVIOUS
  <2> QED BY <1>8, <1>11, <1>13, <2>1, PollIs DEF PllNames
<1>15. e \in Devices /\ PllRan(e, g) /\ e.xtal = g.xtal /\ e.has_lock = g.has_lock /\ (g.ok /\ ~ e.trouble => e.ok)
  BY <1>2, <1>11, <1>12, <1>14, PllWrites, Zenon
<1>16. e.ok => /\ e.regs.nint = n /\ e.regs.sdm_hi = hi /\ e.regs.sdm_lo = low
  <2> SUFFICES ASSUME e.ok  PROVE e.regs.nint = n /\ e.regs.sdm_hi = hi /\ e.regs.sdm_lo = low
    OBVIOUS
  <2>0. \A j \in 1 .. Len(ws) : j = 1 \/ j = 2 \/ j = 3 \/ j = 4 \/ j = 5 \/ j = 6
    BY <1>11
  <2>1. LastOf(ws, 1, "nint") /\ LastOf(ws, 3, "sdm_hi") /\ LastOf(ws, 4, "sdm_lo")
    <3>1. LastOf(ws, 1, "nint")  BY <1>8, <1>11, <1>13, <2>0, PollIs DEF LastOf
    <3>2. LastOf(ws, 3, "sdm_hi")  BY <1>8, <1>11, <1>13, <2>0, PollIs DEF LastOf
    <3>3. LastOf(ws, 4, "sdm_lo")  BY <1>8, <1>11, <1>13, <2>0, PollIs DEF LastOf
    <3> QED BY <3>1, <3>2, <3>3
  <2>2. "nint" \in Names /\ "sdm_hi" \in Names /\ "sdm_lo" \in Names
    BY DEF Names
  <2>3. e.regs["nint"] = ws[1].set["nint"]
    BY <1>2, <1>11, <1>12, <2>1, <2>2, LastIs
  <2>4. e.regs["sdm_hi"] = ws[3].set["sdm_hi"]
    BY <1>2, <1>11, <1>12, <2>1, <2>2, LastIs
  <2>5. e.regs["sdm_lo"] = ws[4].set["sdm_lo"]
    BY <1>2, <1>11, <1>12, <2>1, <2>2, LastIs
  <2> QED BY <1>8, <1>11, <2>3, <2>4, <2>5
<1>17. e.ok => g.ok
  BY <1>15 DEF PllRan
<1>18. e.ok => e.regs.div = g.regs.div
  <2> SUFFICES ASSUME e.ok  PROVE e.regs["div"] = g.regs["div"]
    OBVIOUS
  <2>1. "div" \in Names /\ \A i \in 1 .. Len(ws) : "div" \notin Touched(ws[i])
    <3>1. \A i \in 1 .. 6 : i = 1 \/ i = 2 \/ i = 3 \/ i = 4 \/ i = 5 \/ i = 6  OBVIOUS
    <3> QED BY <1>8, <1>11, <3>1, PollIs DEF Names
  <2>2. \A f \in Names : (\A i \in 1 .. Len(ws) : f \notin Touched(ws[i])) => e.regs[f] = g.regs[f]
    BY <1>2, <1>11, <1>12, WritesIs
  <2>3. PICK f \in Names : f = "div"
    BY <2>1
  <2>4. e.regs[f] = g.regs[f]
    BY <2>1, <2>2, <2>3
  <2> QED BY <2>3, <2>4
<1>19. PllRan(e, d)
  BY <1>2, <1>15, PllRanTrans
<1>20. g.trouble => e.trouble
  BY <1>15 DEF PllRan
<1>21. d.ok /\ ~ e.trouble /\ PllValid(d, lo, ref) => e.ok
  <2>1. g.trouble \in BOOLEAN /\ e.trouble \in BOOLEAN  BY <1>2, <1>15, DeviceTypes
  <2> QED BY <1>2, <1>15, <1>20, <2>1, Zenon
<1>22. e.ok => e.regs.div = DivNum(Divider(lo))
  BY <1>2, <1>17, <1>18
<1>23. e.ok => PllValid(d, lo, ref)
  BY <1>2, <1>17, Zenon
<1>24. e.ok => e.regs.sdm_hi = PllSdm(lo, ref) \div 256 /\ e.regs.sdm_lo = PllSdm(lo, ref) % 256
  BY <1>4, <1>5, <1>6, <1>16
<1> QED BY <1>2, <1>3, <1>15, <1>16, <1>19, <1>21, <1>22, <1>23, <1>24


(* Whether it locks is looked at and kept; that writes nothing of it.      *)
Looked(e, d) == e \in Devices /\ PllRan(e, d) /\ e.xtal = d.xtal /\ e.regs = d.regs

(* Looking twice is looking.                                               *)
LEMMA LookedTrans ==
  ASSUME NEW d, NEW e, NEW x, Looked(e, d), Looked(x, e)
  PROVE  Looked(x, d)
<1>1. PllRan(x, d)
  BY PllRanTrans DEF Looked
<1> QED BY <1>1 DEF Looked

(* Transfers that write nothing are looking.                               *)
LEMMA LookedAt ==
  ASSUME NEW d \in Devices, NEW e \in Devices, Ran(e, d), e.regs = d.regs, e.shadow = d.shadow
  PROVE  Looked(e, d)
BY DEF Looked, Ran, SameBut, PllRan

(* More current writes nothing of the loop.                                *)
LEMMA NudgedIs ==
  ASSUME NEW d \in Devices, NEW e, e = Nudged(d)
  PROVE  Looked(e, d)
<1>1. CASE Locks(d)
  <2>1. e = d  BY <1>1 DEF Nudged
  <2> QED BY <2>1 DEF Looked, PllRan, SameRest
<1>2. CASE ~ Locks(d)
  <2>0. PICK n \in Nat : n = 3  OBVIOUS
  <2>1. e = Writes(d, Blank(n))  BY <1>2, <2>0 DEF Nudged
  <2>2. e \in Devices /\ Ran(e, d) /\ e.regs = d.regs /\ e.shadow = d.shadow
    <3>1. PICK x : x = Writes(d, Blank(n))  OBVIOUS
    <3>2. x \in Devices /\ Ran(x, d) /\ x.regs = d.regs /\ x.shadow = d.shadow  BY <3>1, QuietBlank
    <3> QED BY <2>1, <3>1, <3>2
  <2> QED BY <2>2, LookedAt, Zenon
<1> QED BY <1>1, <1>2

(* Whether it locked is kept, and nothing written of it.                   *)
LEMMA SettledIs ==
  ASSUME NEW d \in Devices, NEW e, e = Settled(d)
  PROVE  Looked(e, d)
<1>1. CASE ~ d.ok
  <2>1. e = d  BY <1>1 DEF Settled
  <2> QED BY <2>1 DEF Looked, PllRan, SameRest
<1>2. CASE d.ok
  <2>1. PICK lock : lock = Locks(d)
    OBVIOUS
  <2>2. lock \in BOOLEAN
    BY <2>1 DEF Locks, InBand
  <2>3. PICK g : g = [d EXCEPT !.has_lock = lock]
    OBVIOUS
  <2>4. g \in Devices
    BY <2>2, <2>3 DEF Devices
  <2>5. SameRest(g, d) /\ g.input = d.input /\ g.xtal = d.xtal /\ g.regs = d.regs /\ g.shadow = d.shadow
        /\ g.ok = d.ok /\ g.trouble = d.trouble
    BY <2>2, <2>3 DEF Devices, SameRest
  <2>6. Looked(g, d)
    BY <2>4, <2>5 DEF Looked, PllRan
  <2>7. PICK n \in Nat : Writes(g, Blank(n)) = e \/ (n = 0 /\ Writes(g, <<>>) = e)
    <3>1. e = Writes(g, IF lock THEN Blank(1) ELSE <<>>)  BY <1>2, <2>1, <2>3 DEF Settled
    <3>2. 0 \in Nat /\ 1 \in Nat  OBVIOUS
    <3> QED BY <3>1, <3>2
  <2>8. e \in Devices /\ Ran(e, g) /\ e.regs = g.regs /\ e.shadow = g.shadow
    <3>1. CASE Writes(g, Blank(n)) = e  BY <2>4, <3>1, QuietBlank
    <3>2. CASE Writes(g, <<>>) = e  BY <2>4, <3>2, QuietNone
    <3> QED BY <2>7, <3>1, <3>2
  <2>9. Looked(e, g)
    BY <2>4, <2>8, LookedAt
  <2> QED BY <2>6, <2>9, LookedTrans
<1> QED BY <1>1, <1>2

(* Numbers that were written make the frequency.                           *)
LEMMA SetByNumbers ==
  ASSUME NEW lo \in Nat, Tunable(lo), NEW ref \in Refs, NEW regs,
         regs.div = DivNum(Divider(lo)), regs.nint = Packed(Nint(lo, ref)),
         regs.sdm_hi = PllSdm(lo, ref) \div 256, regs.sdm_lo = PllSdm(lo, ref) % 256
  PROVE  IsSet(regs, lo, ref)
<1>1. PICK k \in 1 .. 6 : Divider(lo) = 2^k /\ InBand(lo * 2^k)
  BY DividerIs
<1>2. DivNum(2^k) + 1 = k
  BY DivNumIs
<1>3. Divider(lo) \in Nat
  BY NumbersAreInts
<1>4. PICK v \in Nat : v = lo * Divider(lo)
  BY <1>3
<1>5. lo * 2^k = v /\ InBand(v)
  BY <1>1, <1>4
<1>6. PICK n : n = (v \div (2 * ref)) % 256
  OBVIOUS
<1>7. Nint(lo, ref) = n
  BY <1>4, <1>6 DEF Nint
<1>8. PICK m : m = Sdm(v - 2 * ref * n, ref)
  OBVIOUS
<1>9. PllSdm(lo, ref) = m
  BY <1>4, <1>7, <1>8 DEF PllSdm
<1>10. regs.nint = Packed(n) /\ regs.sdm_hi = m \div 256 /\ regs.sdm_lo = m % 256
  BY <1>7, <1>9
<1>11. Vco(regs, ref) \in Int /\ v - 6 <= Vco(regs, ref) /\ Vco(regs, ref) <= v + 5
  BY <1>5, <1>6, <1>8, <1>10, VcoNear
<1>12. regs.div + 1 = k
  BY <1>1, <1>2
<1> QED BY <1>5, <1>11, <1>12 DEF IsSet

(* r82xx_set_pll_ref(): if it returns 0 the loop has the numbers.          *)
LEMMA PllRefIs ==
  ASSUME NEW d \in Devices, NEW lo \in Nat, NEW ref \in Refs, NEW e, e = SetPllRef(d, lo, ref)
  PROVE  e \in Devices /\ PllRan(e, d) /\ e.xtal = d.xtal /\ (e.ok /\ Tunable(lo) => IsSet(e.regs, lo, ref))
<1>1. PICK p : p = PllSet(d, lo, ref)
  OBVIOUS
<1>2. p \in Devices /\ PllRan(p, d) /\ p.xtal = d.xtal
      /\ (p.ok => /\ p.regs.div = DivNum(Divider(lo)) /\ p.regs.nint = Packed(Nint(lo, ref))
                  /\ p.regs.sdm_hi = PllSdm(lo, ref) \div 256 /\ p.regs.sdm_lo = PllSdm(lo, ref) % 256)
  BY <1>1, PllSetIs
<1>3. PICK g : g = Nudged(p)
  OBVIOUS
<1>4. Looked(g, p)
  BY <1>2, <1>3, NudgedIs
<1>5. e = Settled(g)
  BY <1>1, <1>3, PllParts
<1>6. Looked(e, g)
  <2>1. g \in Devices  BY <1>4 DEF Looked
  <2> QED BY <1>5, <2>1, SettledIs
<1>7. Looked(e, p)
  BY <1>4, <1>6, LookedTrans
<1>8. e \in Devices /\ PllRan(e, d) /\ e.xtal = d.xtal
  <2>1. PllRan(e, p)  BY <1>7 DEF Looked
  <2>2. PllRan(e, d)  BY <1>2, <2>1, PllRanTrans
  <2> QED BY <1>2, <1>7, <2>2 DEF Looked
<1>9. ASSUME e.ok, Tunable(lo)  PROVE IsSet(e.regs, lo, ref)
  <2>1. p.ok /\ e.regs = p.regs  BY <1>7, <1>9 DEF Looked, PllRan
  <2>2. IsSet(p.regs, lo, ref)  BY <1>2, <1>9, <2>1, SetByNumbers
  <2> QED BY <2>1, <2>2
<1> QED BY <1>8, <1>9


(* The loop is on a frequency by the reference that the driver takes it    *)
(* for, if it says that it has locked.                                     *)
OnTune(d, lo) == d.ok /\ d.has_lock /\ Tunable(lo) => IsSet(d.regs, lo, d.xtal)

(* What two operations leave alone, both do.                               *)
LEMMA SameRestTrans ==
  ASSUME NEW d, NEW e, NEW x, SameRest(e, d), SameRest(x, e)
  PROVE  SameRest(x, d)
BY DEF SameRest

(* The reference is the other one only where that one locked.              *)
LEMMA AdoptedIs ==
  ASSUME NEW d \in Devices, NEW e, e = Adopted(d)
  PROVE  /\ e \in Devices /\ SameRest(e, d) /\ e.ok = d.ok /\ e.has_lock = d.has_lock /\ e.regs = d.regs
         /\ e.ok /\ e.has_lock => e.xtal = Other(d.xtal)
<1>1. PICK x : x = IF d.ok /\ d.has_lock THEN Other(d.xtal) ELSE d.xtal
  OBVIOUS
<1>2. x \in Refs
  BY <1>1 DEF Devices, Other, Refs
<1>3. e = [d EXCEPT !.xtal = x]
  BY <1>1 DEF Adopted, Devices
<1>4. e \in Devices
  BY <1>2, <1>3 DEF Devices
<1>5. SameRest(e, d) /\ e.ok = d.ok /\ e.has_lock = d.has_lock /\ e.regs = d.regs /\ e.xtal = x
  BY <1>3 DEF Devices, SameRest
<1> QED BY <1>1, <1>4, <1>5

(* r82xx_set_pll(): by the first reference or the other.                   *)
LEMMA PllIs ==
  ASSUME NEW d \in Devices, NEW lo \in Nat, NEW e, e = SetPll(d, lo)
  PROVE  e \in Devices /\ SameRest(e, d) /\ OnTune(e, lo)
<1>1. PICK g : g = SetPllRef(d, lo, d.xtal)
  OBVIOUS
<1>2. d.xtal \in Refs
  BY DEF Devices
<1>3. g \in Devices /\ PllRan(g, d) /\ g.xtal = d.xtal /\ (g.ok /\ Tunable(lo) => IsSet(g.regs, lo, d.xtal))
  BY <1>1, <1>2, PllRefIs
<1>4. e = ByOtherRef(g, lo)
  BY <1>1 DEF SetPll
<1>5. CASE g.type = "R828D" /\ g.ok /\ ~ g.has_lock
  <2>1. PICK x : x = SetPllRef(g, lo, Other(g.xtal))
    OBVIOUS
  <2>2. Other(g.xtal) \in Refs
    BY DEF Other, Refs
  <2>3. x \in Devices /\ PllRan(x, g) /\ x.xtal = g.xtal /\ (x.ok /\ Tunable(lo) => IsSet(x.regs, lo, Other(g.xtal)))
    BY <1>3, <2>1, <2>2, PllRefIs
  <2>4. e = Adopted(x)
    BY <1>4, <1>5, <2>1 DEF ByOtherRef
  <2>5. /\ e \in Devices /\ SameRest(e, x) /\ e.ok = x.ok /\ e.has_lock = x.has_lock /\ e.regs = x.regs
        /\ e.ok /\ e.has_lock => e.xtal = Other(x.xtal)
    BY <2>3, <2>4, AdoptedIs
  <2>6. SameRest(e, d)
    <3>1. SameRest(g, d) /\ SameRest(x, g)  BY <1>3, <2>3 DEF PllRan
    <3> QED BY <2>5, <3>1 DEF SameRest
  <2>7. OnTune(e, lo)
    BY <2>3, <2>5 DEF OnTune
  <2> QED BY <2>5, <2>6, <2>7
<1>6. CASE ~ (g.type = "R828D" /\ g.ok /\ ~ g.has_lock)
  <2>1. e = g
    BY <1>4, <1>6 DEF ByOtherRef
  <2> QED BY <1>3, <2>1 DEF OnTune, PllRan
<1> QED BY <1>5, <1>6

(* What other operations leave alone.                                      *)
SamePll(regs, old) == \A f \in PllNames : regs[f] = old[f]
Kept(e, d) ==
  /\ e.type = d.type /\ e.direct = d.direct /\ e.freq = d.freq /\ e.tuned_if = d.tuned_if
  /\ e.xtal = d.xtal /\ e.has_lock = d.has_lock /\ SamePll(e.regs, d.regs)

(* Keeping goes on.                                                        *)
LEMMA KeptTrans ==
  ASSUME NEW d, NEW e, NEW x, Kept(e, d), Kept(x, e)
  PROVE  Kept(x, d)
BY DEF Kept, SamePll

(* The same numbers give the same oscillator.                              *)
LEMMA SameLo ==
  ASSUME NEW regs, NEW old, SamePll(regs, old), NEW ref
  PROVE  Vco(regs, ref) = Vco(old, ref) /\ Lo(regs, ref) = Lo(old, ref) /\ regs.div = old.div
<1>1. regs["div"] = old["div"] /\ regs["nint"] = old["nint"] /\ regs["sdm_hi"] = old["sdm_hi"] /\ regs["sdm_lo"] = old["sdm_lo"]
  BY DEF SamePll, PllNames
<1>2. Vco(regs, ref) = Vco(old, ref)
  BY <1>1 DEF Vco
<1> QED BY <1>1, <1>2 DEF Lo

(* What keeps the loop keeps it on the frequency.                          *)
LEMMA OnTuneKept ==
  ASSUME NEW d, NEW e, NEW lo, OnTune(d, lo), SamePll(e.regs, d.regs), e.xtal = d.xtal, e.has_lock = d.has_lock, e.ok => d.ok
  PROVE  OnTune(e, lo)
<1> SUFFICES ASSUME e.ok, e.has_lock, Tunable(lo)  PROVE IsSet(e.regs, lo, e.xtal)
  BY DEF OnTune
<1>1. IsSet(d.regs, lo, d.xtal)
  BY DEF OnTune
<1>2. Vco(e.regs, e.xtal) = Vco(d.regs, d.xtal) /\ e.regs.div = d.regs.div
  BY SameLo
<1> QED BY <1>1, <1>2 DEF IsSet

(* A frequency that is set comes out of the divider.                       *)
LEMMA SetIsNear ==
  ASSUME NEW regs, NEW lo \in Nat, NEW ref, IsSet(regs, lo, ref)
  PROVE  Gap(Lo(regs, ref), lo) <= 4
<1>1. PICK k \in 1 .. 6 : /\ InBand(lo * 2^k) /\ regs.div + 1 = k /\ Vco(regs, ref) \in Int
                          /\ lo * 2^k - 6 <= Vco(regs, ref) /\ Vco(regs, ref) <= lo * 2^k + 5
  BY DEF IsSet
<1>2. PICK x \in Int : x = Vco(regs, ref)
  BY <1>1
<1>3. lo * 2^k - 6 <= x /\ x <= lo * 2^k + 5 /\ regs.div + 1 = k
  BY <1>1, <1>2
<1> QED BY <1>2, <1>3, LoNear

(* What a device shows, and that direct sampling is for want of a tuner.   *)
ShownOf(d) ==
  d.type # "none" /\ d.freq # 0 /\ d.has_lock /\ Tunable(d.freq + d.tuned_if)
    => Gap(Lo(d.regs, d.xtal), d.freq + d.tuned_if) <= 4
Sound(d) == d \in Devices /\ (d.direct => d.type = "none") /\ ShownOf(d)

(* And what is shown stays true.                                           *)
LEMMA SoundKept ==
  ASSUME NEW d, Sound(d), NEW e \in Devices, Kept(e, d)
  PROVE  Sound(e)
<1>1. Lo(e.regs, e.xtal) = Lo(d.regs, d.xtal)
  BY SameLo DEF Kept
<1> QED BY <1>1 DEF Sound, ShownOf, Kept


(* Writes to other registers than the loop's.                              *)
Apart(ws) == ws \in Seq(Steps) /\ \A i \in 1 .. Len(ws) : Touched(ws[i]) \cap PllNames = {}
ApartRan(e, d) == e \in Devices /\ SameBut(e, d) /\ SamePll(e.regs, d.regs) /\ (e.ok => d.ok)

(* Writes to other registers leave the loop alone.                         *)
LEMMA ApartIs ==
  ASSUME NEW d \in Devices, NEW ws, Apart(ws), NEW e, e = Writes(d, ws)
  PROVE  ApartRan(e, d)
<1>1. ws \in Seq(Steps) /\ \A i \in 1 .. Len(ws) : Touched(ws[i]) \cap PllNames = {}
  BY DEF Apart
<1>2. e \in Devices /\ Ran(e, d)
  BY <1>1, WritesIs, Zenon
<1>3. \A f \in PllNames : f \in Names /\ \A i \in 1 .. Len(ws) : f \notin Touched(ws[i])
  BY <1>1 DEF PllNames, Names
<1>4. \A f \in Names : (\A i \in 1 .. Len(ws) : f \notin Touched(ws[i])) => e.regs[f] = d.regs[f]
  BY <1>1, WritesIs
<1>5. SamePll(e.regs, d.regs)
  BY <1>3, <1>4, Zenon DEF SamePll
<1> QED BY <1>2, <1>5 DEF ApartRan, Ran

(* They keep what is shown.                                                *)
LEMMA ApartKept ==
  ASSUME NEW d, NEW e, ApartRan(e, d)
  PROVE  e \in Devices /\ Kept(e, d)
BY DEF ApartRan, SameBut, SameRest, Kept

(* Reads are such writes.                                                  *)
LEMMA ApartBlank ==
  ASSUME NEW n \in Nat
  PROVE  Apart(Blank(n))
BY BlankIs, PollIs DEF Apart

(* Such a write is one step of them.                                       *)
Aside(w) == w \in Steps /\ Touched(w) \cap PllNames = {}

(* So is a write of a field beside the loop,                               *)
LEMMA AsideWr ==
  ASSUME NEW reg \in {5, 7, 10, 11, 12, 15}, NEW F \in SUBSET Names, NEW set \in [F -> Int \cup BOOLEAN]
  PROVE  Aside(Wr(reg, set))
<1>1. reg \in Nat
  OBVIOUS
<1>2. Wr(reg, set) \in Steps /\ Touched(Wr(reg, set)) = Fields(reg)
  BY <1>1, WrIs, Zenon
<1>3. Fields(reg) \cap PllNames = {}
  BY PllFieldIs DEF PllNames
<1> QED BY <1>2, <1>3, Zenon DEF Aside

(* for each value of it,                                                   *)
LEMMA AsideOne ==
  ASSUME NEW reg \in {5, 7, 10, 11, 12, 15}, NEW v \in Int \cup BOOLEAN
  PROVE  /\ Aside(Wr(reg, [input |-> v])) /\ Aside(Wr(reg, [filter |-> v])) /\ Aside(Wr(reg, [corner |-> v]))
         /\ Aside(Wr(reg, [vga |-> v])) /\ Aside(Wr(reg, [lna |-> v])) /\ Aside(Wr(reg, [mix |-> v]))
         /\ Aside(Wr(reg, [lna_auto |-> v])) /\ Aside(Wr(reg, [mix_auto |-> v])) /\ Aside(Wr(reg, [clock |-> v]))
         /\ Aside(Poll)
<1>1. {"input"} \in SUBSET Names /\ [input |-> v] \in [{"input"} -> Int \cup BOOLEAN]  BY DEF Names
<1>2. {"filter"} \in SUBSET Names /\ [filter |-> v] \in [{"filter"} -> Int \cup BOOLEAN]  BY DEF Names
<1>3. {"corner"} \in SUBSET Names /\ [corner |-> v] \in [{"corner"} -> Int \cup BOOLEAN]  BY DEF Names
<1>4. {"vga"} \in SUBSET Names /\ [vga |-> v] \in [{"vga"} -> Int \cup BOOLEAN]  BY DEF Names
<1>5. {"lna"} \in SUBSET Names /\ [lna |-> v] \in [{"lna"} -> Int \cup BOOLEAN]  BY DEF Names
<1>6. {"mix"} \in SUBSET Names /\ [mix |-> v] \in [{"mix"} -> Int \cup BOOLEAN]  BY DEF Names
<1>7. {"lna_auto"} \in SUBSET Names /\ [lna_auto |-> v] \in [{"lna_auto"} -> Int \cup BOOLEAN]  BY DEF Names
<1>8. {"mix_auto"} \in SUBSET Names /\ [mix_auto |-> v] \in [{"mix_auto"} -> Int \cup BOOLEAN]  BY DEF Names
<1>9. {"clock"} \in SUBSET Names /\ [clock |-> v] \in [{"clock"} -> Int \cup BOOLEAN]  BY DEF Names
<1>10. Aside(Wr(reg, [input |-> v])) /\ Aside(Wr(reg, [filter |-> v])) /\ Aside(Wr(reg, [corner |-> v]))
  BY <1>1, <1>2, <1>3, AsideWr, Zenon
<1>11. Aside(Wr(reg, [vga |-> v])) /\ Aside(Wr(reg, [lna |-> v])) /\ Aside(Wr(reg, [mix |-> v]))
  BY <1>4, <1>5, <1>6, AsideWr, Zenon
<1>12. Aside(Wr(reg, [lna_auto |-> v])) /\ Aside(Wr(reg, [mix_auto |-> v])) /\ Aside(Wr(reg, [clock |-> v]))
  BY <1>7, <1>8, <1>9, AsideWr, Zenon
<1> QED BY <1>10, <1>11, <1>12, PollIs DEF Aside

(* alone                                                                   *)
LEMMA ApartOne ==
  ASSUME NEW a, Aside(a)
  PROVE  Apart(<<a>>)
<1>1. <<a>> \in Seq(Steps) /\ Len(<<a>>) = 1 /\ <<a>>[1] = a  BY DEF Aside
<1> QED BY <1>1 DEF Apart, Aside

(* or after others.                                                        *)
LEMMA ApartCat ==
  ASSUME NEW s, NEW t, Apart(s), Apart(t)
  PROVE  Apart(s \o t)
<1>1. s \in Seq(Steps) /\ t \in Seq(Steps)
  BY DEF Apart
<1>2. s \o t \in Seq(Steps) /\ Len(s \o t) = Len(s) + Len(t)
  BY <1>1
<1>3. ASSUME NEW i \in 1 .. Len(s \o t)  PROVE Touched((s \o t)[i]) \cap PllNames = {}
  <2>1. CASE i \in 1 .. Len(s)
    <3>1. (s \o t)[i] = s[i]  BY <1>1, <2>1
    <3> QED BY <2>1, <3>1 DEF Apart
  <2>2. CASE i \notin 1 .. Len(s)
    <3>1. (s \o t)[i] = t[i - Len(s)] /\ i - Len(s) \in 1 .. Len(t)  BY <1>1, <1>2, <1>3, <2>2
    <3> QED BY <3>1 DEF Apart
  <2> QED BY <2>1, <2>2
<1> QED BY <1>2, <1>3 DEF Apart

-----------------------------------------------------------------------------
(* The operations' parts.                                                  *)

(* A new result changes nothing else.                                      *)
LEMMA AgainIs ==
  ASSUME NEW d \in Devices, NEW e, e = [d EXCEPT !.ok = TRUE]
  PROVE  e \in Devices /\ Kept(e, d) /\ SameBut(e, d) /\ e.regs = d.regs /\ e.ok
<1>1. e \in Devices
  BY DEF Devices
<1> QED BY <1>1 DEF Devices, Kept, SamePll, SameBut, SameRest

(* Writes to the demodulator keep what is shown.                           *)
LEMMA DemodIs ==
  ASSUME NEW d \in Devices, NEW n \in Nat, NEW e, e = Demod(d, n)
  PROVE  e \in Devices /\ Kept(e, d) /\ e.int_freq = d.int_freq
<1>1. PICK fails : fails = (d.fuse \in 1 .. n)
  OBVIOUS
<1>2. PICK fuse : fuse = IF d.fuse > n THEN d.fuse - n ELSE 0
  OBVIOUS
<1>3. PICK ok, trouble : ok = (d.ok /\ ~ fails) /\ trouble = (d.trouble \/ fails)
  OBVIOUS
<1>4. fuse \in Nat
  BY <1>2, DeviceTypes
<1>5. ok \in BOOLEAN /\ trouble \in BOOLEAN
  BY <1>1, <1>3, DeviceTypes, Zenon
<1>6. e = [d EXCEPT !.fuse = fuse, !.ok = ok, !.trouble = trouble]
  BY <1>1, <1>2, <1>3 DEF Demod, Devices
<1>7. e \in Devices
  BY <1>4, <1>5, <1>6 DEF Devices
<1> QED BY <1>6, <1>7 DEF Devices, Kept, SamePll

(* Opening and closing the way to the tuner keeps it.                      *)
LEMMA RepeaterIs ==
  ASSUME NEW d \in Devices, NEW on \in BOOLEAN, NEW e, e = Repeater(d, on)
  PROVE  e \in Devices /\ Kept(e, d) /\ e.int_freq = d.int_freq /\ e.ok = d.ok /\ e.regs = d.regs
<1>1. CASE on = d.i2c_repeater_on
  <2>1. e = d  BY <1>1 DEF Repeater
  <2> QED BY <2>1 DEF Kept, SamePll
<1>2. CASE on # d.i2c_repeater_on
  <2>1. PICK fuse, trouble, way : /\ fuse = (IF d.fuse > 0 THEN d.fuse - 1 ELSE 0) /\ trouble = (d.trouble \/ d.fuse = 1)
                                  /\ way = (IF d.fuse = 1 THEN d.repeater ELSE on)
    OBVIOUS
  <2>2. fuse \in Nat
    BY <2>1, DeviceTypes
  <2>3. trouble \in BOOLEAN /\ way \in BOOLEAN
    BY <2>1, DeviceTypes, Zenon
  <2>4. e = [d EXCEPT !.fuse = fuse, !.trouble = trouble, !.i2c_repeater_on = on, !.repeater = way]
    BY <1>2, <2>1 DEF Repeater, Burn, Blown, Devices
  <2>5. e \in Devices
    BY <2>2, <2>3, <2>4 DEF Devices
  <2> QED BY <2>4, <2>5 DEF Devices, Kept, SamePll
<1> QED BY <1>1, <1>2

(* So does telling the demodulator the intermediate frequency.             *)
LEMMA SetIfIs ==
  ASSUME NEW d \in Devices, NEW f \in Int, NEW e, e = SetIf(d, f)
  PROVE  e \in Devices /\ Kept(e, d) /\ e.int_freq = d.int_freq
<1>1. PICK g : g = [d EXCEPT !.ok = TRUE]
  OBVIOUS
<1>2. g \in Devices /\ Kept(g, d) /\ g.int_freq = d.int_freq
  BY <1>1, AgainIs DEF SameBut, SameRest
<1>3. PICK x : x = Demod(g, 3)
  OBVIOUS
<1>4. x \in Devices /\ Kept(x, g) /\ x.int_freq = g.int_freq
  <2>1. 3 \in Nat  OBVIOUS
  <2> QED BY <1>2, <1>3, <2>1, DemodIs, Zenon
<1>5. PICK v : v = IF x.ok THEN f ELSE Garbled
  OBVIOUS
<1>6. v \in Int
  BY <1>5 DEF Garbled
<1>7. e = [x EXCEPT !.if_freq = v]
  BY <1>1, <1>3, <1>5 DEF SetIf
<1>8. e \in Devices /\ Kept(e, x) /\ e.int_freq = x.int_freq
  <2>1. e \in Devices  BY <1>4, <1>6, <1>7 DEF Devices
  <2> QED BY <1>4, <1>7, <2>1 DEF Devices, Kept, SamePll
<1>9. Kept(e, d)
  <2>1. Kept(x, d)  BY <1>2, <1>4, KeptTrans
  <2> QED BY <1>8, <2>1, KeptTrans
<1> QED BY <1>2, <1>4, <1>8, <1>9

(* r82xx_set_mux() is beside the loop.                                     *)
LEMMA SetMuxIs ==
  ASSUME NEW d \in Devices, NEW e, e = SetMux(d)
  PROVE  e \in Devices /\ SameRest(e, d)
<1>1. PICK g : g = [d EXCEPT !.ok = TRUE]
  OBVIOUS
<1>2. g \in Devices /\ SameBut(g, d)
  BY <1>1, AgainIs
<1>3. e = Writes(g, Blank(6))
  BY <1>1 DEF SetMux
<1>4. e \in Devices /\ Ran(e, g)
  <2>1. 6 \in Nat  OBVIOUS
  <2> QED BY <1>2, <1>3, <2>1, QuietBlank, Zenon
<1> QED BY <1>2, <1>4 DEF Ran, SameBut, SameRest

(* So is the antenna.                                                      *)
LEMMA SetInputIs ==
  ASSUME NEW d \in Devices, NEW f \in Nat, NEW e, e = SetInput(d, f)
  PROVE  e \in Devices /\ SameRest(e, d) /\ Kept(e, d) /\ (e.ok => d.ok)
<1>1. CASE ~ d.ok \/ ~ d.has_lock \/ d.type # "R828D" \/ d.input = Input(f)
  <2>1. e = d  BY <1>1 DEF SetInput
  <2> QED BY <2>1 DEF SameRest, Kept, SamePll
<1>2. CASE ~ (~ d.ok \/ ~ d.has_lock \/ d.type # "R828D" \/ d.input = Input(f))
  <2>1. PICK v : v = Input(f)
    OBVIOUS
  <2>2. v \in Int
    BY <2>1 DEF Input
  <2>3. PICK g : g = [d EXCEPT !.input = v]
    OBVIOUS
  <2>4. g \in Devices
    BY <2>2, <2>3 DEF Devices
  <2>5. SameRest(g, d) /\ Kept(g, d) /\ g.ok = d.ok
    BY <2>3 DEF Devices, SameRest, Kept, SamePll
  <2>6. PICK w : w = Wr(5, [input |-> v])
    OBVIOUS
  <2>7. Apart(<<w>>)
    <3>1. Aside(w)  BY <2>2, <2>6, AsideOne
    <3> QED BY <3>1, ApartOne
  <2>8. e = Writes(g, <<w>>)
    BY <1>2, <2>1, <2>3, <2>6 DEF SetInput
  <2>9. ApartRan(e, g)
    BY <2>4, <2>7, <2>8, ApartIs
  <2>10. Kept(e, d)
    <3>1. Kept(e, g)  BY <2>9, ApartKept
    <3> QED BY <2>5, <3>1, KeptTrans
  <2> QED BY <2>5, <2>9, <2>10 DEF ApartRan, SameBut, SameRest
<1> QED BY <1>1, <1>2

(* r82xx_set_freq() leaves the loop on the frequency, or no result.        *)
LEMMA SetFreqIs ==
  ASSUME NEW d \in Devices, NEW f \in Nat, NEW e, e = SetFreq(d, f)
  PROVE  e \in Devices /\ SameRest(e, d) /\ OnTune(e, f + d.int_freq)
<1>1. PICK lo : lo = f + d.int_freq
  OBVIOUS
<1>2. lo \in Nat
  BY <1>1 DEF Devices
<1>3. PICK m, p : m = SetMux(d) /\ p = SetPll(m, lo)
  OBVIOUS
<1>4. m \in Devices /\ SameRest(m, d)
  BY <1>3, SetMuxIs
<1>5. p \in Devices /\ SameRest(p, m) /\ OnTune(p, lo)
  BY <1>2, <1>3, <1>4, PllIs
<1>6. e = SetInput(p, f)
  BY <1>1, <1>3 DEF SetFreq
<1>7. e \in Devices /\ SameRest(e, p) /\ Kept(e, p) /\ (e.ok => p.ok)
  BY <1>5, <1>6, SetInputIs
<1>8. OnTune(e, lo)
  BY <1>5, <1>7, OnTuneKept DEF Kept
<1>9. SameRest(e, d)
  BY <1>4, <1>5, <1>7 DEF SameRest
<1> QED BY <1>1, <1>7, <1>8, <1>9


-----------------------------------------------------------------------------
(* The operations.                                                         *)

(* rtlsdr_set_center_freq() shows it if there was a result.                *)
LEMMA ShownIs ==
  ASSUME NEW d \in Devices, NEW f \in Nat, NEW e, e = Shown(d, f), d.direct => d.type = "none",
         d.type # "none" => OnTune(d, f + d.int_freq)
  PROVE  Sound(e) /\ e.type = d.type /\ e.direct = d.direct /\ (f = 0 => e.freq = 0)
<1>1. PICK x : x = IF d.ok THEN f ELSE 0
  OBVIOUS
<1>2. x \in Nat /\ (f = 0 => x = 0)
  BY <1>1
<1>3. e = [d EXCEPT !.freq = x, !.tuned_if = d.int_freq]
  BY <1>1 DEF Shown, Devices
<1>4. e \in Devices
  BY <1>2, <1>3 DEF Devices
<1>5. /\ e.type = d.type /\ e.direct = d.direct /\ e.freq = x /\ e.tuned_if = d.int_freq
      /\ e.has_lock = d.has_lock /\ e.regs = d.regs /\ e.xtal = d.xtal
  BY <1>3 DEF Devices
<1>6. ASSUME e.type # "none", e.freq # 0, e.has_lock, Tunable(e.freq + e.tuned_if)
      PROVE  Gap(Lo(e.regs, e.xtal), e.freq + e.tuned_if) <= 4
  <2>1. d.ok /\ x = f  BY <1>1, <1>5, <1>6
  <2>2. PICK lo : lo = f + d.int_freq  OBVIOUS
  <2>3. lo \in Nat  BY <2>2 DEF Devices
  <2>4. Tunable(lo) /\ e.freq + e.tuned_if = lo  BY <1>5, <1>6, <2>1, <2>2
  <2>5. IsSet(d.regs, lo, d.xtal)  BY <1>5, <1>6, <2>1, <2>2, <2>4 DEF OnTune
  <2>6. Gap(Lo(d.regs, d.xtal), lo) <= 4  BY <2>3, <2>5, SetIsNear
  <2> QED BY <1>5, <2>4, <2>6
<1> QED BY <1>2, <1>4, <1>5, <1>6 DEF Sound, ShownOf

(* rtlsdr_set_center_freq()                                                *)
LEMMA SetCenterIs ==
  ASSUME NEW d \in Devices, d.direct => d.type = "none", NEW f \in Nat, NEW e, e = SetCenter(d, f)
  PROVE  Sound(e) /\ e.type = d.type /\ (f = 0 => e.freq = 0)
<1>1. CASE d.direct
  <2>1. PICK x : x = SetIf(d, f)
    OBVIOUS
  <2>2. x \in Devices /\ Kept(x, d)
    <3>1. f \in Int  OBVIOUS
    <3> QED BY <2>1, <3>1, SetIfIs
  <2>3. e = Shown(x, f)
    BY <1>1, <2>1 DEF SetCenter
  <2>4. x.type = "none" /\ d.type = "none"
    BY <1>1, <2>2 DEF Kept
  <2> QED BY <2>2, <2>3, <2>4, ShownIs
<1>2. CASE ~ d.direct
  <2>1. PICK b, x, y : b = Repeater(d, TRUE) /\ x = SetFreq(b, f) /\ y = Repeater(x, FALSE)
    OBVIOUS
  <2>2. b \in Devices /\ Kept(b, d)
    BY <2>1, RepeaterIs
  <2>3. x \in Devices /\ SameRest(x, b) /\ OnTune(x, f + b.int_freq)
    BY <2>1, <2>2, SetFreqIs
  <2>4. y \in Devices /\ Kept(y, x) /\ y.int_freq = x.int_freq /\ y.ok = x.ok
    BY <2>1, <2>3, RepeaterIs
  <2>5. y.int_freq = b.int_freq /\ y.type = d.type /\ y.direct = d.direct
    BY <2>2, <2>3, <2>4 DEF SameRest, Kept
  <2>6. OnTune(y, f + y.int_freq)
    <3>1. OnTune(y, f + b.int_freq)  BY <2>3, <2>4, OnTuneKept DEF Kept
    <3> QED BY <2>5, <3>1
  <2>7. e = Shown(y, f)
    BY <1>2, <2>1 DEF SetCenter
  <2>8. Sound(e) /\ e.type = y.type /\ (f = 0 => e.freq = 0)
    BY <1>2, <2>4, <2>5, <2>6, <2>7, ShownIs
  <2> QED BY <2>5, <2>8
<1> QED BY <1>1, <1>2

(* The intermediate frequency of the bandwidth that is set.                *)
LEMMA BandIs ==
  Band(2000).int_freq = 1625 /\ Band(2000).filter \in Int /\ Band(2000).corner \in Int
<1>1. Band(2000) = Narrow(2000)
  BY DEF Band
<1> DEFINE fits == {i \in DOMAIN LowPass : 1650 > LowPass[i]}
           c    == CHOOSE k \in fits : \A l \in fits : k <= l
<1>2. /\ LowPass[1] = 1700 /\ LowPass[2] = 1600 /\ LowPass[3] = 1550 /\ LowPass[4] = 1450 /\ LowPass[5] = 1200
      /\ LowPass[6] = 900 /\ LowPass[7] = 700 /\ LowPass[8] = 550 /\ LowPass[9] = 450 /\ LowPass[10] = 350
      /\ DOMAIN LowPass = 1 .. 10 /\ Len(LowPass) = 10
  BY DEF LowPass
<1>3. fits = 2 .. 10
  <2>1. \A i \in 1 .. 10 : i = 1 \/ i = 2 \/ i = 3 \/ i = 4 \/ i = 5 \/ i = 6 \/ i = 7 \/ i = 8 \/ i = 9 \/ i = 10
    OBVIOUS
  <2> QED BY <1>2, <2>1
<1>4. c = 2
  <2>1. 2 \in 2 .. 10 /\ \A l \in 2 .. 10 : 2 <= l  OBVIOUS
  <2>2. c \in 2 .. 10 /\ \A l \in 2 .. 10 : c <= l
    <3> HIDE DEF fits
    <3> QED BY <1>3, <2>1
  <2> HIDE DEF c
  <2> QED BY <2>2
<1>5. fits # {}
  BY <1>3
<1>6. /\ Narrow(2000).filter = 0
      /\ Narrow(2000).corner = 128 + 32 + 0 + 16 - (c - 1)
      /\ Narrow(2000).int_freq = 2300 + 0 + 350 - (0 + 350 + LowPass[c - 1]) \div 2
  <2>1. 2000 - 0 - 350 = 1650 /\ ~ (2000 > 2050) /\ 2000 - 0 > 1700
    OBVIOUS
  <2> QED BY <1>5, <2>1 DEF Narrow
<1> HIDE DEF c
<1>7. LowPass[c - 1] = 1700
  BY <1>2, <1>4
<1> QED BY <1>1, <1>4, <1>6, <1>7

(* rtlsdr_set_sample_rate(), for the rate of the set-up.                   *)
LEMMA SetFilterIs ==
  ASSUME NEW d \in Devices, NEW b, b.int_freq \in Nat, b.filter \in Int, b.corner \in Int, NEW e, e = SetFilter(d, b)
  PROVE  e \in Devices /\ Kept(e, d) /\ e.int_freq \in Nat
<1>1. PICK v, x, y : v = b.int_freq /\ x = b.filter /\ y = b.corner
  OBVIOUS
<1>2. PICK g : g = [d EXCEPT !.ok = TRUE, !.int_freq = v]
  OBVIOUS
<1>3. g \in Devices
  BY <1>1, <1>2 DEF Devices
<1>4. Kept(g, d)
  BY <1>2 DEF Devices, Kept, SamePll
<1>5. PICK ws : ws = <<Wr(10, [filter |-> x]), Wr(11, [corner |-> y])>>
  OBVIOUS
<1>6. Apart(ws)
  <2>1. PICK p, q : p = Wr(10, [filter |-> x]) /\ q = Wr(11, [corner |-> y])  OBVIOUS
  <2>2. Aside(p) /\ Aside(q)  BY <1>1, <2>1, AsideOne
  <2>3. Apart(<<p>> \o <<q>>)  BY <2>2, ApartOne, ApartCat
  <2>4. ws = <<p>> \o <<q>>  BY <1>5, <2>1
  <2> QED BY <2>3, <2>4
<1>7. e = Writes(g, ws)
  BY <1>1, <1>2, <1>5 DEF SetFilter
<1>8. e \in Devices /\ Kept(e, g)
  BY <1>3, <1>6, <1>7, ApartIs, ApartKept
<1>9. Kept(e, d)
  BY <1>4, <1>8, KeptTrans
<1>10. e.int_freq \in Nat
  BY <1>8 DEF Devices
<1> QED BY <1>8, <1>9, <1>10

(* When the intermediate frequency moves, the tuner goes after it.         *)
LEMMA MoveIfIs ==
  ASSUME NEW d, Sound(d), NEW e, e = MoveIf(d)
  PROVE  Sound(e)
<1>1. CASE ~ d.ok
  BY <1>1 DEF MoveIf
<1>2. CASE d.ok
  <2>1. PICK x : x = SetIf(d, d.int_freq)
    OBVIOUS
  <2>2. d \in Devices /\ d.int_freq \in Int
    BY DEF Sound, Devices
  <2>3. x \in Devices /\ Kept(x, d)
    BY <2>1, <2>2, SetIfIs
  <2>4. Sound(x)
    BY <2>3, SoundKept
  <2>5. e = Follow(x)
    BY <1>2, <2>1 DEF MoveIf
  <2>6. CASE ~ x.ok
    BY <2>4, <2>5, <2>6 DEF Follow
  <2>7. CASE x.ok
    <3>1. e = SetCenter(x, x.freq)
      BY <2>5, <2>7 DEF Follow, Retune
    <3>2. x.freq \in Nat /\ (x.direct => x.type = "none")
      BY <2>3, <2>4 DEF Devices, Sound
    <3> QED BY <2>3, <3>1, <3>2, SetCenterIs
  <2> QED BY <2>6, <2>7
<1> QED BY <1>1, <1>2

BandFits(bw) == Band(bw).int_freq \in Nat /\ Band(bw).filter \in Int /\ Band(bw).corner \in Int

(* rtlsdr_set_sample_rate() keeps what is shown true.                      *)
LEMMA SetSampleRateIs ==
  ASSUME NEW d, Sound(d), NEW rate, BandFits(rate), NEW e, e = SetSampleRate(d, rate)
  PROVE  Sound(e)
<1>0. d \in Devices
  BY DEF Sound
<1>1. PICK b : b = IF d.type = "none" THEN d ELSE Repeater(SetBw(Repeater(d, TRUE), rate), FALSE)
  OBVIOUS
<1>2. Sound(b)
  <2>1. CASE d.type = "none"
    BY <1>1, <2>1
  <2>2. CASE d.type # "none"
    <3>1. PICK r, x, y : r = Repeater(d, TRUE) /\ x = SetFilter(r, Band(rate)) /\ y = MoveIf(x)
      OBVIOUS
    <3>2. r \in Devices /\ Kept(r, d)
      BY <1>0, <3>1, RepeaterIs
    <3>3. x \in Devices /\ Kept(x, r)
      <4>1. PICK w : w = Band(rate)  OBVIOUS
      <4>2. w.int_freq \in Nat /\ w.filter \in Int /\ w.corner \in Int  BY <4>1 DEF BandFits
      <4> QED BY <3>1, <3>2, <4>1, <4>2, SetFilterIs
    <3>4. Sound(x)
      BY <3>2, <3>3, SoundKept
    <3>5. Sound(y)
      BY <3>1, <3>4, MoveIfIs
    <3>6. b = Repeater(y, FALSE)
      BY <1>1, <2>2, <3>1 DEF SetBw
    <3>7. b \in Devices /\ Kept(b, y)
      BY <3>5, <3>6, RepeaterIs DEF Sound
    <3> QED BY <3>5, <3>7, SoundKept
  <2> QED BY <2>1, <2>2
<1>3. PICK g, x, y : g = [b EXCEPT !.ok = TRUE] /\ x = Demod(g, 4) /\ y = Demod(x, 2)
  OBVIOUS
<1>4. g \in Devices /\ Kept(g, b)
  BY <1>2, <1>3, AgainIs DEF Sound
<1>5. x \in Devices /\ Kept(x, g)
  <2>1. 4 \in Nat  OBVIOUS
  <2> QED BY <1>3, <1>4, <2>1, DemodIs, Zenon
<1>6. y \in Devices /\ Kept(y, x)
  <2>1. 2 \in Nat  OBVIOUS
  <2> QED BY <1>3, <1>5, <2>1, DemodIs, Zenon
<1>7. e = [y EXCEPT !.repeater = FALSE]
  BY <1>1, <1>3 DEF SetSampleRate
<1>8. e \in Devices /\ Kept(e, y)
  <2>1. e \in Devices  BY <1>6, <1>7 DEF Devices
  <2> QED BY <1>6, <1>7, <2>1 DEF Devices, Kept, SamePll
<1>9. Sound(g) /\ Sound(x) /\ Sound(y)
  BY <1>2, <1>4, <1>5, <1>6, SoundKept
<1> QED BY <1>8, <1>9, SoundKept

(* rtlsdr_set_tuner_gain_mode() and rtlsdr_set_tuner_gain()                *)
LEMMA SetGainIs ==
  ASSUME NEW d \in Devices, NEW manual \in BOOLEAN, NEW gain \in Nat, NEW e, e = SetGain(d, manual, gain)
  PROVE  e \in Devices /\ Kept(e, d)
<1>1. PICK g : g = [d EXCEPT !.ok = TRUE]
  OBVIOUS
<1>2. g \in Devices /\ Kept(g, d)
  BY <1>1, AgainIs
<1>3. PICK ws : /\ e = Writes(g, ws)
                /\ ws = IF manual
                          THEN <<Wr(5, [lna_auto |-> FALSE]), Wr(7, [mix_auto |-> FALSE]), Poll, Poll, Wr(12, [vga |-> 8]),
                                 Wr(5, [lna |-> gain]), Wr(7, [mix |-> gain])>>
                          ELSE <<Wr(5, [lna_auto |-> TRUE]), Wr(7, [mix_auto |-> TRUE]), Wr(12, [vga |-> 11])>>
  BY <1>1 DEF SetGain
<1>4. Apart(ws)
  <2>1. PICK a1, a2, b1, b2, v1, v2, l, m :
          /\ a1 = Wr(5, [lna_auto |-> FALSE]) /\ a2 = Wr(5, [lna_auto |-> TRUE])
          /\ b1 = Wr(7, [mix_auto |-> FALSE]) /\ b2 = Wr(7, [mix_auto |-> TRUE])
          /\ v1 = Wr(12, [vga |-> 8]) /\ v2 = Wr(12, [vga |-> 11])
          /\ l = Wr(5, [lna |-> gain]) /\ m = Wr(7, [mix |-> gain])
    OBVIOUS
  <2>2. Aside(a1) /\ Aside(a2) /\ Aside(b1) /\ Aside(b2)
    BY <2>1, AsideOne
  <2>3. Aside(v1) /\ Aside(v2) /\ Aside(l) /\ Aside(m) /\ Aside(Poll)
    <3>1. 8 \in Int \cup BOOLEAN /\ 11 \in Int \cup BOOLEAN /\ gain \in Int \cup BOOLEAN
          /\ 5 \in {5, 7, 10, 11, 12, 15} /\ 7 \in {5, 7, 10, 11, 12, 15} /\ 12 \in {5, 7, 10, 11, 12, 15}  OBVIOUS
    <3>2. Aside(v1) /\ Aside(v2) /\ Aside(l) /\ Aside(m)  BY <2>1, <3>1, AsideOne, Zenon
    <3>3. Aside(Poll)  BY PollIs DEF Aside
    <3> QED BY <3>2, <3>3
  <2>4. CASE manual
    <3>1. ws = <<a1, b1, Poll, Poll, v1, l, m>>  BY <1>3, <2>1, <2>4
    <3>2. DOMAIN ws = 1 .. 7 /\ \A i \in 1 .. 7 : Aside(ws[i])  BY <2>2, <2>3, <3>1
    <3>3. ws \in Seq(Steps) /\ Len(ws) = 7  BY <2>2, <2>3, <3>1 DEF Aside
    <3> QED BY <3>2, <3>3 DEF Apart, Aside
  <2>5. CASE ~ manual
    <3>1. ws = <<a2, b2, v2>>  BY <1>3, <2>1, <2>5
    <3>2. DOMAIN ws = 1 .. 3 /\ \A i \in 1 .. 3 : Aside(ws[i])  BY <2>2, <2>3, <3>1
    <3>3. ws \in Seq(Steps) /\ Len(ws) = 3  BY <2>2, <2>3, <3>1 DEF Aside
    <3> QED BY <3>2, <3>3 DEF Apart, Aside
  <2> QED BY <2>4, <2>5
<1>5. e \in Devices /\ Kept(e, g)
  BY <1>2, <1>3, <1>4, ApartIs, ApartKept
<1> QED BY <1>2, <1>5, KeptTrans

(* The gain is beside the loop.                                            *)
LEMMA GainByTunerIs ==
  ASSUME NEW d \in Devices, NEW manual \in BOOLEAN, NEW gain \in Nat, NEW e, e = GainByTuner(d, manual, gain)
  PROVE  e \in Devices /\ Kept(e, d)
<1>1. CASE d.type = "none"
  <2>1. e = [d EXCEPT !.ok = TRUE]  BY <1>1 DEF GainByTuner
  <2> QED BY <2>1, AgainIs
<1>2. CASE d.type # "none"
  <2>1. PICK r, x : r = Repeater(d, TRUE) /\ x = SetGain(r, manual, gain)
    OBVIOUS
  <2>2. r \in Devices /\ Kept(r, d)
    BY <2>1, RepeaterIs
  <2>3. x \in Devices /\ Kept(x, r)
    BY <2>1, <2>2, SetGainIs
  <2>4. e = Repeater(x, FALSE)
    BY <1>2, <2>1 DEF GainByTuner
  <2>5. e \in Devices /\ Kept(e, x)
    BY <2>3, <2>4, RepeaterIs
  <2>6. Kept(x, d)
    BY <2>2, <2>3, KeptTrans
  <2> QED BY <2>5, <2>6, KeptTrans
<1> QED BY <1>1, <1>2

(* rtlsdr_set_tuner_gain_mode() keeps what is shown true.                  *)
LEMMA SetGainModeIs ==
  ASSUME NEW d, Sound(d), NEW manual \in BOOLEAN, NEW e, e = SetGainMode(d, manual)
  PROVE  Sound(e)
<1>1. d \in Devices /\ 0 \in Nat
  BY DEF Sound
<1>2. e = GainByTuner(d, manual, 0)
  BY DEF SetGainMode
<1>3. e \in Devices /\ Kept(e, d)
  BY <1>1, <1>2, GainByTunerIs
<1> QED BY <1>3, SoundKept

(* rtlsdr_set_tuner_gain() does.                                           *)
LEMMA SetTunerGainIs ==
  ASSUME NEW d, Sound(d), NEW gain \in Nat, NEW e, e = SetTunerGain(d, gain)
  PROVE  Sound(e)
<1>1. PICK x : x = GainByTuner(d, TRUE, gain)
  OBVIOUS
<1>2. x \in Devices /\ Kept(x, d)
  BY <1>1, GainByTunerIs DEF Sound
<1>3. PICK v : v = IF x.ok THEN gain ELSE 0
  OBVIOUS
<1>4. v \in Nat
  BY <1>3
<1>5. e = [x EXCEPT !.gain = v]
  BY <1>1, <1>3 DEF SetTunerGain
<1>6. e \in Devices /\ Kept(e, x)
  <2>1. e \in Devices  BY <1>2, <1>4, <1>5 DEF Devices
  <2> QED BY <1>2, <1>5, <2>1 DEF Devices, Kept, SamePll
<1>7. Sound(x)
  BY <1>2, SoundKept
<1> QED BY <1>6, <1>7, SoundKept


-----------------------------------------------------------------------------
(* Opening.                                                                *)

(* What is opened is not on a frequency yet.                               *)
Opening(e, d) == e \in Devices /\ e.type = d.type /\ e.direct = d.direct /\ e.freq = d.freq

(* Opening goes on.                                                        *)
LEMMA OpeningTrans ==
  ASSUME NEW d, NEW e, NEW x, Opening(e, d), Opening(x, e)
  PROVE  Opening(x, d)
BY DEF Opening

(* What leaves the rest alone goes on with it,                             *)
LEMMA OpeningRest ==
  ASSUME NEW d, NEW e \in Devices, SameRest(e, d)
  PROVE  Opening(e, d)
BY DEF SameRest, Opening

(* and what keeps the loop,                                                *)
LEMMA OpeningKept ==
  ASSUME NEW d, NEW e \in Devices, Kept(e, d)
  PROVE  Opening(e, d)
BY DEF Kept, Opening

(* and writes, whatever they are,                                          *)
LEMMA OpeningWrites ==
  ASSUME NEW d \in Devices, NEW ws \in Seq(Steps), NEW e, e = Writes(d, ws)
  PROVE  Opening(e, d)
<1>1. e \in Devices /\ Ran(e, d)
  BY WritesIs, Zenon
<1> QED BY <1>1 DEF Ran, SameBut, SameRest, Opening

(* and reads,                                                              *)
LEMMA OpeningBlank ==
  ASSUME NEW d \in Devices, NEW n \in Nat, NEW e, e = Writes(d, Blank(n))
  PROVE  Opening(e, d)
BY BlankIs, OpeningWrites, Zenon

(* and what is done only with a lock.                                      *)
LEMMA OpeningIfLocked ==
  ASSUME NEW d \in Devices, NEW ws \in Seq(Steps), NEW e, e = IfLocked(d, ws)
  PROVE  Opening(e, d)
<1>1. e = d \/ e = Writes(d, ws)
  BY DEF IfLocked
<1>2. CASE e = d
  BY <1>2 DEF Opening
<1>3. CASE e = Writes(d, ws)
  BY <1>3, OpeningWrites
<1> QED BY <1>1, <1>2, <1>3

(* The fields at first.                                                    *)
LEMMA ImagesAre ==
  Off \in Images /\ Initial \in Images
<1>1. DOMAIN Off = Names /\ DOMAIN Initial = Names /\ Off = [f \in Names |-> Off[f]] /\ Initial = [f \in Names |-> Initial[f]]
  BY DEF Off, Initial, Names
<1>2. \A f \in Names : Off[f] \in Int \cup BOOLEAN
  <2>1. Off.input \in Int /\ Off.lna \in Int /\ Off.mix \in Int /\ Off.filter \in Int /\ Off.corner \in Int
    BY DEF Off
  <2>2. Off.vga \in Int /\ Off.div \in Int /\ Off.nint \in Int /\ Off.sdm_lo \in Int /\ Off.sdm_hi \in Int
    BY DEF Off
  <2>3. Off.lna_auto \in BOOLEAN /\ Off.mix_auto \in BOOLEAN /\ Off.clock \in BOOLEAN
    BY DEF Off
  <2> QED BY <2>1, <2>2, <2>3, Zenon DEF Names
<1>3. \A f \in Names : Initial[f] \in Int \cup BOOLEAN
  <2>1. Initial.input \in Int /\ Initial.lna \in Int /\ Initial.mix \in Int /\ Initial.filter \in Int /\ Initial.corner \in Int
    BY DEF Initial
  <2>2. Initial.vga \in Int /\ Initial.div \in Int /\ Initial.nint \in Int /\ Initial.sdm_lo \in Int /\ Initial.sdm_hi \in Int
    BY DEF Initial
  <2>3. Initial.lna_auto \in BOOLEAN /\ Initial.mix_auto \in BOOLEAN /\ Initial.clock \in BOOLEAN
    BY DEF Initial
  <2> QED BY <2>1, <2>2, <2>3, Zenon DEF Names
<1> QED BY <1>1, <1>2, <1>3 DEF Images

(* r82xx_set_tv_standard(): the calibration of the filter.                 *)
LEMMA CalibrateIs ==
  ASSUME NEW d \in Devices, NEW e, e = Calibrate(d)
  PROVE  Opening(e, d)
<1>1. PICK lo \in Nat : lo = 56000
  OBVIOUS
<1>2. PICK on, off : on = Wr(15, [clock |-> TRUE]) /\ off = Wr(15, [clock |-> FALSE])
  OBVIOUS
<1>3. on \in Steps /\ off \in Steps /\ Poll \in Steps
  BY <1>2, AsideOne, PollIs DEF Aside
<1>4. PICK w, p : w = Writes(d, <<Poll, on, Poll>>) /\ p = SetPll(w, lo)
  OBVIOUS
<1>5. PICK ws : ws = <<Poll, Poll, off>> \o Blank(2)
  OBVIOUS
<1>6. e = IfLocked(p, ws)
  BY <1>1, <1>2, <1>4, <1>5 DEF Calibrate
<1>7. <<Poll, on, Poll>> \in Seq(Steps) /\ ws \in Seq(Steps)
  <2>1. Blank(2) \in Seq(Steps)  BY BlankIs
  <2> QED BY <1>3, <1>5, <2>1
<1>8. Opening(w, d)
  BY <1>4, <1>7, OpeningWrites
<1>9. Opening(p, w)
  <2>1. p \in Devices /\ SameRest(p, w)  BY <1>4, <1>8, PllIs DEF Opening
  <2> QED BY <2>1, OpeningRest
<1>10. Opening(e, p)
  BY <1>6, <1>7, <1>9, OpeningIfLocked DEF Opening
<1>11. Opening(p, d)
  BY <1>8, <1>9, OpeningTrans
<1> QED BY <1>10, <1>11, OpeningTrans

(* The calibration once or twice, and the filter.                          *)
LEMMA SetTvStandardIs ==
  ASSUME NEW d \in Devices, NEW twice \in BOOLEAN, NEW e, e = SetTvStandard(d, twice)
  PROVE  Opening(e, d)
<1>1. PICK g, s : g = [d EXCEPT !.ok = TRUE, !.shadow = Initial] /\ s = Writes(g, Blank(3))
  OBVIOUS
<1>2. Opening(g, d)
  <2>1. g \in Devices  BY <1>1, ImagesAre DEF Devices
  <2> QED BY <1>1, <2>1 DEF Devices, Opening
<1>3. Opening(s, g)
  <2>1. PICK n \in Nat : n = 3  OBVIOUS
  <2>2. s = Writes(g, Blank(n)) /\ g \in Devices  BY <1>1, <1>2, <2>1 DEF Opening
  <2> QED BY <2>2, OpeningBlank, Zenon
<1>4. PICK n \in Nat : n = IF s.ok THEN 3570 ELSE s.int_freq
  BY <1>3 DEF Opening, Devices
<1>5. PICK t, u, v : t = [s EXCEPT !.int_freq = n] /\ u = Calibrate(t) /\ v = Recalibrate(u, twice)
  OBVIOUS
<1>6. Opening(t, s)
  <2>1. t \in Devices  BY <1>3, <1>5 DEF Opening, Devices
  <2> QED BY <1>3, <1>5, <2>1 DEF Devices, Opening
<1>7. Opening(u, t)
  BY <1>5, <1>6, CalibrateIs DEF Opening
<1>8. Opening(v, u)
  <2>1. v = u \/ v = Calibrate(u)  BY <1>5 DEF Recalibrate
  <2>2. u \in Devices  BY <1>7 DEF Opening
  <2>3. CASE v = u  BY <2>2, <2>3 DEF Opening
  <2>4. CASE v = Calibrate(u)  BY <2>2, <2>4, CalibrateIs
  <2> QED BY <2>1, <2>3, <2>4
<1>9. PICK ws : ws = <<Wr(10, [filter |-> 16]), Wr(11, [corner |-> 107])>> \o Blank(7)
  OBVIOUS
<1>10. ws \in Seq(Steps)
  <2>0. PICK x \in Int, y \in Int : x = 16 /\ y = 107  OBVIOUS
  <2>1. PICK a, b : a = Wr(10, [filter |-> x]) /\ b = Wr(11, [corner |-> y])  OBVIOUS
  <2>1a. ws = <<a, b>> \o Blank(7)  BY <1>9, <2>0, <2>1
  <2>2. 10 \in {5, 7, 10, 11, 12, 15} /\ 11 \in {5, 7, 10, 11, 12, 15} /\ x \in Int \cup BOOLEAN /\ y \in Int \cup BOOLEAN
    OBVIOUS
  <2>3. Aside(a) /\ Aside(b)  BY <2>1, <2>2, AsideOne, Zenon
  <2>4. Blank(7) \in Seq(Steps)  BY BlankIs
  <2> QED BY <2>1a, <2>3, <2>4 DEF Aside
<1>11. e = IfLocked(v, ws)
  <2>1. t = [s EXCEPT !.int_freq = IF s.ok THEN 3570 ELSE @]
    BY <1>3, <1>4, <1>5 DEF Opening, Devices
  <2>2. e = IfLocked(Recalibrate(Calibrate([s EXCEPT !.int_freq = IF s.ok THEN 3570 ELSE @]), twice), ws)
    BY <1>1, <1>9 DEF SetTvStandard
  <2>3. e = IfLocked(Recalibrate(Calibrate(t), twice), ws)
    BY <2>1, <2>2
  <2> QED BY <1>5, <2>3
<1>12. Opening(e, v)
  BY <1>8, <1>10, <1>11, OpeningIfLocked DEF Opening
<1> QED BY <1>2, <1>3, <1>6, <1>7, <1>8, <1>12 DEF Opening

(* r82xx_sysfreq_sel().                                                    *)
LEMMA SysFreqSelIs ==
  ASSUME NEW d \in Devices, NEW e, e = SysFreqSel(d)
  PROVE  Opening(e, d)
<1>1. PICK s, w : s = Writes(d, Blank(4)) /\ w = Wr(5, [input |-> 0])
  OBVIOUS
<1>2. Opening(s, d)
  <2>1. 4 \in Nat  OBVIOUS
  <2> QED BY <1>1, <2>1, OpeningBlank, Zenon
<1>3. w \in Steps
  <2>1. 5 \in {5, 7, 10, 11, 12, 15} /\ 0 \in Int \cup BOOLEAN  OBVIOUS
  <2>2. Aside(w)  BY <1>1, <2>1, AsideOne, Zenon
  <2> QED BY <2>2 DEF Aside
<1>4. PICK g, p : g = [s EXCEPT !.input = 0] /\ p = IF s.ok THEN Writes(g, <<w>>) ELSE s
  OBVIOUS
<1>5. Opening(g, s)
  <2>1. g \in Devices  BY <1>2, <1>4 DEF Opening, Devices
  <2> QED BY <1>2, <1>4, <2>1 DEF Devices, Opening
<1>6. Opening(p, s)
  <2>1. CASE s.ok
    <3>1. <<w>> \in Seq(Steps)  BY <1>3
    <3>2. Opening(p, g)  BY <1>4, <1>5, <2>1, <3>1, OpeningWrites DEF Opening
    <3> QED BY <1>5, <3>2, OpeningTrans
  <2>2. CASE ~ s.ok
    BY <1>2, <1>4, <2>2 DEF Opening
  <2> QED BY <2>1, <2>2
<1>7. e = Writes(p, Blank(12))
  BY <1>1, <1>4 DEF SysFreqSel
<1>8. Opening(e, p)
  <2>1. 12 \in Nat  OBVIOUS
  <2> QED BY <1>6, <1>7, <2>1, OpeningBlank, Zenon DEF Opening
<1> QED BY <1>2, <1>6, <1>8 DEF Opening

(* Registers from one to another, as they are in the copy.                 *)
LEMMA BlockIs ==
  ASSUME NEW regs \in SUBSET Nat
  PROVE  Block(regs) \in Steps
<1>1. Block(regs) = [regs |-> regs, set |-> <<>>]
  BY DEF Block
<1>2. <<>> \in [{} -> Int \cup BOOLEAN] /\ {} \in SUBSET Names
  OBVIOUS
<1>3. <<>> \in SomeFields
  BY <1>2 DEF SomeFields
<1> QED BY <1>1, <1>3 DEF Steps

(* r82xx_init() shows no frequency.                                        *)
LEMMA R82xxInitIs ==
  ASSUME NEW d \in Devices, NEW twice \in BOOLEAN, NEW e, e = R82xxInit(d, twice)
  PROVE  Opening(e, d)
<1>1. PICK ws : ws = <<Block(5 .. 11), Block(12 .. 18), Block(19 .. 25), Block(26 .. 31)>>
  OBVIOUS
<1>2. ws \in Seq(Steps)
  <2>1. Block(5 .. 11) \in Steps /\ Block(12 .. 18) \in Steps  BY BlockIs
  <2>2. Block(19 .. 25) \in Steps /\ Block(26 .. 31) \in Steps  BY BlockIs
  <2> QED BY <1>1, <2>1, <2>2
<1>3. PICK g, a, t : g = [d EXCEPT !.ok = TRUE, !.shadow = Initial] /\ a = Writes(g, ws) /\ t = SetTvStandard(a, twice)
  OBVIOUS
<1>4. Opening(g, d)
  <2>1. g \in Devices  BY <1>3, ImagesAre DEF Devices
  <2> QED BY <1>3, <2>1 DEF Devices, Opening
<1>5. Opening(a, g)
  <2>1. a = Writes(g, ws) /\ g \in Devices  BY <1>3, <1>4 DEF Opening
  <2> QED BY <1>2, <2>1, OpeningWrites, Zenon
<1>6. Opening(t, a)
  BY <1>3, <1>5, SetTvStandardIs DEF Opening
<1>7. PICK n \in Nat : n = 6000
  OBVIOUS
<1>8. PICK u : u = [t EXCEPT !.ok = TRUE, !.int_freq = n]
  OBVIOUS
<1>9. Opening(u, t)
  <2>0. t \in Devices  BY <1>6 DEF Opening
  <2>1. u \in Devices  BY <1>8, <2>0 DEF Devices
  <2> QED BY <1>6, <1>8, <2>1 DEF Devices, Opening
<1>10. e = SysFreqSel(u)
  BY <1>1, <1>3, <1>7, <1>8 DEF R82xxInit
<1>11. Opening(e, u)
  BY <1>9, <1>10, SysFreqSelIs DEF Opening
<1> QED BY <1>4, <1>5, <1>6, <1>9, <1>11 DEF Opening

(* Looking for the tuner does not either.                                  *)
LEMMA ProbeIs ==
  ASSUME NEW d \in Devices, NEW chip \in {"R820T", "R828D"}, NEW e, e = Probe(d, chip)
  PROVE  e \in Devices /\ e.direct = d.direct /\ e.freq = d.freq
<1>1. CASE d.type # "none"
  BY <1>1 DEF Probe
<1>2. CASE d.type = "none"
  <2>1. PICK g, x : g = [d EXCEPT !.ok = TRUE] /\ x = Writes(g, Blank(2))
    OBVIOUS
  <2>2. g \in Devices /\ SameBut(g, d)
    BY <2>1, AgainIs
  <2>3. Opening(x, g)
    <3>1. 2 \in Nat  OBVIOUS
    <3> QED BY <2>1, <2>2, <3>1, OpeningBlank, Zenon
  <2>4. PICK t : t = IF x.ok /\ d.stick.chip = chip THEN chip ELSE x.type
    OBVIOUS
  <2>5. t \in {"none", "R820T", "R828D"}
    BY <2>3, <2>4 DEF Opening, Devices
  <2>6. e = [x EXCEPT !.type = t]
    BY <1>2, <2>1, <2>3, <2>4 DEF Probe, Opening, Devices
  <2>7. e \in Devices
    BY <2>3, <2>5, <2>6 DEF Opening, Devices
  <2>8. e.direct = x.direct /\ e.freq = x.freq
    BY <2>3, <2>6 DEF Opening, Devices
  <2> QED BY <2>2, <2>3, <2>7, <2>8 DEF Opening, SameBut, SameRest
<1> QED BY <1>1, <1>2

(* Nor does its initialisation; a stick without one is at 0.               *)
LEMMA InitTunerIs ==
  ASSUME NEW d \in Devices, ~ d.direct, d.freq = 0, NEW twice \in BOOLEAN, NEW e, e = InitTuner(d, twice)
  PROVE  Sound(e)
<1>1. CASE d.type = "none"
  <2>1. PICK x, y : x = Demod(d, 4) /\ y = [x EXCEPT !.direct = TRUE]
    OBVIOUS
  <2>2. x \in Devices /\ Kept(x, d)
    <3>1. 4 \in Nat  OBVIOUS
    <3> QED BY <2>1, <3>1, DemodIs, Zenon
  <2>2a. PICK w \in BOOLEAN : w = TRUE
    OBVIOUS
  <2>2b. y = [x EXCEPT !.direct = w]
    BY <2>1, <2>2a
  <2>3. y \in Devices
    BY <2>2, <2>2b DEF Devices
  <2>4. y.type = "none"
    BY <1>1, <2>1, <2>2 DEF Devices, Kept
  <2>5. e = SetCenter(y, 0)
    BY <1>1, <2>1 DEF InitTuner
  <2>6. 0 \in Nat
    OBVIOUS
  <2> QED BY <2>3, <2>4, <2>5, <2>6, SetCenterIs
<1>2. CASE d.type # "none"
  <2>1. PICK ref \in Refs : ref = IF d.type = "R828D" THEN 16000 ELSE 28800
    BY DEF Refs
  <2>2. PICK f \in Int : f = 3570
    OBVIOUS
  <2>3. PICK x, y : x = [d EXCEPT !.xtal = ref] /\ y = SetIf(x, f)
    OBVIOUS
  <2>4. Opening(x, d)
    <3>1. x \in Devices  BY <2>1, <2>3 DEF Devices
    <3> QED BY <2>3, <3>1 DEF Devices, Opening
  <2>5. Opening(y, x)
    <3>1. x \in Devices  BY <2>4 DEF Opening
    <3>2. y \in Devices /\ Kept(y, x)  BY <2>3, <3>1, SetIfIs
    <3> QED BY <3>2, OpeningKept
  <2>6. e = R82xxInit(y, twice)
    BY <1>2, <2>1, <2>2, <2>3 DEF InitTuner
  <2>7. Opening(e, y)
    BY <2>5, <2>6, R82xxInitIs DEF Opening
  <2>8. e \in Devices /\ ~ e.direct /\ e.freq = 0
    BY <2>4, <2>5, <2>7 DEF Opening
  <2> QED BY <2>8 DEF Sound, ShownOf
<1> QED BY <1>1, <1>2

(* A device as it is before anything is done.                              *)
LEMMA FreshIs ==
  ASSUME NEW s \in [chip : {"R820T", "R828D", "none"}, ref : Refs], NEW fuse \in Nat, NEW weak \in BOOLEAN,
         NEW e, e = Fresh(s, fuse, weak)
  PROVE  e \in Devices /\ ~ e.direct /\ e.freq = 0
<1>1. Off \in Images
  BY ImagesAre
<1>2. e \in Devices
  BY <1>1 DEF Fresh, Devices, Refs
<1> QED BY <1>2 DEF Fresh

(* rtlsdr_open() leaves nothing shown that is not so.                      *)
LEMMA OpenIs ==
  ASSUME NEW s \in [chip : {"R820T", "R828D", "none"}, ref : Refs], NEW fuse \in Nat, NEW weak \in BOOLEAN,
         NEW twice \in BOOLEAN, NEW e, e = Open(s, fuse, weak, twice)
  PROVE  Sound(e)
<1>1. PICK a, b, c, p, q, i : /\ a = Fresh(s, fuse, weak) /\ b = Demod(a, 1) /\ c = Repeater(b, TRUE)
                              /\ p = Probe(c, "R820T") /\ q = Probe(p, "R828D") /\ i = InitTuner(q, twice)
  OBVIOUS
<1>2. a \in Devices /\ ~ a.direct /\ a.freq = 0
  BY <1>1, FreshIs
<1>3. b \in Devices /\ Kept(b, a)
  <2>1. 1 \in Nat  OBVIOUS
  <2> QED BY <1>1, <1>2, <2>1, DemodIs, Zenon
<1>4. c \in Devices /\ Kept(c, b)
  BY <1>1, <1>3, RepeaterIs
<1>5. p \in Devices /\ p.direct = c.direct /\ p.freq = c.freq
  BY <1>1, <1>4, ProbeIs
<1>6. q \in Devices /\ q.direct = p.direct /\ q.freq = p.freq
  BY <1>1, <1>5, ProbeIs
<1>7. ~ q.direct /\ q.freq = 0
  BY <1>2, <1>3, <1>4, <1>5, <1>6 DEF Kept
<1>8. Sound(i)
  BY <1>1, <1>6, <1>7, InitTunerIs
<1>9. e = Repeater(i, FALSE)
  BY <1>1 DEF Open
<1>10. e \in Devices /\ Kept(e, i)
  BY <1>8, <1>9, RepeaterIs DEF Sound
<1> QED BY <1>8, <1>10, SoundKept


-----------------------------------------------------------------------------
(* Tuner.                                                                  *)

(* Between operations there is no result.                                  *)
LEMMA IdleIs ==
  ASSUME NEW d, Sound(d), NEW e, e = Idle(d)
  PROVE  Sound(e)
<1>1. d \in Devices
  BY DEF Sound
<1>2. PICK z \in Nat, w \in BOOLEAN : z = 0 /\ w = FALSE
  OBVIOUS
<1>2a. e = [d EXCEPT !.fuse = z, !.weak = w]
  BY <1>2 DEF Idle
<1>3. e \in Devices
  BY <1>1, <1>2, <1>2a DEF Devices
<1>4. Kept(e, d)
  BY <1>1, <1>2a DEF Devices, Kept, SamePll
<1> QED BY <1>3, <1>4, SoundKept

(* An operation starts with a fuse of its own.                             *)
LEMMA WithIs ==
  ASSUME Sound(sdr), NEW fuse \in Nat, NEW weak \in BOOLEAN, NEW e, e = With(fuse, weak)
  PROVE  Sound(e)
<1>1. sdr \in Devices
  BY DEF Sound
<1>2. PICK t : t = (sdr.trouble \/ weak)
  OBVIOUS
<1>3. t \in BOOLEAN
  BY <1>2, Zenon
<1>4. e = [sdr EXCEPT !.fuse = fuse, !.weak = weak, !.trouble = t]
  BY <1>1, <1>2 DEF With, Devices
<1>5. e \in Devices
  BY <1>1, <1>3, <1>4 DEF Devices
<1>6. Kept(e, sdr)
  BY <1>1, <1>4 DEF Devices, Kept, SamePll
<1> QED BY <1>5, <1>6, SoundKept

(* Setting the frequency, as a step.                                       *)
LEMMA CenterStep ==
  ASSUME Sound(sdr), NEW fuse \in Nat, NEW weak \in BOOLEAN, NEW f \in Nat, sdr' = Idle(SetCenter(With(fuse, weak), f))
  PROVE  Sound(sdr')
<1>1. PICK w, x : w = With(fuse, weak) /\ x = SetCenter(w, f)
  OBVIOUS
<1>2. Sound(w)
  BY <1>1, WithIs
<1>3. Sound(x)
  BY <1>1, <1>2, SetCenterIs DEF Sound
<1>4. sdr' = Idle(x)
  BY <1>1
<1> QED BY <1>3, <1>4, IdleIs

(* Setting the gain by itself, as a step.                                  *)
LEMMA AutoStep ==
  ASSUME Sound(sdr), NEW fuse \in Nat, NEW weak \in BOOLEAN, NEW manual \in BOOLEAN,
         sdr' = Idle(SetGainMode(With(fuse, weak), manual))
  PROVE  Sound(sdr')
<1>1. PICK w, x : w = With(fuse, weak) /\ x = SetGainMode(w, manual)
  OBVIOUS
<1>2. Sound(w)
  BY <1>1, WithIs
<1>3. Sound(x)
  BY <1>1, <1>2, SetGainModeIs
<1>4. sdr' = Idle(x)
  BY <1>1
<1> QED BY <1>3, <1>4, IdleIs

(* What the operations start from.                                         *)
LEMMA SoundInit == TunerInit => Sound(sdr)
<1> SUFFICES ASSUME TunerInit PROVE Sound(sdr)
  OBVIOUS
<1>1. NoStick \in [chip : {"R820T", "R828D", "none"}, ref : Refs]
  BY DEF NoStick, Refs
<1>2. sdr = Fresh(NoStick, 0, FALSE) /\ 0 \in Nat /\ FALSE \in BOOLEAN
  BY DEF TunerInit
<1>3. sdr \in Devices /\ ~ sdr.direct /\ sdr.freq = 0
  BY <1>1, <1>2, FreshIs
<1> QED BY <1>3 DEF Sound, ShownOf

(* No step shows what is not so.                                           *)
LEMMA SoundStep == Sound(sdr) /\ [TunerNext]_tunerVars => Sound(sdr)'
<1> SUFFICES ASSUME Sound(sdr), [TunerNext]_tunerVars PROVE Sound(sdr')
  BY DEF Sound, ShownOf
<1>0. \A fuse \in Fuse : fuse \in Nat
  BY TunerAssumption
<1>1. CASE Unplug
  <2>1. NoStick \in [chip : {"R820T", "R828D", "none"}, ref : Refs]
    BY DEF NoStick, Refs
  <2>2. sdr' = Fresh(NoStick, 0, FALSE) /\ 0 \in Nat /\ FALSE \in BOOLEAN
    BY <1>1 DEF Unplug
  <2>3. sdr' \in Devices /\ ~ sdr'.direct /\ sdr'.freq = 0
    BY <2>1, <2>2, FreshIs
  <2> QED BY <2>3 DEF Sound, ShownOf
<1>2. CASE Plug
  <2>1. PICK s \in Sticks, fuse \in Fuse, weak \in BOOLEAN, twice \in BOOLEAN : sdr' = Idle(Open(s, fuse, weak, twice))
    BY <1>2 DEF Plug
  <2>2. s \in [chip : {"R820T", "R828D", "none"}, ref : Refs]
    BY TunerAssumption DEF Refs
  <2>3. PICK x : x = Open(s, fuse, weak, twice)
    OBVIOUS
  <2>4. Sound(x)
    BY <1>0, <2>2, <2>3, OpenIs
  <2>5. sdr' = Idle(x)
    BY <2>1, <2>3
  <2> QED BY <2>4, <2>5, IdleIs
<1>3. ASSUME NEW fuse \in Fuse, NEW weak \in BOOLEAN, SetupCenter(fuse, weak)
      PROVE  Sound(sdr')
  <2>1. PICK f \in Nat : f = 1090000  OBVIOUS
  <2>2. sdr' = Idle(SetCenter(With(fuse, weak), f))  BY <1>3, <2>1 DEF SetupCenter
  <2> QED BY <1>0, <2>2, CenterStep
<1>4. ASSUME NEW fuse \in Fuse, NEW weak \in BOOLEAN, SetupRate(fuse, weak)
      PROVE  Sound(sdr')
  <2>1. PICK rate : rate = 2000  OBVIOUS
  <2>2. BandFits(rate)  BY <2>1, BandIs DEF BandFits
  <2>3. PICK w, x : w = With(fuse, weak) /\ x = SetSampleRate(w, rate)  OBVIOUS
  <2>4. sdr' = Idle(x)  BY <1>4, <2>1, <2>3 DEF SetupRate
  <2>5. Sound(w)  BY <1>0, <2>3, WithIs
  <2>6. Sound(x)  BY <2>2, <2>3, <2>5, SetSampleRateIs
  <2> QED BY <2>4, <2>6, IdleIs
<1>5. ASSUME NEW fuse \in Fuse, NEW weak \in BOOLEAN, SetupGain(fuse, weak)
      PROVE  Sound(sdr')
  BY <1>0, <1>5, AutoStep DEF SetupGain
<1>6. ASSUME NEW fuse \in Fuse, NEW weak \in BOOLEAN, NEW f \in Freqs, CmdFreq(fuse, weak, f)
      PROVE  Sound(sdr')
  <2>1. f \in Nat  BY TunerAssumption
  <2> QED BY <1>0, <1>6, <2>1, CenterStep DEF CmdFreq
<1>7. ASSUME NEW fuse \in Fuse, NEW weak \in BOOLEAN, CmdAuto(fuse, weak)
      PROVE  Sound(sdr')
  BY <1>0, <1>7, AutoStep DEF CmdAuto
<1>8. ASSUME NEW fuse \in Fuse, NEW weak \in BOOLEAN, NEW g \in Gains, CmdGain(fuse, weak, g)
      PROVE  Sound(sdr')
  <2>1. g \in Nat  BY TunerAssumption
  <2>2. PICK w, x, y : w = With(fuse, weak) /\ x = SetGainMode(w, TRUE) /\ y = SetTunerGain(x, g)  OBVIOUS
  <2>3. sdr' = Idle(y)  BY <1>8, <2>2 DEF CmdGain
  <2>4. Sound(w)  BY <1>0, <2>2, WithIs
  <2>5. Sound(x)  BY <2>2, <2>4, SetGainModeIs
  <2>6. Sound(y)  BY <2>1, <2>2, <2>5, SetTunerGainIs
  <2> QED BY <2>3, <2>6, IdleIs
<1>9. CASE UNCHANGED tunerVars
  BY <1>9 DEF tunerVars
<1> QED BY <1>1, <1>2, <1>3, <1>4, <1>5, <1>6, <1>7, <1>8, <1>9 DEF TunerNext

(* Whatever fails, what is shown as locked is what the registers say.      *)
THEOREM LockedAsShown == TunerSpec => []ShownIsSet
<1>1. Sound(sdr) => ShownIsSet
  BY DEF Sound, ShownOf, ShownIsSet, Tuned
<1> QED BY <1>1, SoundInit, SoundStep, PTL DEF TunerSpec

(* For every frequency in the range of the tuner, and by either reference, *)
(* the divider, the integer and the fraction of r82xx_set_pll_ref() make   *)
(* that frequency to 4 kHz.                                                *)
THEOREM NumbersTune ==
  ASSUME NEW lo \in Nat, Tunable(lo), NEW ref \in Refs, NEW regs,
         regs.div = DivNum(Divider(lo)), regs.nint = Packed(Nint(lo, ref)),
         regs.sdm_hi = PllSdm(lo, ref) \div 256, regs.sdm_lo = PllSdm(lo, ref) % 256
  PROVE  Gap(Lo(regs, ref), lo) <= 4
<1>1. IsSet(regs, lo, ref)
  BY SetByNumbers
<1> QED BY <1>1, SetIsNear

-----------------------------------------------------------------------------
(* The grains together.                                                    *)

(* At whatever grain a behaviour looks, what it does is what that module   *)
(* does alone, the other two stand still.                                  *)
THEOREM GrainsAreTheirs == DongleSpec => Spec /\ TunerSpec /\ UsbSpec
<1>1. DongleInit => Init /\ TunerInit /\ UsbInit  BY DEF DongleInit
<1>2. [DongleNext]_<<grain, grainVars>> => [Next]_vars /\ [TunerNext]_tunerVars /\ [UsbNext]_usbVars
  BY DEF DongleNext, TransferStep, TunerStep, UsbStep, grainVars
<1>3. QED  BY <1>1, <1>2, PTL DEF DongleSpec, Spec, TunerSpec, UsbSpec

(* Whoever asks for a register in the composed system gets its own reply.  *)
THEOREM DongleSafe == DongleSpec => []OwnReplyUnlessOverrun
  BY GrainsAreTheirs, OwnReplies, PTL

(* And in the composed system too the frequency that is shown as locked is *)
(* the one that the tuner has.                                             *)
THEOREM DongleTuned == DongleSpec => []ShownIsSet
  BY GrainsAreTheirs, LockedAsShown, PTL
=============================================================================
