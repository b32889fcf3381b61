--------------------------- MODULE IqStream_proofs ---------------------------
(***************************************************************************)
(* Proofs about IqStream, for every pool size, ring size and stall limit,  *)
(* and any number of faults and resets.                                    *)
(*                                                                         *)
(* None of the invariants that matter is inductive on its own.  StreamInv  *)
(* adds what they rest on: the stall counter is below its limit wherever   *)
(* it is about to grow; s_spump says whether there is a pump; a stream     *)
(* that is off is one that has not been started or whose start has failed; *)
(* while a stop is under way the receiver is not about to start; and a     *)
(* callback that delivered data left a trace the pump looks at.  TokenInv  *)
(* counts the tokens of each slot: the ones in the queue, the one that the *)
(* pump holds and the one that a callback still owes.                      *)
(***************************************************************************)
EXTENDS IqStream, FiniteSetTheorems, SequenceTheorems, TLAPS

(* The counter reaches its limit only between the end of a second and the  *)
(* escalation that resets it.                                              *)
StallInv == pump \notin {"flush", "reset", "prime", "escalate"} => stallSecs < StallLimit

PumpInv == /\ spump <=> pump # "none"
           /\ streaming => pump # "none"

RxInv == /\ rx \in {"start", "retry"} => ~streaming
         /\ rec \in {"wait", "flush", "free"} => rx # "start"

HeardInv == heard => moved \/ dropped

(* A slot whose transfer is out owes a token; the pump may hold another.   *)
Out(s)   == xfer[s] \in {"flight", "data", "void", "orphan"}
Holds(s) == pump \in {"submit", "retry"} /\ slot = s
Owed(s)  == (IF Out(s) THEN 1 ELSE 0) + (IF Holds(s) THEN 1 ELSE 0)

(* Until a start has got to a slot it has no token; it has one before a    *)
(* re-prime has got to it, and two at most: the re-prime posts a transfer  *)
(* whose late callback has just asked for that.                            *)
Untouched(s) == \/ rx \in {"start", "retry"}
                \/ rx \in {"alloc", "submit"} /\ ridx <= s
                \/ rx = "posted" /\ ~posted
Limit(s) == IF Untouched(s) THEN 0 ELSE IF pump = "prime" /\ pidx <= s THEN 1 ELSE 2

(* The queue q has no more than n (0, 1 or 2) tokens of the slot s.        *)
AtMost(q, s, n) ==
  /\ n \in 0 .. 2
  /\ n = 0 => \A i \in 1 .. Len(q) : q[i] # s
  /\ n = 1 => \A i, j \in 1 .. Len(q) : q[i] = s /\ q[j] = s => i = j
  /\ n = 2 => \A i, j, k \in 1 .. Len(q) :
                q[i] = s /\ q[j] = s /\ q[k] = s => i = j \/ j = k \/ i = k

Tokens   == \A s \in Slots : AtMost(queue, s, Limit(s) - Owed(s))
Starting == /\ pump \in {"flush", "reset", "prime", "escalate"} => rx = "run"
            /\ rx \in {"alloc", "submit", "posted"} /\ ~posted => ridx = 0
TokenInv == Tokens /\ Starting

TypeInv   == TypeOK /\ StallInv
StreamInv == PumpInv /\ RxInv /\ NothingFreedInUse /\ HeardInv

USE StreamAssumption DEF Slots, XferState, InFlight, PumpState, RxState, RecState, PipeState

-----------------------------------------------------------------------------
(* Facts about the helpers of the model.                                   *)

(* The pool is not empty.                                                  *)
LEMMA SlotZero == 0 \in Slots /\ N - 1 \in Slots
  OBVIOUS

(* What submitting does to the pool is well typed.                         *)
LEMMA SubmitType ==
  ASSUME TypeOK, NEW s \in Slots
  PROVE  AfterSubmit(s) \in [Slots -> XferState]
  BY DEF TypeOK, AfterSubmit

(* ... and so is cancelling it, with whatever becomes of the pipe.          *)
LEMMA CancelType ==
  ASSUME TypeOK, Clear
  PROVE  Cancelled \in [Slots -> XferState] /\ pipe' \in PipeState
  BY DEF TypeOK, Cancelled, Clear

(* A push leaves the ring within its size.                                  *)
LEMMA PushType ==
  ASSUME TypeOK, StreamPush
  PROVE  fill' \in 0 .. RingChunks /\ moved' \in BOOLEAN /\ dropped' \in BOOLEAN /\ heard' \in BOOLEAN
  BY DEF TypeOK, StreamPush

(* A send keeps the queue a sequence of slots.                              *)
LEMMA SendType ==
  ASSUME TypeOK, NEW s \in Slots, Send(s)
  PROVE  queue' \in Seq(Slots)
<1>1. queue \in Seq(Slots)  BY DEF TypeOK
<1>2. Append(queue, s) \in Seq(Slots)  BY <1>1
<1>3. queue' = queue \/ queue' = Append(queue, s)  BY DEF Send
<1>4. QED  BY <1>1, <1>2, <1>3

-----------------------------------------------------------------------------
(* The types, with the bound of the stall counter.                         *)

(* The types at boot.                                                      *)
LEMMA InitType == Init => TypeInv
<1> SUFFICES ASSUME Init PROVE TypeInv
  OBVIOUS
<1>1. /\ streaming \in BOOLEAN /\ moved \in BOOLEAN /\ dropped \in BOOLEAN /\ heard \in BOOLEAN
      /\ spump \in BOOLEAN /\ posted \in BOOLEAN /\ notified \in BOOLEAN
  BY Zenon DEF Init
<1>2. queue \in Seq(Slots) /\ xfer \in [Slots -> XferState]
  BY DEF Init
<1> QED BY <1>1, <1>2, SlotZero DEF Init, TypeInv, TypeOK, StallInv

(* The USB host and the device keep the types.                             *)
LEMMA HostType ==
  ASSUME TypeInv, Host \/ FallSilent \/ UserReset
  PROVE  TypeInv'
<1> USE DEF TypeInv
<1>1. ASSUME NEW s \in Slots, Complete(s) PROVE TypeInv'
  BY <1>1 DEF Complete, TypeOK, StallInv, pumpVars, rxVars, recVars
<1>2. ASSUME NEW s \in Slots, Fail(s) PROVE TypeInv'
  BY <1>2 DEF Fail, TypeOK, StallInv, pumpVars, rxVars, recVars
<1>3. ASSUME NEW s \in Slots, Callback(s) PROVE TypeInv'
  <2>1. queue' \in Seq(Slots)
    BY <1>3, SendType DEF Callback, TypeOK
  <2>2. fill' \in 0 .. RingChunks /\ moved' \in BOOLEAN /\ dropped' \in BOOLEAN /\ heard' \in BOOLEAN
    BY <1>3, PushType DEF Callback, TypeOK
  <2> QED BY <1>3, <2>1, <2>2 DEF Callback, TypeOK, StallInv, pumpVars, rxVars, recVars
<1>4. ASSUME NEW s \in Slots, OrphanCallback(s) PROVE TypeInv'
  <2>1. queue' \in Seq(Slots)
    BY <1>4, SendType DEF OrphanCallback, TypeOK
  <2>2. fill' \in 0 .. RingChunks /\ moved' \in BOOLEAN /\ dropped' \in BOOLEAN /\ heard' \in BOOLEAN
    BY <1>4, PushType DEF OrphanCallback, TypeOK
  <2> QED BY <1>4, <2>1, <2>2 DEF OrphanCallback, TypeOK, StallInv, pumpVars, rxVars, recVars
<1>5. CASE FallSilent
  BY <1>5 DEF FallSilent, TypeOK, StallInv, pumpVars, rxVars, recVars
<1>6. CASE UserReset
  BY <1>6 DEF UserReset, TypeOK, StallInv, streamVars, pumpVars, rxVars
<1> QED BY <1>1, <1>2, <1>3, <1>4, <1>5, <1>6 DEF Host

(* The pump task keeps the types.                                          *)
LEMMA PumpType ==
  ASSUME TypeInv, Pump
  PROVE  TypeInv'
<1> USE DEF TypeInv
<1>1. CASE PumpExit
  <2>1. spump' \in BOOLEAN
    BY <1>1, Zenon DEF PumpExit
  <2> QED BY <1>1, <2>1 DEF PumpExit, TypeOK, StallInv, streamVars, rxVars, recVars
<1>2. CASE PumpTake
  <2>1. slot' \in Slots /\ queue' \in Seq(Slots)
    BY <1>2 DEF PumpTake, TypeOK
  <2> QED BY <1>2, <2>1 DEF PumpTake, TypeOK, StallInv, rxVars, recVars
<1>3. CASE PumpTimeout
  BY <1>3 DEF PumpTimeout, TypeOK, StallInv, streamVars, rxVars, recVars
<1>4. CASE PumpSubmit
  <2>1. xfer' \in [Slots -> XferState]
    BY <1>4, SubmitType DEF PumpSubmit, TypeOK
  <2> QED BY <1>4, <2>1 DEF PumpSubmit, TypeOK, StallInv, rxVars, recVars
<1>5. CASE PumpRetry
  <2>1. queue' \in Seq(Slots)
    BY <1>5, SendType DEF PumpRetry, TypeOK
  <2> QED BY <1>5, <2>1 DEF PumpRetry, TypeOK, StallInv, rxVars, recVars
<1>6. CASE PumpLoop
  BY <1>6 DEF PumpLoop, TypeOK, StallInv, streamVars, rxVars, recVars
<1>7. CASE PumpSecond
  BY <1>7 DEF PumpSecond, TypeOK, StallInv, rxVars, recVars
<1>8. CASE PumpFlush
  <2>1. xfer' \in [Slots -> XferState] /\ pipe' \in PipeState
    BY <1>8, CancelType DEF PumpFlush
  <2> QED BY <1>8, <2>1 DEF PumpFlush, TypeOK, StallInv, rxVars, recVars
<1>9. CASE PumpReset
  BY <1>9, SlotZero DEF PumpReset, TypeOK, StallInv, rxVars, recVars
<1>10. CASE PumpPrime
  <2>1. xfer' \in [Slots -> XferState]
    BY <1>10, SubmitType DEF PumpPrime, TypeOK
  <2>2. pidx' \in Slots
    BY <1>10 DEF PumpPrime, TypeOK
  <2> QED BY <1>10, <2>1, <2>2 DEF PumpPrime, TypeOK, StallInv, rxVars, recVars
<1>11. CASE PumpEscalate
  BY <1>11 DEF PumpEscalate, TypeOK, StallInv, rxVars
<1> QED BY <1>1, <1>2, <1>3, <1>4, <1>5, <1>6, <1>7, <1>8, <1>9, <1>10, <1>11 DEF Pump

(* The receiver task keeps the types.                                      *)
LEMMA RxType ==
  ASSUME TypeInv, Rx
  PROVE  TypeInv'
<1> USE DEF TypeInv
<1>1. CASE RxStart
  <2>1. /\ streaming' \in BOOLEAN /\ moved' \in BOOLEAN /\ dropped' \in BOOLEAN
        /\ heard' \in BOOLEAN /\ spump' \in BOOLEAN /\ posted' \in BOOLEAN
    BY <1>1, Zenon DEF RxStart
  <2>2. queue' \in Seq(Slots)
    BY <1>1 DEF RxStart
  <2>3. pump' \in PumpState /\ stallSecs' \in 0 .. StallLimit /\ StallInv'
    BY <1>1 DEF RxStart, TypeOK, StallInv
  <2> QED BY <1>1, <2>1, <2>2, <2>3, SlotZero DEF RxStart, TypeOK, recVars
<1>2. CASE RxAlloc
  BY <1>2 DEF RxAlloc, TypeOK, StallInv, pumpVars, recVars
<1>3. CASE RxSubmit
  <2>1. xfer' \in [Slots -> XferState] /\ ridx' \in Slots
    BY <1>3, SubmitType DEF RxSubmit, TypeOK
  <2>2. rx' \in RxState
    BY <1>3 DEF RxSubmit, TypeOK
  <2>3. posted' \in BOOLEAN
    BY <1>3, Zenon DEF RxSubmit, TypeOK
  <2>4. UNCHANGED <<streaming, pipe, queue, fill, moved, dropped, heard, pumpVars, recVars,
                    faults, resets>>
    BY <1>3 DEF RxSubmit
  <2> QED BY <2>1, <2>2, <2>3, <2>4 DEF TypeOK, StallInv, pumpVars, recVars
<1>4. CASE RxPosted
  <2>1. posted' \in BOOLEAN /\ streaming' \in BOOLEAN
    BY <1>4, Zenon DEF RxPosted, TypeOK
  <2>2. rx' \in RxState /\ ridx' \in Slots
    BY <1>4, SlotZero DEF RxPosted, RxState
  <2> QED BY <1>4, <2>1, <2>2 DEF RxPosted, TypeOK, StallInv, pumpVars, recVars
<1>5. CASE RxRetry
  BY <1>5 DEF RxRetry, TypeOK, StallInv, streamVars, pumpVars, recVars
<1>6. CASE RxRead
  BY <1>6 DEF RxRead, TypeOK, StallInv, pumpVars, rxVars, recVars
<1> QED BY <1>1, <1>2, <1>3, <1>4, <1>5, <1>6 DEF Rx

(* The recovery task keeps the types.                                      *)
LEMMA RecoverType ==
  ASSUME TypeInv, Recover
  PROVE  TypeInv'
<1> USE DEF TypeInv
<1>1. CASE RecTake
  BY <1>1 DEF RecTake, TypeOK, StallInv, pumpVars, rxVars
<1>2. CASE RecWait
  BY <1>2 DEF RecWait, TypeOK, StallInv, streamVars, pumpVars, rxVars
<1>3. CASE RecFlush
  <2>1. xfer' \in [Slots -> XferState] /\ pipe' \in PipeState
    BY <1>3, CancelType DEF RecFlush
  <2> QED BY <1>3, <2>1 DEF RecFlush, TypeOK, StallInv, pumpVars, rxVars
<1>4. CASE RecFree
  BY <1>4 DEF RecFree, TypeOK, StallInv, pumpVars, rxVars
<1>5. CASE RecRelease
  BY <1>5 DEF RecRelease, TypeOK, StallInv, pumpVars, rxVars
<1>6. CASE RecClaim
  BY <1>6 DEF RecClaim, TypeOK, StallInv, pumpVars, rxVars
<1>7. CASE RecReport
  BY <1>7 DEF RecReport, TypeOK, StallInv, streamVars, pumpVars, rxVars
<1> QED BY <1>1, <1>2, <1>3, <1>4, <1>5, <1>6, <1>7 DEF Recover

(* Every variable keeps its type: the indices stay within the pool, the    *)
(* ring within its size and the stall counter within its limit, whatever   *)
(* the pump, the receiver, the recovery and the host do in any order.      *)
THEOREM TypeCorrect == Spec => []TypeOK
<1>1. TypeInv /\ [Next]_vars => TypeInv'
  <2> SUFFICES ASSUME TypeInv, [Next]_vars PROVE TypeInv'
    OBVIOUS
  <2>1. CASE UNCHANGED vars
    BY <2>1 DEF vars, streamVars, pumpVars, rxVars, recVars, TypeInv, TypeOK, StallInv
  <2> QED BY <2>1, HostType, PumpType, RxType, RecoverType DEF Next
<1>2. TypeInv => TypeOK
  BY DEF TypeInv
<1> QED BY <1>1, <1>2, InitType, PTL DEF Spec

-----------------------------------------------------------------------------
(* The safety invariants.                                                  *)

(* Every step keeps what relates the actors.                               *)
LEMMA StreamStep ==
  ASSUME TypeOK, StreamInv, [Next]_vars
  PROVE  StreamInv'
<1> USE DEF StreamInv, PumpInv, RxInv, NothingFreedInUse, HeardInv
<1>1. ASSUME Host \/ FallSilent \/ UserReset PROVE StreamInv'
  BY <1>1 DEF TypeOK, Host, Complete, Fail, Callback, OrphanCallback, StreamPush, FallSilent, UserReset,
              streamVars, pumpVars, rxVars, recVars
<1>2. CASE Pump
  <2>1. CASE PumpExit
    BY <2>1 DEF PumpExit, TypeOK, streamVars, rxVars, recVars
  <2>2. CASE PumpTake \/ PumpTimeout \/ PumpLoop
    BY <2>2 DEF PumpTake, PumpTimeout, PumpLoop, TypeOK, streamVars, rxVars, recVars
  <2>3. CASE PumpSubmit \/ PumpRetry
    BY <2>3 DEF PumpSubmit, PumpRetry, TypeOK, rxVars, recVars
  <2>4. CASE PumpSecond
    BY <2>4 DEF PumpSecond, TypeOK, rxVars, recVars
  <2>5. CASE PumpFlush \/ PumpReset \/ PumpPrime
    BY <2>5 DEF PumpFlush, PumpReset, PumpPrime, TypeOK, rxVars, recVars
  <2>6. CASE PumpEscalate
    BY <2>6 DEF PumpEscalate, TypeOK, rxVars
  <2> QED BY <1>2, <2>1, <2>2, <2>3, <2>4, <2>5, <2>6 DEF Pump
<1>3. CASE Rx
  <2>1. CASE RxStart
    BY <2>1 DEF RxStart, TypeOK, recVars
  <2>2. CASE RxAlloc \/ RxSubmit
    BY <2>2 DEF RxAlloc, RxSubmit, TypeOK, pumpVars, recVars
  <2>3. CASE RxPosted
    BY <2>3 DEF RxPosted, TypeOK, pumpVars, recVars
  <2>4. CASE RxRetry \/ RxRead
    BY <2>4 DEF RxRetry, RxRead, TypeOK, streamVars, pumpVars, rxVars, recVars
  <2> QED BY <1>3, <2>1, <2>2, <2>3, <2>4 DEF Rx
<1>4. CASE Recover
  <2>1. CASE RecTake
    BY <2>1 DEF RecTake, TypeOK, pumpVars, rxVars
  <2>2. CASE RecWait
    BY <2>2 DEF RecWait, TypeOK, streamVars, pumpVars, rxVars
  <2>3. CASE RecFlush \/ RecFree \/ RecRelease \/ RecClaim \/ RecReport
    BY <2>3 DEF RecFlush, RecFree, RecRelease, RecClaim, RecReport, TypeOK, streamVars, pumpVars, rxVars
  <2> QED BY <1>4, <2>1, <2>2, <2>3 DEF Recover
<1>5. CASE UNCHANGED vars
  BY <1>5 DEF vars, streamVars, pumpVars, rxVars, recVars
<1> QED BY <1>1, <1>2, <1>3, <1>4, <1>5 DEF Next

(* The strengthened invariant holds throughout.                            *)
THEOREM StreamInvariant == Spec => []StreamInv
<1>1. Init => StreamInv
  BY DEF Init, StreamInv, PumpInv, RxInv, NothingFreedInUse, HeardInv
<1> QED BY <1>1, StreamStep, TypeCorrect, PTL DEF Spec

(* A stream that is on has a pump: no start, failed start, stop or restart *)
(* leaves s_streaming set with nobody posting transfers.                   *)
THEOREM PumpAlive == Spec => []NoDeadPump
<1>1. StreamInv => NoDeadPump
  BY DEF StreamInv, PumpInv, NoDeadPump
<1> QED BY <1>1, StreamInvariant, PTL

(* esp_libusb_stream_stop() frees the pool only when neither the pump nor  *)
(* the start loop can touch it.                                            *)
THEOREM FreedAlone == Spec => []NothingFreedInUse
<1>1. StreamInv => NothingFreedInUse
  BY DEF StreamInv
<1> QED BY <1>1, StreamInvariant, PTL

(* Both, as the run checks them.                                           *)
THEOREM PumpOutlasts == Spec => []PumpOutlastsPool
  BY PumpAlive, FreedAlone, PTL DEF PumpOutlastsPool

(* The pump re-primes only if no callback has delivered data since it      *)
(* last looked: an overflowing ring is never taken for a stall.            *)
THEOREM FlushSilent == Spec => FlushOnlyWhenSilent
<1>1. StreamInv /\ [Next]_vars => [pump' = "flush" /\ pump # "flush" => ~heard]_vars
  <2> SUFFICES ASSUME StreamInv, Next, pump' = "flush", pump # "flush" PROVE ~heard
    BY DEF vars
  <2>1. PumpSecond
    BY DEF Next, Host, Complete, Fail, Callback, OrphanCallback, FallSilent, UserReset, Pump, PumpExit,
           PumpTake, PumpTimeout, PumpSubmit, PumpRetry, PumpLoop, PumpFlush, PumpReset, PumpPrime,
           PumpEscalate, Rx, RxStart, RxAlloc, RxSubmit, RxPosted, RxRetry, RxRead, Recover, RecTake,
           RecWait, RecFlush, RecFree, RecRelease, RecClaim, RecReport, pumpVars
  <2> QED BY <2>1 DEF PumpSecond, Stalled, StreamInv, HeardInv
<1> QED BY <1>1, StreamInvariant, PTL DEF Spec, FlushOnlyWhenSilent

-----------------------------------------------------------------------------
(* The queue of tokens.                                                    *)

(* An empty queue has none.                                                *)
LEMMA NoTokens ==
  ASSUME NEW s, NEW n \in 0 .. 2
  PROVE  AtMost(<<>>, s, n)
  BY DEF AtMost

(* What is bounded is bounded by more.                                     *)
LEMMA AtMostMore ==
  ASSUME NEW q \in Seq(Slots), NEW s \in Slots, NEW n \in Int, NEW m \in 0 .. 2,
         AtMost(q, s, n), n <= m
  PROVE  AtMost(q, s, m)
<1>1. n \in 0 .. 2  BY DEF AtMost
<1>2. CASE n = 0  BY <1>2 DEF AtMost
<1>3. CASE n = 1
  <2>1. m = 1 \/ m = 2  BY <1>3
  <2>2. QED  BY <1>3, <2>1 DEF AtMost
<1>4. CASE n = 2
  <2>1. m = 2  BY <1>4
  <2>2. QED  BY <1>4, <2>1 DEF AtMost
<1>5. n = 0 \/ n = 1 \/ n = 2  BY <1>1
<1>6. QED  BY <1>2, <1>3, <1>4, <1>5

(* One more token.                                                         *)
LEMMA AtMostSend ==
  ASSUME NEW q \in Seq(Slots), NEW s \in Slots, NEW t \in Slots, NEW n \in Int,
         AtMost(q, t, n), n < 2
  PROVE  /\ AtMost(Append(q, s), t, n + 1)
         /\ s # t => AtMost(Append(q, s), t, n)
<1> DEFINE r == Append(q, s)
<1>1. /\ Len(r) = Len(q) + 1 /\ r[Len(q) + 1] = s /\ Len(q) \in Nat
      /\ \A i \in 1 .. Len(q) : r[i] = q[i]
      /\ n = 0 \/ n = 1
      BY DEF AtMost
<1>2. \A i \in 1 .. Len(r) : i = Len(q) + 1 \/ i \in 1 .. Len(q)  BY <1>1
<1> HIDE DEF r
<1>3. CASE n = 0
  <2>1. \A i \in 1 .. Len(r) : r[i] = t => i = Len(q) + 1  BY <1>1, <1>2, <1>3 DEF AtMost
  <2>2. \A i, j \in 1 .. Len(r) : r[i] = t /\ r[j] = t => i = j  BY <2>1
  <2>3. s # t => \A i \in 1 .. Len(r) : r[i] # t  BY <1>1, <2>1
  <2>4. QED  BY <1>3, <2>2, <2>3 DEF AtMost, r
<1>4. CASE n = 1
  <2>1. \A i, j \in 1 .. Len(q) : q[i] = t /\ q[j] = t => i = j  BY <1>4 DEF AtMost
  <2>2. \A i, j, k \in 1 .. Len(r) :
          r[i] = t /\ r[j] = t /\ r[k] = t => i = j \/ j = k \/ i = k
    <3>1. \A i, j \in 1 .. Len(r) : r[i] = t /\ r[j] = t => i = Len(q) + 1 \/ j = Len(q) + 1 \/ i = j
      BY <1>1, <1>2, <2>1
    <3> QED BY <3>1
  <2>3. s # t => \A i, j \in 1 .. Len(r) : r[i] = t /\ r[j] = t => i = j
        BY <1>1, <1>2, <2>1
  <2>4. QED  BY <1>4, <2>2, <2>3 DEF AtMost, r
<1>5. QED  BY <1>1, <1>3, <1>4

(* The token of another slot.                                              *)
LEMMA AtMostOther ==
  ASSUME NEW q \in Seq(Slots), NEW s \in Slots, NEW t \in Slots, NEW n \in Int,
         AtMost(q, t, n), s # t
  PROVE  AtMost(Append(q, s), t, n)
<1>1. CASE n < 2  BY <1>1, AtMostSend
<1>2. CASE ~(n < 2)
  <2> DEFINE r == Append(q, s)
  <2>1. /\ Len(r) = Len(q) + 1 /\ r[Len(q) + 1] = s /\ Len(q) \in Nat
        /\ \A i \in 1 .. Len(q) : r[i] = q[i]
        OBVIOUS
  <2>2. n = 2  BY <1>2 DEF AtMost
  <2>3. \A i \in 1 .. Len(r) : i = Len(q) + 1 \/ i \in 1 .. Len(q)  BY <2>1
  <2>4. \A i, j, k \in 1 .. Len(q) :
          q[i] = t /\ q[j] = t /\ q[k] = t => i = j \/ j = k \/ i = k
        BY <2>2 DEF AtMost
  <2> HIDE DEF r
  <2>5. \A i, j, k \in 1 .. Len(r) :
          r[i] = t /\ r[j] = t /\ r[k] = t => i = j \/ j = k \/ i = k
        BY <2>1, <2>3, <2>4
  <2>6. QED  BY <2>2, <2>5 DEF AtMost, r
<1>3. QED  BY <1>1, <1>2

(* A token is taken.                                                       *)
LEMMA AtMostTake ==
  ASSUME NEW q \in Seq(Slots), q # <<>>, NEW t \in Slots, NEW n \in Int, AtMost(q, t, n)
  PROVE  /\ AtMost(Tail(q), t, n)
         /\ Head(q) = t => AtMost(Tail(q), t, n - 1)
<1> DEFINE r == Tail(q)
<1>1. /\ Len(r) = Len(q) - 1 /\ Len(q) \in Nat \ {0} /\ Head(q) = q[1]
      /\ \A i \in 1 .. Len(q) - 1 : r[i] = q[i + 1]
      BY HeadTailProperties
<1>2. \A i \in 1 .. Len(r) : i + 1 \in 1 .. Len(q) /\ i + 1 # 1 /\ r[i] = q[i + 1]  BY <1>1
<1>3. 1 \in 1 .. Len(q)  BY <1>1
<1> HIDE DEF r
<1>4. CASE n = 0
  <2>1. \A i \in 1 .. Len(q) : q[i] # t  BY <1>4 DEF AtMost
  <2>2. (\A i \in 1 .. Len(r) : r[i] # t) /\ Head(q) # t  BY <1>1, <1>2, <1>3, <2>1
  <2>3. QED  BY <1>4, <2>2 DEF AtMost, r
<1>5. CASE n = 1
  <2>1. \A i, j \in 1 .. Len(q) : q[i] = t /\ q[j] = t => i = j  BY <1>5 DEF AtMost
  <2>2. ASSUME NEW i \in 1 .. Len(r), NEW j \in 1 .. Len(r), r[i] = t, r[j] = t
        PROVE  i = j
    <3>1. i + 1 \in 1 .. Len(q) /\ j + 1 \in 1 .. Len(q) /\ q[i + 1] = t /\ q[j + 1] = t
          BY <1>2, <2>2
    <3>2. i + 1 = j + 1  BY <2>1, <3>1
    <3>3. QED  BY <1>1, <3>2
  <2>3. Head(q) = t => \A i \in 1 .. Len(r) : r[i] # t  BY <1>1, <1>2, <1>3, <2>1
  <2>4. QED  BY <1>5, <2>2, <2>3 DEF AtMost, r
<1>6. CASE n = 2
  <2>1. \A i, j, k \in 1 .. Len(q) :
          q[i] = t /\ q[j] = t /\ q[k] = t => i = j \/ j = k \/ i = k
        BY <1>6 DEF AtMost
  <2>2. ASSUME NEW i \in 1 .. Len(r), NEW j \in 1 .. Len(r), NEW k \in 1 .. Len(r),
               r[i] = t, r[j] = t, r[k] = t
        PROVE  i = j \/ j = k \/ i = k
    <3>1. /\ i + 1 \in 1 .. Len(q) /\ j + 1 \in 1 .. Len(q) /\ k + 1 \in 1 .. Len(q)
          /\ q[i + 1] = t /\ q[j + 1] = t /\ q[k + 1] = t
          BY <1>2, <2>2
    <3>2. i + 1 = j + 1 \/ j + 1 = k + 1 \/ i + 1 = k + 1  BY <2>1, <3>1
    <3>3. QED  BY <1>1, <3>2
  <2>3. ASSUME Head(q) = t, NEW i \in 1 .. Len(r), NEW j \in 1 .. Len(r), r[i] = t, r[j] = t
        PROVE  i = j
    <3>1. /\ i + 1 \in 1 .. Len(q) /\ j + 1 \in 1 .. Len(q) /\ i + 1 # 1 /\ j + 1 # 1
          /\ q[i + 1] = t /\ q[j + 1] = t /\ q[1] = t
          BY <1>1, <1>2, <2>3
    <3>2. i + 1 = j + 1  BY <1>3, <2>1, <3>1
    <3>3. QED  BY <1>1, <3>2
  <2>4. QED  BY <1>6, <2>2, <2>3 DEF AtMost, r
<1>7. n = 0 \/ n = 1 \/ n = 2  BY DEF AtMost
<1>8. QED  BY <1>4, <1>5, <1>6, <1>7

(* Two tokens of each slot, numbered, are what the queue has room for: if  *)
(* a slot has no more than one in it, the queue is not full.               *)
LEMMA RoomLeft ==
  ASSUME NEW q \in Seq(Slots), \A t \in Slots : AtMost(q, t, 2),
         NEW s \in Slots, AtMost(q, s, 1)
  PROVE  Len(q) < QueueLen
<1> DEFINE Earlier(i) == \E j \in 1 .. Len(q) : j < i /\ q[j] = q[i]
           f == [i \in 1 .. Len(q) |-> <<q[i], IF Earlier(i) THEN 2 ELSE 1>>]
           T == (Slots \X (1 .. 2)) \ {<<s, 2>>}
<1>1. \A i \in 1 .. Len(q) : q[i] \in Slots  OBVIOUS
<1>2. \A t \in Slots : \A i, j, k \in 1 .. Len(q) :
        q[i] = t /\ q[j] = t /\ q[k] = t => i = j \/ j = k \/ i = k
      BY DEF AtMost
<1>3. \A i, j \in 1 .. Len(q) : q[i] = s /\ q[j] = s => i = j  BY DEF AtMost
<1>4. \A i \in 1 .. Len(q) : f[i] = <<q[i], IF Earlier(i) THEN 2 ELSE 1>>  OBVIOUS
<1>5. \A i \in 1 .. Len(q) : f[i] \in T
  <2> SUFFICES ASSUME NEW i \in 1 .. Len(q) PROVE f[i] \in T  OBVIOUS
  <2>1. f[i] \in Slots \X (1 .. 2)  BY <1>1, <1>4
  <2>2. q[i] = s => ~Earlier(i)  BY <1>3
  <2>3. f[i] # <<s, 2>>
    <3>1. CASE q[i] = s  BY <1>4, <2>2, <3>1
    <3>2. CASE q[i] # s  BY <1>4, <3>2
    <3>3. QED  BY <3>1, <3>2
  <2>4. QED  BY <2>1, <2>3
<1>6. \A i, j \in 1 .. Len(q) : f[i] = f[j] => i = j
  <2>1. ASSUME NEW i \in 1 .. Len(q), NEW j \in 1 .. Len(q), f[i] = f[j], i < j PROVE FALSE
    <3>1. f[i] = <<q[i], IF Earlier(i) THEN 2 ELSE 1>> /\ f[j] = <<q[j], IF Earlier(j) THEN 2 ELSE 1>>
          BY <1>4
    <3>2. q[i] = q[j]  BY <2>1, <3>1
    <3>3. Earlier(i)
      <4>1. Earlier(j)  BY <2>1, <3>2
      <4> HIDE DEF Earlier, f
      <4>2. f[j] = <<q[j], 2>>  BY <3>1, <4>1
      <4>3. CASE ~Earlier(i)
        <5>1. f[i] = <<q[i], 1>>  BY <3>1, <4>3
        <5>2. QED  BY <2>1, <4>2, <5>1
      <4>4. QED  BY <4>3
    <3>4. PICK k \in 1 .. Len(q) : k < i /\ q[k] = q[i]  BY <3>3
    <3>5. q[i] \in Slots /\ q[j] = q[i] /\ q[k] = q[i]  BY <1>1, <3>2, <3>4
    <3>6. k = i \/ i = j \/ k = j  BY <1>2, <3>5
    <3>7. QED  BY <2>1, <3>4, <3>6
  <2>2. ASSUME NEW i \in 1 .. Len(q), NEW j \in 1 .. Len(q), f[i] = f[j], i # j PROVE FALSE
    <3>1. i < j \/ j < i  BY <2>2
    <3>2. QED  BY <2>1, <2>2, <3>1
  <2>3. QED  BY <2>2
<1>7. IsFiniteSet(T) /\ Cardinality(T) = 2 * N - 1
  <2>1. IsFiniteSet(Slots) /\ Cardinality(Slots) = N
    <3>1. 0 \in Int /\ N - 1 \in Int  OBVIOUS
    <3>2. /\ IsFiniteSet(0 .. N - 1)
          /\ Cardinality(0 .. N - 1) = IF 0 > N - 1 THEN 0 ELSE (N - 1) - 0 + 1
          BY <3>1, FS_Interval
    <3>3. QED  BY <3>2
  <2>3. IsFiniteSet(1 .. 2) /\ Cardinality(1 .. 2) = 2
    <3>1. 1 \in Int /\ 2 \in Int  OBVIOUS
    <3>2. IsFiniteSet(1 .. 2) /\ Cardinality(1 .. 2) = IF 1 > 2 THEN 0 ELSE 2 - 1 + 1
          BY <3>1, FS_Interval
    <3>3. QED  BY <3>2
  <2>4. IsFiniteSet(Slots \X (1 .. 2)) /\ Cardinality(Slots \X (1 .. 2)) = N * 2
    <3>1. IsFiniteSet(Slots) /\ Cardinality(Slots) = N  BY <2>1
    <3>2. /\ IsFiniteSet(Slots \X (1 .. 2))
          /\ Cardinality(Slots \X (1 .. 2)) = Cardinality(Slots) * Cardinality(1 .. 2)
          BY <2>3, <3>1, FS_Product
    <3>3. QED  BY <2>3, <3>1, <3>2
  <2>5. <<s, 2>> \in Slots \X (1 .. 2)  OBVIOUS
  <2>6. IsFiniteSet(T) /\ Cardinality(T) = Cardinality(Slots \X (1 .. 2)) - 1
        BY <2>4, <2>5, FS_RemoveElement
  <2>7. QED  BY <2>4, <2>6
<1> HIDE DEF f, T
<1>8. f \in [1 .. Len(q) -> T]
  <2>1. f = [i \in 1 .. Len(q) |-> f[i]]  BY DEF f
  <2>2. QED  BY <1>5, <2>1
<1>9. f \in Injection(1 .. Len(q), T)  BY <1>6, <1>8 DEF Injection, IsInjective
<1>10. Cardinality(1 .. Len(q)) <= Cardinality(T)  BY <1>7, <1>9, FS_Injection
<1>11. Cardinality(1 .. Len(q)) = Len(q) /\ Len(q) \in Nat
  <2>1. 1 \in Int /\ Len(q) \in Int /\ Len(q) \in Nat  OBVIOUS
  <2>2. Cardinality(1 .. Len(q)) = IF 1 > Len(q) THEN 0 ELSE Len(q) - 1 + 1
        BY <2>1, FS_Interval
  <2>3. QED  BY <2>1, <2>2
<1>12. QED  BY <1>7, <1>10, <1>11 DEF QueueLen

(* What is owed is never more than what is let.                            *)
LEMMA OwedType ==
  ASSUME NEW s \in Slots
  PROVE  Limit(s) \in 0 .. 2 /\ Owed(s) \in 0 .. 2
  BY DEF Limit, Owed

(* A step that leaves the queue alone keeps the counts, if no slot owes    *)
(* more and none is let less.                                              *)
LEMMA TokensStay ==
  ASSUME TypeOK, TypeOK', Tokens, queue' = queue,
         \A s \in Slots : Limit(s) - Owed(s) <= Limit(s)' - Owed(s)'
  PROVE  Tokens'
<1> SUFFICES ASSUME NEW s \in Slots PROVE AtMost(queue, s, Limit(s)' - Owed(s)')
  BY DEF Tokens
<1>1. AtMost(queue, s, Limit(s) - Owed(s)) /\ queue \in Seq(Slots)  BY DEF Tokens, TypeOK
<1>2. Limit(s) \in 0 .. 2 /\ Owed(s) \in 0 .. 2 /\ Limit(s)' \in 0 .. 2 /\ Owed(s)' \in 0 .. 2
      BY DEF Limit, Owed
<1>3. Limit(s) - Owed(s) \in 0 .. 2  BY <1>1 DEF AtMost
<1>4. Limit(s)' - Owed(s)' \in 0 .. 2  BY <1>2, <1>3
<1>5. Limit(s) - Owed(s) \in Int  BY <1>2
<1> QED BY <1>1, <1>4, <1>5, AtMostMore

(* A send of a token that was owed keeps them.                             *)
LEMMA TokensSent ==
  ASSUME TypeOK, TypeOK', Tokens, NEW t \in Slots, Owed(t)' = Owed(t) - 1, Limit(t)' = Limit(t),
         Send(t), \A s \in Slots \ {t} : Limit(s)' - Owed(s)' = Limit(s) - Owed(s)
  PROVE  Tokens'
<1>1. CASE queue' = queue
  <2>1. \A s \in Slots : Limit(s) - Owed(s) <= Limit(s)' - Owed(s)'
        BY OwedType
  <2> QED BY <1>1, <2>1, TokensStay
<1>2. CASE queue' = Append(queue, t)
  <2>1. queue \in Seq(Slots)  BY DEF TypeOK
  <2> SUFFICES ASSUME NEW s \in Slots PROVE AtMost(queue', s, Limit(s)' - Owed(s)')
    BY DEF Tokens
  <2>2. AtMost(queue, s, Limit(s) - Owed(s))  BY DEF Tokens
  <2>3. Limit(s) \in 0 .. 2 /\ Owed(s) \in 0 .. 2 /\ Limit(s) - Owed(s) \in Int  BY OwedType
  <2>4. CASE s = t
    <3>1. Owed(t) >= 1  BY DEF Owed
    <3>2. Limit(t) - Owed(t) < 2  BY <2>3, <2>4, <3>1
    <3>3. AtMost(Append(queue, t), t, (Limit(t) - Owed(t)) + 1)
          BY <2>1, <2>2, <2>3, <2>4, <3>2, AtMostSend
    <3>4. Limit(t)' - Owed(t)' = (Limit(t) - Owed(t)) + 1  BY <2>3, <2>4
    <3> QED BY <1>2, <2>4, <3>3, <3>4
  <2>5. CASE s # t
    <3>1. AtMost(Append(queue, t), s, Limit(s) - Owed(s))  BY <2>1, <2>2, <2>3, <2>5, AtMostOther
    <3>2. Limit(s)' - Owed(s)' = Limit(s) - Owed(s)  BY <2>5
    <3> QED BY <1>2, <3>1, <3>2
  <2> QED BY <2>4, <2>5
<1> QED BY <1>1, <1>2 DEF Send

(* A slot never owes more than it is let.                                  *)
LEMMA OwedWithin ==
  ASSUME Tokens, NEW s \in Slots
  PROVE  Owed(s) <= Limit(s)
<1>1. Limit(s) - Owed(s) \in 0 .. 2  BY DEF Tokens, AtMost
<1> QED BY <1>1, OwedType

(* The USB host keeps the counts: a callback sends the token it owes.      *)
LEMMA HostTokens ==
  ASSUME TypeOK, TypeOK', Tokens, Host \/ FallSilent \/ UserReset
  PROVE  Tokens'
<1> USE DEF pumpVars, rxVars, recVars, streamVars
<1>1. ASSUME NEW t \in Slots, Complete(t) \/ Fail(t) PROVE Tokens'
  <2>1. queue' = queue /\ \A s \in Slots : Limit(s)' = Limit(s)
    BY <1>1 DEF Complete, Fail, Limit, Untouched
  <2>2. \A s \in Slots : Owed(s)' = Owed(s)
    BY <1>1 DEF Complete, Fail, TypeOK, Owed, Out, Holds
  <2> QED BY <2>1, <2>2, OwedType, TokensStay
<1>2. ASSUME NEW t \in Slots, Callback(t) \/ OrphanCallback(t) PROVE Tokens'
  <2>1. /\ \A s \in Slots : Limit(s)' = Limit(s)
        /\ Send(t) \/ queue' = queue
    BY <1>2 DEF Callback, OrphanCallback, Limit, Untouched
  <2>2. /\ Owed(t)' = Owed(t) - 1
        /\ \A s \in Slots \ {t} : Owed(s)' = Owed(s)
    <3>1. /\ Out(t) /\ ~ Out(t)' /\ \A s \in Slots \ {t} : Out(s)' <=> Out(s)
      BY <1>2 DEF Callback, OrphanCallback, TypeOK, Out
    <3>2. \A s \in Slots : Holds(s)' <=> Holds(s)
      BY <1>2 DEF Callback, OrphanCallback, Holds
    <3> QED BY <3>1, <3>2 DEF Owed
  <2>3. CASE Send(t)
    BY <2>1, <2>2, <2>3, TokensSent
  <2>4. CASE queue' = queue
    <3>1. ASSUME NEW s \in Slots PROVE Limit(s) - Owed(s) <= Limit(s)' - Owed(s)'
      <4>1. Owed(s)' <= Owed(s)
        <5>1. CASE s = t  BY <2>2, <5>1, OwedType
        <5>2. CASE s # t  BY <2>2, <5>2, OwedType
        <5> QED BY <5>1, <5>2
      <4>2. Limit(s) \in 0 .. 2 /\ Owed(s) \in 0 .. 2 /\ Owed(s)' \in 0 .. 2
        BY OwedType DEF Owed
      <4> QED BY <2>1, <4>1, <4>2
    <3> QED BY <2>4, <3>1, TokensStay
  <2> QED BY <2>1, <2>3, <2>4
<1>3. CASE FallSilent \/ UserReset
  <2>1. queue' = queue /\ \A s \in Slots : Limit(s)' = Limit(s) /\ Owed(s)' = Owed(s)
    BY <1>3 DEF FallSilent, UserReset, Limit, Untouched, Owed, Out, Holds
  <2> QED BY <2>1, OwedType, TokensStay
<1> QED BY <1>1, <1>2, <1>3 DEF Host

(* The pump keeps them: it posts the token it has taken, or sends it back. *)
LEMMA PumpTokens ==
  ASSUME TypeOK, TypeOK', TokenInv, Pump
  PROVE  Tokens'
<1> USE DEF pumpVars, rxVars, recVars, streamVars
<1>1. Tokens /\ Starting  BY DEF TokenInv
<1>2. CASE PumpExit \/ PumpTimeout \/ PumpLoop \/ PumpSecond \/ PumpEscalate
  <2>1. queue' = queue /\ \A s \in Slots : Limit(s)' = Limit(s) /\ Owed(s)' = Owed(s)
    BY <1>2 DEF PumpExit, PumpTimeout, PumpLoop, PumpSecond, PumpEscalate, Limit, Untouched, Owed, Out, Holds
  <2> QED BY <1>1, <2>1, OwedType, TokensStay
<1>3. CASE PumpTake
  <2>1. queue \in Seq(Slots) /\ queue # <<>> /\ queue' = Tail(queue) /\ Head(queue) \in Slots
    BY <1>3 DEF PumpTake, TypeOK
  <2> SUFFICES ASSUME NEW s \in Slots PROVE AtMost(Tail(queue), s, Limit(s)' - Owed(s)')
    BY <2>1 DEF Tokens
  <2>2. AtMost(queue, s, Limit(s) - Owed(s))  BY <1>1 DEF Tokens
  <2>3. Limit(s) \in 0 .. 2 /\ Owed(s) \in 0 .. 2  BY OwedType
  <2>4. /\ AtMost(Tail(queue), s, Limit(s) - Owed(s))
        /\ Head(queue) = s => AtMost(Tail(queue), s, (Limit(s) - Owed(s)) - 1)
    BY <2>1, <2>2, <2>3, AtMostTake
  <2>5. Limit(s)' = Limit(s)  BY <1>3 DEF PumpTake, Limit, Untouched
  <2>6. Owed(s)' = Owed(s) \/ (Owed(s)' = Owed(s) + 1 /\ Head(queue) = s)
    BY <1>3 DEF PumpTake, Owed, Out, Holds
  <2>7. CASE Owed(s)' = Owed(s)  BY <2>4, <2>5, <2>7
  <2>8. CASE Owed(s)' = Owed(s) + 1 /\ Head(queue) = s
    <3>1. Limit(s)' - Owed(s)' = (Limit(s) - Owed(s)) - 1  BY <2>3, <2>5, <2>8
    <3> QED BY <2>4, <2>8, <3>1
  <2> QED BY <2>6, <2>7, <2>8
<1>4. CASE PumpSubmit
  <2>1. queue' = queue /\ \A s \in Slots : Limit(s)' = Limit(s)
    BY <1>4 DEF PumpSubmit, Limit, Untouched
  <2>2. \A s \in Slots : Owed(s)' <= Owed(s)
    BY <1>4 DEF PumpSubmit, SubmitResult, AfterSubmit, TypeOK, Owed, Out, Holds
  <2>3. \A s \in Slots : Owed(s)' \in 0 .. 2  BY DEF Owed
  <2>4. \A s \in Slots : Limit(s) - Owed(s) <= Limit(s)' - Owed(s)'
    BY <2>1, <2>2, <2>3, OwedType
  <2> QED BY <1>1, <2>1, <2>4, TokensStay
<1>5. CASE PumpRetry
  <2>1. PICK t \in Slots : t = slot  BY DEF TypeOK
  <2>2. /\ Send(t)
        /\ \A s \in Slots : Limit(s)' = Limit(s)
    BY <1>5, <2>1 DEF PumpRetry, Limit, Untouched
  <2>3. /\ Owed(t)' = Owed(t) - 1
        /\ \A s \in Slots \ {t} : Owed(s)' = Owed(s)
    BY <1>5, <2>1 DEF PumpRetry, TypeOK, Owed, Out, Holds
  <2> QED BY <1>1, <2>2, <2>3, TokensSent
<1>6. CASE PumpFlush
  <2>1. queue' = queue /\ \A s \in Slots : Limit(s)' = Limit(s)
    BY <1>6 DEF PumpFlush, Limit, Untouched
  <2>2. \A s \in Slots : Owed(s)' = Owed(s)
    BY <1>6 DEF PumpFlush, Cancelled, TypeOK, Owed, Out, Holds
  <2> QED BY <1>1, <2>1, <2>2, OwedType, TokensStay
<1>7. CASE PumpReset
  <2> SUFFICES ASSUME NEW s \in Slots PROVE AtMost(<<>>, s, Limit(s)' - Owed(s)')
    BY <1>7 DEF Tokens, PumpReset
  <2>1. Limit(s)' = 1
    BY <1>1, <1>7 DEF PumpReset, Starting, Limit, Untouched, TypeOK
  <2>2. Owed(s)' \in 0 .. 1
    BY <1>7 DEF PumpReset, Owed, Out, Holds
  <2>3. Limit(s)' - Owed(s)' \in 0 .. 2  BY <2>1, <2>2
  <2> QED BY <2>3, NoTokens
<1>8. CASE PumpPrime
  <2>1. queue' = queue /\ pidx \in Slots
    BY <1>8 DEF PumpPrime, TypeOK
  <2>2. ASSUME NEW s \in Slots PROVE Limit(s) - Owed(s) <= Limit(s)' - Owed(s)'
    <3>1. CASE s = pidx
      <4>1. Limit(s) = 1 /\ Limit(s)' = 2
        BY <1>1, <1>8, <3>1 DEF PumpPrime, Starting, Limit, Untouched, TypeOK
      <4>2. Owed(s)' \in 0 .. 1 /\ Owed(s) \in 0 .. 1
        BY <1>8 DEF PumpPrime, Owed, Out, Holds
      <4> QED BY <4>1, <4>2
    <3>2. CASE s # pidx
      <4>1. Limit(s) <= Limit(s)'
        BY <1>1, <1>8, <2>2, <3>2 DEF PumpPrime, Starting, Limit, Untouched, TypeOK
      <4>2. Owed(s)' = Owed(s)
        BY <1>8, <3>2 DEF PumpPrime, AfterSubmit, Owed, Out, Holds, TypeOK
      <4>3. Limit(s)' \in 0 .. 2  BY DEF Limit
      <4> QED BY <4>1, <4>2, <4>3, OwedType
    <3> QED BY <3>1, <3>2
  <2> QED BY <1>1, <2>1, <2>2, TokensStay
<1> QED BY <1>2, <1>3, <1>4, <1>5, <1>6, <1>7, <1>8 DEF Pump

(* A start posts the first tokens, into a queue it has emptied.            *)
LEMMA RxTokens ==
  ASSUME TypeOK, TypeOK', TokenInv, Rx
  PROVE  Tokens'
<1> USE DEF pumpVars, rxVars, recVars, streamVars
<1>1. Tokens /\ Starting  BY DEF TokenInv
<1>2. CASE RxStart
  <2> SUFFICES ASSUME NEW s \in Slots PROVE AtMost(<<>>, s, Limit(s)' - Owed(s)')
    BY <1>2 DEF Tokens, RxStart
  <2>1. Limit(s)' = 0 /\ Limit(s) = 0
    BY <1>2 DEF RxStart, Limit, Untouched
  <2>2. Owed(s) = 0  BY <1>1, <2>1, OwedWithin, OwedType
  <2>3. Owed(s)' = 0
    BY <1>2, <2>2 DEF RxStart, Owed, Out, Holds
  <2>4. Limit(s)' - Owed(s)' \in 0 .. 2  BY <2>1, <2>3
  <2> QED BY <2>4, NoTokens
<1>3. ASSUME RxAlloc \/ RxSubmit, rx' # "alloc", ~(posted' /\ ~posted), ridx' = ridx,
             \A s \in Slots : Owed(s)' <= Owed(s)
      PROVE  Tokens'
  <2>1. queue' = queue /\ pump' = pump /\ pidx' = pidx
    BY <1>3 DEF RxAlloc, RxSubmit
  <2>2. ASSUME NEW s \in Slots PROVE Limit(s) <= Limit(s)'
    BY <1>1, <1>3, <2>1 DEF RxAlloc, RxSubmit, Starting, Limit, Untouched, TypeOK
  <2>3. \A s \in Slots : Limit(s) - Owed(s) <= Limit(s)' - Owed(s)'
    <3>1. \A s \in Slots : Limit(s)' \in 0 .. 2 /\ Owed(s)' \in 0 .. 2  BY DEF Limit, Owed
    <3> QED BY <1>3, <2>2, <3>1, OwedType
  <2> QED BY <1>1, <2>1, <2>3, TokensStay
<1>4. CASE RxAlloc
  <2>1. \A s \in Slots : Owed(s)' <= Owed(s)
    BY <1>4 DEF RxAlloc, TypeOK, Owed, Out, Holds
  <2>2. rx' # "alloc" /\ posted' = posted /\ ridx' = ridx
    BY <1>4 DEF RxAlloc
  <2> QED BY <1>3, <1>4, <2>1, <2>2
<1>5. CASE RxSubmit /\ SubmitResult(ridx) # "ok"
  <2>1. \A s \in Slots : Owed(s)' <= Owed(s)
    BY <1>5 DEF RxSubmit, TypeOK, Owed, Out, Holds
  <2>2. rx' # "alloc" /\ posted' = posted /\ ridx' = ridx
    BY <1>5 DEF RxSubmit
  <2> QED BY <1>3, <1>5, <2>1, <2>2
<1>6. CASE RxSubmit /\ SubmitResult(ridx) = "ok"
  <2>1. PICK t \in Slots : t = ridx  BY DEF TypeOK
  <2>2. queue' = queue /\ pump # "prime" /\ pump' # "prime" /\ posted'
    BY <1>1, <1>6 DEF RxSubmit, Starting
  <2>3. ASSUME NEW s \in Slots PROVE Limit(s) - Owed(s) <= Limit(s)' - Owed(s)'
    <3>1. CASE s = t
      <4>1. Limit(s) = 0 /\ Limit(s)' = 2
        BY <1>6, <2>1, <2>2, <3>1 DEF RxSubmit, Limit, Untouched, TypeOK
      <4>2. Owed(s)' \in 0 .. 2 /\ Owed(s) \in 0 .. 2  BY DEF Owed
      <4> QED BY <4>1, <4>2
    <3>2. CASE s # t
      <4>1. Limit(s) <= Limit(s)'
        BY <1>6, <2>1, <2>2, <2>3, <3>2 DEF RxSubmit, Limit, Untouched, TypeOK
      <4>2. Owed(s)' = Owed(s)
        BY <1>6, <2>1, <3>2 DEF RxSubmit, AfterSubmit, Owed, Out, Holds, TypeOK
      <4>3. Limit(s)' \in 0 .. 2  BY DEF Limit
      <4> QED BY <4>1, <4>2, <4>3, OwedType
    <3> QED BY <3>1, <3>2
  <2> QED BY <1>1, <2>2, <2>3, TokensStay
<1>7. CASE RxPosted \/ RxRetry \/ RxRead
  <2>1. queue' = queue /\ \A s \in Slots : Owed(s)' = Owed(s)
    BY <1>7 DEF RxPosted, RxRetry, RxRead, Owed, Out, Holds
  <2>2. ASSUME NEW s \in Slots PROVE Limit(s)' = Limit(s)
    BY <1>7 DEF RxPosted, RxRetry, RxRead, Limit, Untouched, TypeOK
  <2> QED BY <1>1, <2>1, <2>2, OwedType, TokensStay
<1> QED BY <1>2, <1>4, <1>5, <1>6, <1>7 DEF Rx

(* A stop cancels and frees transfers: none of them owes more for it.      *)
LEMMA RecoverTokens ==
  ASSUME TypeOK, TypeOK', Tokens, Recover
  PROVE  Tokens'
<1> USE DEF pumpVars, rxVars, recVars, streamVars
<1>1. queue' = queue /\ \A s \in Slots : Limit(s)' = Limit(s)
  BY DEF Recover, RecTake, RecWait, RecFlush, RecFree, RecRelease, RecClaim, RecReport, Limit, Untouched
<1>2. \A s \in Slots : Owed(s)' = Owed(s)
  <2>1. CASE RecFlush \/ RecFree
    BY <2>1 DEF RecFlush, RecFree, Cancelled, Owed, Out, Holds, TypeOK
  <2>2. CASE RecTake \/ RecWait \/ RecRelease \/ RecClaim \/ RecReport
    BY <2>2 DEF RecTake, RecWait, RecRelease, RecClaim, RecReport, Owed, Out, Holds
  <2> QED BY <2>1, <2>2 DEF Recover
<1> QED BY <1>1, <1>2, OwedType, TokensStay

(* Nothing is re-primed before the start is over.                          *)
LEMMA StartingStep ==
  ASSUME TypeOK, TypeOK', Starting, [Next]_vars
  PROVE  Starting'
<1> USE DEF pumpVars, rxVars, recVars, streamVars
<1>1. CASE Host \/ FallSilent \/ UserReset \/ Recover
  BY <1>1 DEF Starting, Host, Complete, Fail, Callback, OrphanCallback, FallSilent, UserReset, Recover,
              RecTake, RecWait, RecFlush, RecFree, RecRelease, RecClaim, RecReport
<1>2. CASE Pump
  BY <1>2 DEF Starting, Pump, PumpExit, PumpTake, PumpTimeout, PumpSubmit, PumpRetry, PumpLoop, PumpSecond,
              PumpFlush, PumpReset, PumpPrime, PumpEscalate
<1>3. CASE Rx
  BY <1>3 DEF Starting, Rx, RxStart, RxAlloc, RxSubmit, RxPosted, RxRetry, RxRead
<1>4. CASE UNCHANGED vars
  BY <1>4 DEF Starting, vars
<1> QED BY <1>1, <1>2, <1>3, <1>4 DEF Next

(* The counts of the tokens hold throughout.                               *)
THEOREM TokenInvariant == Spec => []TokenInv
<1>1. Init => TokenInv
  <2> SUFFICES ASSUME Init PROVE TokenInv
    OBVIOUS
  <2>1. \A s \in Slots : Limit(s) - Owed(s) = 0
    BY DEF Init, Limit, Untouched, Owed, Out, Holds
  <2>2. \A s \in Slots : AtMost(<<>>, s, 0)  BY NoTokens
  <2>3. queue = <<>>  BY DEF Init
  <2> QED BY <2>1, <2>2, <2>3 DEF Init, TokenInv, Tokens, Starting
<1>2. TypeOK /\ TypeOK' /\ TokenInv /\ [Next]_vars => TokenInv'
  <2> SUFFICES ASSUME TypeOK, TypeOK', TokenInv, [Next]_vars PROVE TokenInv'
    OBVIOUS
  <2>1. Tokens /\ Starting  BY DEF TokenInv
  <2>2. CASE UNCHANGED vars
    BY <2>1, <2>2 DEF vars, streamVars, pumpVars, rxVars, recVars, TokenInv, Tokens, Starting,
                      Limit, Untouched, Owed, Out, Holds
  <2> QED BY <2>1, <2>2, HostTokens, PumpTokens, RxTokens, RecoverTokens, StartingStep DEF Next, TokenInv
<1> QED BY <1>1, <1>2, TypeCorrect, PTL DEF Spec

(* stream_xfer_cb() sends with no wait and ignores the result; a callback  *)
(* or a retry that has a token to send finds room for it, so no transfer   *)
(* is lost from the pool.                                                  *)
THEOREM RoomInQueue == Spec => []QueueHasRoom
<1>1. TypeOK /\ TokenInv => QueueHasRoom
  <2> SUFFICES ASSUME TypeOK, TokenInv PROVE QueueHasRoom
    OBVIOUS
  <2>1. queue \in Seq(Slots)  BY DEF TypeOK
  <2>2. \A t \in Slots : AtMost(queue, t, 2)
    <3> SUFFICES ASSUME NEW t \in Slots PROVE AtMost(queue, t, 2)
      OBVIOUS
    <3>1. AtMost(queue, t, Limit(t) - Owed(t))  BY DEF TokenInv, Tokens
    <3>2. Limit(t) - Owed(t) \in Int /\ Limit(t) - Owed(t) <= 2  BY OwedType
    <3> QED BY <2>1, <3>1, <3>2, AtMostMore
  <2>3. ASSUME NEW s \in Slots, Out(s) \/ Holds(s) PROVE Len(queue) < QueueLen
    <3>1. AtMost(queue, s, Limit(s) - Owed(s))  BY DEF TokenInv, Tokens
    <3>2. Limit(s) - Owed(s) \in Int /\ Limit(s) - Owed(s) <= 1
      <4>1. Owed(s) \in 1 .. 2  BY <2>3 DEF Owed
      <4> QED BY <4>1, OwedType
    <3>3. AtMost(queue, s, 1)  BY <2>1, <3>1, <3>2, AtMostMore
    <3> QED BY <2>1, <2>2, <3>3, RoomLeft
  <2> QED BY <2>3 DEF QueueHasRoom, Out, Holds, TypeOK
<1> QED BY <1>1, TokenInvariant, TypeCorrect, PTL
=============================================================================
