------------------------------ MODULE IqStream ------------------------------
(***************************************************************************)
(* The IQ streaming pipeline of src/main/esp_libusb.c: a pool of USB bulk  *)
(* transfers that is kept posted on the dongle's IN endpoint, the queue    *)
(* through which a completed transfer asks to be posted again, the pump    *)
(* task that does so and watches for a stall, the task that resets the     *)
(* interface when the pump gives up, and the receiver task that starts the *)
(* stream and drains the ring (src/main/class_driver.c).                   *)
(*                                                                         *)
(* Five actors run concurrently: the USB host (completions and callbacks), *)
(* the pump, the receiver, the recovery task and an operator who types     *)
(* `usb reset`.  IQ bytes are counted in whole transfers.                  *)
(***************************************************************************)
EXTENDS Naturals, Sequences, FiniteSets

CONSTANTS
  N,                \* STREAM_XFER_NUM, the transfers in the pool
  RingChunks,       \* STREAM_RING_SIZE in transfers
  StallLimit,       \* silent seconds after which the pump asks for a reset (5)
  MaxFaults,        \* bound: how often the device or an allocation fails
  MaxResets         \* bound: how often the operator types `usb reset`

ASSUME StreamAssumption ==
  /\ N \in Nat \ {0} /\ RingChunks \in Nat \ {0} /\ StallLimit \in Nat \ {0}
  /\ MaxFaults \in Nat /\ MaxResets \in Nat

VARIABLES
  streaming,  \* s_streaming
  xfer,       \* s_sxfer[]: what has become of each transfer
  pipe,       \* the endpoint as the USB host sees it
  queue,      \* s_squeue: slots whose callback has run
  fill,       \* s_shead - s_stail, in transfers
  moved,      \* s_shead has advanced since the pump's last look
  dropped,    \* s_sdropped has advanced since the pump's last look
  heard,      \* history: a callback has delivered data since then
  stallSecs,  \* stall_secs
  spump,      \* s_spump is not NULL
  pump,       \* where stream_pump_task is
  slot,       \* the slot it took from the queue (a local out of scope is 0 here)
  pidx,       \* its loop index in stream_reprime
  rx,         \* where adsb_rx_task is
  ridx,       \* its loop index in esp_libusb_stream_start
  posted,     \* that loop has posted a transfer
  rec,        \* where usb_recover_task is
  notified,   \* its task notification is pending
  faults, resets

streamVars == <<streaming, xfer, pipe, queue, fill, moved, dropped, heard>>
pumpVars   == <<stallSecs, spump, pump, slot, pidx>>
rxVars     == <<rx, ridx, posted>>
recVars    == <<rec, notified>>
vars       == <<streamVars, pumpVars, rxVars, recVars, faults, resets>>

Slots    == 0 .. N - 1
QueueLen_OnePerSlot == N
QueueLen == 2 * N

(* A transfer is unallocated, allocated and idle, in flight, or retired by *)
(* the host with its callback still to run (with data, or without: failed  *)
(* or cancelled).  An orphan was given to usb_host_transfer_free() while   *)
(* it was still the host's: the host refuses, and the pointer is lost.     *)
XferState == {"null", "idle", "flight", "data", "void", "orphan"}
InFlight  == {"flight", "data", "void"}
PumpState == {"none", "top", "submit", "retry", "check", "flush", "reset", "prime", "escalate"}
RxState   == {"start", "alloc", "submit", "posted", "retry", "run"}
RecState  == {"idle", "wait", "flush", "free", "release", "claim", "ok", "failed"}
PipeState == {"active", "halted", "silent", "released"}

Init ==
  /\ streaming = FALSE /\ xfer = [s \in Slots |-> "null"] /\ pipe = "active"
  /\ queue = <<>> /\ fill = 0 /\ moved = FALSE /\ dropped = FALSE /\ heard = FALSE
  /\ stallSecs = 0 /\ spump = FALSE /\ pump = "none" /\ slot = 0 /\ pidx = 0
  /\ rx = "start" /\ ridx = 0 /\ posted = FALSE
  /\ rec = "idle" /\ notified = FALSE
  /\ faults = 0 /\ resets = 0

-----------------------------------------------------------------------------
(* The USB host.                                                           *)

(* usb_host_transfer_submit() on an allocated transfer: ESP_ERR_NOT_FINISHED *)
(* (0x10C) while the host still holds it, another error when the pipe is     *)
(* halted or its interface is released.                                      *)
SubmitResult(s) == IF xfer[s] \in InFlight THEN "not_finished"
                   ELSE IF pipe \in {"halted", "released"} THEN "error" ELSE "ok"
AfterSubmit(s)  == IF SubmitResult(s) = "ok" THEN [xfer EXCEPT ![s] = "flight"] ELSE xfer

(* endpoint halt, flush and clear: what is in flight is cancelled, a halted *)
(* pipe runs again, and a device that fell silent may or may not come back. *)
Cancelled == [s \in Slots |-> IF xfer[s] = "flight" THEN "void" ELSE xfer[s]]
Clear     == pipe' \in (CASE pipe = "silent"   -> {"silent", "active"}
                          [] pipe = "released" -> {"released"}
                          [] OTHER             -> {"active"})

Complete(s) ==
  /\ xfer[s] = "flight" /\ pipe = "active"
  /\ xfer' = [xfer EXCEPT ![s] = "data"]
  /\ UNCHANGED <<streaming, pipe, queue, fill, moved, dropped, heard, pumpVars, rxVars,
                 recVars, faults, resets>>

(* A STALL or a transfer error retires one transfer and halts the pipe.     *)
Fail(s) ==
  /\ xfer[s] = "flight" /\ pipe = "active" /\ faults < MaxFaults
  /\ xfer' = [xfer EXCEPT ![s] = "void"]
  /\ pipe' = "halted" /\ faults' = faults + 1
  /\ UNCHANGED <<streaming, queue, fill, moved, dropped, heard, pumpVars, rxVars, recVars, resets>>

FallSilent ==
  /\ pipe = "active" /\ faults < MaxFaults
  /\ pipe' = "silent" /\ faults' = faults + 1
  /\ UNCHANGED <<streaming, xfer, queue, fill, moved, dropped, heard, pumpVars, rxVars,
                 recVars, resets>>

(* stream_push(): a whole chunk goes in, or none of it.                     *)
StreamPush ==
  /\ heard' = TRUE
  /\ IF fill < RingChunks
       THEN fill' = fill + 1 /\ moved' = TRUE /\ UNCHANGED dropped
       ELSE dropped' = TRUE /\ UNCHANGED <<fill, moved>>

(* xQueueSend(s_squeue, .., 0): a full queue swallows the token.            *)
Send(s) == queue' = IF Len(queue) < QueueLen THEN Append(queue, s) ELSE queue

(* stream_xfer_cb()                                                         *)
Callback(s) ==
  /\ xfer[s] \in {"data", "void"}
  /\ IF xfer[s] = "data" THEN StreamPush
       ELSE UNCHANGED <<fill, moved, dropped, heard>>
  /\ xfer' = [xfer EXCEPT ![s] = "idle"]
  /\ IF streaming THEN Send(s) ELSE UNCHANGED queue
  /\ UNCHANGED <<streaming, pipe, pumpVars, rxVars, recVars, faults, resets>>

(* The same callback, of a transfer whose pointer is gone: it had retired   *)
(* with data, or was cancelled.                                             *)
OrphanCallback(s) ==
  /\ xfer[s] = "orphan"
  /\ StreamPush \/ UNCHANGED <<fill, moved, dropped, heard>>
  /\ xfer' = [xfer EXCEPT ![s] = "null"]
  /\ IF streaming THEN Send(s) ELSE UNCHANGED queue
  /\ UNCHANGED <<streaming, pipe, pumpVars, rxVars, recVars, faults, resets>>

-----------------------------------------------------------------------------
(* stream_pump_task()                                                      *)

PumpExit_KeepsHandle ==
  /\ pump = "top" /\ ~streaming
  /\ pump' = "none"
  /\ UNCHANGED <<streamVars, spump, stallSecs, slot, pidx, rxVars, recVars, faults, resets>>

PumpExit ==
  /\ pump = "top" /\ ~streaming
  /\ pump' = "none" /\ spump' = FALSE
  /\ UNCHANGED <<streamVars, stallSecs, slot, pidx, rxVars, recVars, faults, resets>>

(* xQueueReceive(), then the tests that follow it: a token is used only if  *)
(* the stream is still on and the slot still has its transfer.              *)
PumpTake ==
  /\ pump = "top" /\ streaming /\ queue # <<>>
  /\ queue' = Tail(queue)
  /\ IF xfer[Head(queue)] \in {"null", "orphan"} THEN pump' = "check" /\ UNCHANGED slot
                                                ELSE pump' = "submit" /\ slot' = Head(queue)
  /\ UNCHANGED <<streaming, xfer, pipe, fill, moved, dropped, heard, stallSecs, spump, pidx,
                 rxVars, recVars, faults, resets>>

(* the same call coming back empty-handed after 50 ms                       *)
PumpTimeout ==
  /\ pump = "top" /\ streaming /\ queue = <<>>
  /\ pump' = "check"
  /\ UNCHANGED <<streamVars, stallSecs, spump, slot, pidx, rxVars, recVars, faults, resets>>

(* A transfer the host still holds is tried again; any other error loses    *)
(* the token.                                                               *)
PumpSubmit ==
  /\ pump = "submit"
  /\ xfer' = AfterSubmit(slot)
  /\ IF SubmitResult(slot) = "not_finished" THEN pump' = "retry" /\ UNCHANGED slot
                                            ELSE pump' = "check" /\ slot' = 0
  /\ UNCHANGED <<streaming, pipe, queue, fill, moved, dropped, heard, stallSecs, spump, pidx,
                 rxVars, recVars, faults, resets>>

PumpRetry ==
  /\ pump = "retry"
  /\ Send(slot) /\ pump' = "check" /\ slot' = 0
  /\ UNCHANGED <<streaming, xfer, pipe, fill, moved, dropped, heard, stallSecs, spump, pidx,
                 rxVars, recVars, faults, resets>>

PumpLoop ==
  /\ pump = "check" /\ pump' = "top"
  /\ UNCHANGED <<streamVars, stallSecs, spump, slot, pidx, rxVars, recVars, faults, resets>>

Stalled_IgnoresDrops == streaming /\ ~moved

(* A second has passed: neither a byte stored nor a byte dropped is a stall. *)
(* The window opens when the start creates the pump, so the few milliseconds *)
(* that the rest of the start takes never hold the end of one.               *)
Stalled == streaming /\ ~moved /\ ~dropped

PumpSecond ==
  /\ pump = "check" /\ rx = "run"
  /\ IF Stalled
       THEN /\ stallSecs' = stallSecs + 1 /\ pump' = "flush"
            /\ UNCHANGED <<moved, dropped, heard>>
       ELSE /\ stallSecs' = 0 /\ pump' = "top"
            /\ moved' = FALSE /\ dropped' = FALSE /\ heard' = FALSE
  /\ UNCHANGED <<streaming, xfer, pipe, queue, fill, spump, slot, pidx, rxVars, recVars,
                 faults, resets>>

(* stream_reprime(): before and after its 10 ms delay, then its loop.       *)
PumpFlush ==
  /\ pump = "flush" /\ pump' = "reset"
  /\ xfer' = Cancelled /\ Clear
  /\ UNCHANGED <<streaming, queue, fill, moved, dropped, heard, stallSecs, spump, slot, pidx,
                 rxVars, recVars, faults, resets>>

PumpReset ==
  /\ pump = "reset" /\ pump' = "prime" /\ pidx' = 0
  /\ queue' = <<>>
  /\ UNCHANGED <<streaming, xfer, pipe, fill, moved, dropped, heard, stallSecs, spump, slot,
                 rxVars, recVars, faults, resets>>

PumpPrime ==
  /\ pump = "prime"
  /\ xfer' = IF xfer[pidx] \in {"null", "orphan"} THEN xfer ELSE AfterSubmit(pidx)
  /\ IF pidx = N - 1 THEN pump' = "escalate" /\ pidx' = 0
                     ELSE pidx' = pidx + 1 /\ UNCHANGED pump
  /\ UNCHANGED <<streaming, pipe, queue, fill, moved, dropped, heard, stallSecs, spump, slot,
                 rxVars, recVars, faults, resets>>

PumpEscalate_ForgetsCount ==
  /\ pump = "escalate" /\ pump' = "top"
  /\ IF stallSecs >= StallLimit THEN notified' = TRUE ELSE UNCHANGED notified
  /\ stallSecs' = 0
  /\ moved' = FALSE /\ dropped' = FALSE /\ heard' = FALSE
  /\ UNCHANGED <<streaming, xfer, pipe, queue, fill, spump, slot, pidx, rxVars, rec,
                 faults, resets>>

(* Back in the pump after the re-prime: give up after StallLimit of them,   *)
(* and open a new window.                                                   *)
PumpEscalate ==
  /\ pump = "escalate" /\ pump' = "top"
  /\ IF stallSecs >= StallLimit THEN stallSecs' = 0 /\ notified' = TRUE
                                ELSE UNCHANGED <<stallSecs, notified>>
  /\ moved' = FALSE /\ dropped' = FALSE /\ heard' = FALSE
  /\ UNCHANGED <<streaming, xfer, pipe, queue, fill, spump, slot, pidx, rxVars, rec,
                 faults, resets>>

-----------------------------------------------------------------------------
(* adsb_rx_task() and esp_libusb_stream_start()                            *)

(* Up to the creation of the pump, which is skipped while s_spump is set.   *)
RxStart ==
  /\ rx = "start" /\ rx' = "alloc" /\ ridx' = 0 /\ posted' = FALSE
  /\ streaming' = TRUE /\ queue' = <<>> /\ fill' = 0
  /\ moved' = FALSE /\ dropped' = FALSE /\ heard' = FALSE
  /\ spump' = TRUE
  /\ IF spump THEN UNCHANGED <<pump, stallSecs>> ELSE pump' = "top" /\ stallSecs' = 0
  /\ UNCHANGED <<xfer, pipe, slot, pidx, recVars, faults, resets>>

RxAlloc ==
  /\ rx = "alloc"
  /\ \/ /\ xfer' = [xfer EXCEPT ![ridx] = "idle"] /\ rx' = "submit" /\ UNCHANGED faults
     \/ /\ faults < MaxFaults /\ faults' = faults + 1
        /\ xfer' = [xfer EXCEPT ![ridx] = "null"] /\ rx' = "posted"
  /\ UNCHANGED <<streaming, pipe, queue, fill, moved, dropped, heard, pumpVars, ridx, posted,
                 recVars, resets>>

(* A transfer the host refuses is freed, and the loop ends there.           *)
RxSubmit ==
  /\ rx = "submit" /\ xfer[ridx] = "idle"
  /\ IF SubmitResult(ridx) = "ok"
       THEN /\ xfer' = AfterSubmit(ridx) /\ posted' = TRUE
            /\ IF ridx = N - 1 THEN rx' = "posted" /\ UNCHANGED ridx
                               ELSE rx' = "alloc" /\ ridx' = ridx + 1
       ELSE /\ xfer' = [xfer EXCEPT ![ridx] = "null"] /\ rx' = "posted"
            /\ UNCHANGED <<posted, ridx>>
  /\ UNCHANGED <<streaming, pipe, queue, fill, moved, dropped, heard, pumpVars, recVars,
                 faults, resets>>

RxPosted ==
  /\ rx = "posted"
  /\ IF posted THEN rx' = "run" /\ UNCHANGED streaming
               ELSE rx' = "retry" /\ streaming' = FALSE
  /\ ridx' = 0 /\ posted' = FALSE
  /\ UNCHANGED <<xfer, pipe, queue, fill, moved, dropped, heard, pumpVars, recVars, faults, resets>>

(* stream_started is false: another try after 100 ms.  Once it is true      *)
(* nothing clears it, and the start is never called again.  The 100 ms      *)
(* outlast the 65 ms a stop may still need (see RecWait).                   *)
RxRetry ==
  /\ rx = "retry" /\ rec \notin {"wait", "flush", "free"}
  /\ rx' = "start"
  /\ UNCHANGED <<streamVars, pumpVars, ridx, posted, recVars, faults, resets>>

(* esp_libusb_stream_read(): as much as is there and still fits the buffer. *)
RxRead ==
  /\ rx = "run" /\ fill > 0
  /\ fill' \in 0 .. fill - 1
  /\ UNCHANGED <<streaming, xfer, pipe, queue, moved, dropped, heard, pumpVars, rxVars, recVars,
                 faults, resets>>

-----------------------------------------------------------------------------
(* usb_recover_task(), rtlsdr_reset_interface(), esp_libusb_stream_stop()  *)

UserReset ==
  /\ resets < MaxResets
  /\ notified' = TRUE /\ resets' = resets + 1
  /\ UNCHANGED <<streamVars, pumpVars, rxVars, rec, faults>>

RecTake ==
  /\ rec = "idle" /\ notified /\ notified' = FALSE
  /\ rec' = IF streaming THEN "wait" ELSE "release"
  /\ streaming' = FALSE
  /\ UNCHANGED <<xfer, pipe, queue, fill, moved, dropped, heard, pumpVars, rxVars, faults, resets>>

RecWait_NoWait ==
  /\ rec = "wait" /\ rec' = "flush"
  /\ UNCHANGED <<streamVars, pumpVars, rxVars, notified, faults, resets>>

(* The wait is at most 100 ms.  The pump is gone by then: it sits at most   *)
(* 50 ms in xQueueReceive(), 2 ms in a retry and 10 ms in a re-prime, and   *)
(* skips everything else once s_streaming is false.  A start that was under *)
(* way has also posted the rest of its pool, which takes it no time.        *)
RecWait ==
  /\ rec = "wait" /\ ~spump /\ rx \notin {"alloc", "submit"}
  /\ rec' = "flush"
  /\ UNCHANGED <<streamVars, pumpVars, rxVars, notified, faults, resets>>

RecFlush ==
  /\ rec = "flush" /\ rec' = "free"
  /\ xfer' = Cancelled /\ Clear
  /\ UNCHANGED <<streaming, queue, fill, moved, dropped, heard, pumpVars, rxVars, notified,
                 faults, resets>>

RecFree ==
  /\ rec = "free" /\ rec' = "release"
  /\ xfer' = [s \in Slots |-> IF xfer[s] \in InFlight \cup {"orphan"} THEN "orphan" ELSE "null"]
  /\ UNCHANGED <<streaming, pipe, queue, fill, moved, dropped, heard, pumpVars, rxVars, notified,
                 faults, resets>>

(* The host refuses to release an interface with transfers outstanding, and *)
(* nobody looks at the result; the claim 20 ms later then fails as well.    *)
RecRelease ==
  /\ rec = "release" /\ rec' = "claim"
  /\ pipe' = IF \E s \in Slots : xfer[s] \in InFlight \cup {"orphan"} THEN pipe ELSE "released"
  /\ UNCHANGED <<streaming, xfer, queue, fill, moved, dropped, heard, pumpVars, rxVars, notified,
                 faults, resets>>

RecClaim ==
  /\ rec = "claim"
  /\ \/ /\ pipe = "released" /\ pipe' = "active" /\ rec' = "ok"
        /\ UNCHANGED faults
     \/ /\ pipe = "released" /\ faults < MaxFaults /\ faults' = faults + 1
        /\ rec' = "failed" /\ UNCHANGED pipe
     \/ /\ pipe # "released" /\ rec' = "failed" /\ UNCHANGED <<pipe, faults>>
  /\ UNCHANGED <<streaming, xfer, queue, fill, moved, dropped, heard, pumpVars, rxVars, notified,
                 resets>>

RecReport ==
  /\ rec \in {"ok", "failed"} /\ rec' = "idle"
  /\ UNCHANGED <<streamVars, pumpVars, rxVars, notified, faults, resets>>

-----------------------------------------------------------------------------
Host    == \E s \in Slots : Complete(s) \/ Fail(s) \/ Callback(s) \/ OrphanCallback(s)
Pump    == \/ PumpExit \/ PumpTake \/ PumpTimeout \/ PumpSubmit \/ PumpRetry \/ PumpLoop
           \/ PumpSecond \/ PumpFlush \/ PumpReset \/ PumpPrime \/ PumpEscalate
Rx      == RxStart \/ RxAlloc \/ RxSubmit \/ RxPosted \/ RxRetry \/ RxRead
Recover == RecTake \/ RecWait \/ RecFlush \/ RecFree \/ RecRelease \/ RecClaim
           \/ RecReport

Next == Host \/ FallSilent \/ Pump \/ Rx \/ Recover \/ UserReset

Spec == Init /\ [][Next]_vars

(* Every task gets the CPU, every retired transfer gets its callback, and   *)
(* the second passes again and again however often the pump loops.  The     *)
(* device and the operator owe nothing.                                     *)
Fairness ==
  /\ \A s \in Slots : WF_xfer(Callback(s)) /\ WF_xfer(OrphanCallback(s))
  /\ WF_<<pump, pidx>>(Pump) /\ SF_pump(PumpSecond)
  /\ WF_<<rx, fill>>(Rx) /\ WF_rec(Recover)

FairSpec == Spec /\ Fairness

-----------------------------------------------------------------------------
(* Properties                                                              *)

(* The variables hold what the C variables can hold; in particular the     *)
(* stall counter never passes the limit that resets it, and the ring never *)
(* holds more than it has room for (esp_libusb.c:269-283, 341-350).        *)
TypeOK ==
  /\ streaming \in BOOLEAN /\ xfer \in [Slots -> XferState]
  /\ pipe \in PipeState
  /\ queue \in Seq(Slots) /\ fill \in 0 .. RingChunks
  /\ moved \in BOOLEAN /\ dropped \in BOOLEAN /\ heard \in BOOLEAN
  /\ stallSecs \in 0 .. StallLimit /\ spump \in BOOLEAN /\ pump \in PumpState
  /\ slot \in Slots /\ pidx \in Slots
  /\ rx \in RxState /\ ridx \in Slots /\ posted \in BOOLEAN
  /\ rec \in RecState /\ notified \in BOOLEAN
  /\ faults \in 0 .. MaxFaults /\ resets \in 0 .. MaxResets

(* stream_xfer_cb() sends with no wait and ignores the result, so a full   *)
(* queue would silently take a transfer out of the pool.  A re-prime that  *)
(* overtakes a late callback puts a second token of the same slot in       *)
(* circulation; there is still room whenever a callback or a retry sends.  *)
QueueHasRoom ==
  /\ streaming /\ (\E s \in Slots : xfer[s] \in {"data", "void", "orphan"}) => Len(queue) < QueueLen
  /\ pump = "retry" => Len(queue) < QueueLen

(* A stream that is on has a task pumping it, also when an earlier start   *)
(* failed and its pump had not yet gone (esp_libusb.c:364, 395-396).       *)
NoDeadPump == streaming => pump # "none" /\ spump

(* The interface is never reset out from under code that is still          *)
(* mid-transfer on it (class_driver.c:1246-1250): while stream_stop frees  *)
(* the pool, neither the pump nor the start loop is using it.              *)
NothingFreedInUse ==
  rec \in {"flush", "free"} => pump = "none" /\ rx \notin {"alloc", "submit"}

(* Of every interleaving of stop, restart and the pump's own end: the pump  *)
(* is there as long as anything is posted, and gone when the pool is freed. *)
PumpOutlastsPool == NoDeadPump /\ NothingFreedInUse

(* A full ring is not a dead pipe (esp_libusb.c:337-340): the pump         *)
(* re-primes only when no callback has delivered data since its last look. *)
FlushOnlyWhenSilent ==
  [][pump' = "flush" /\ pump # "flush" => ~heard]_vars

(* A pipe that halts or falls silent while streaming does not stay so:     *)
(* either a re-prime revives it, or the pump escalates to the reset.       *)
WedgeHandled == (streaming /\ pipe # "active") ~> (pipe = "active" \/ ~streaming)

(* README.md:71-73 says the interface reset clears a wedged pipe: after a  *)
(* reset that succeeded, transfers are posted again.                       *)
ResetRestoresStream == rec = "ok" ~> \E s \in Slots : xfer[s] = "flight"
=============================================================================
