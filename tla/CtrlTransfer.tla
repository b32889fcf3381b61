---------------------------- MODULE CtrlTransfer ----------------------------
(***************************************************************************)
(* Control transfers of src/main/esp_libusb.c.  Every register access of   *)
(* the tuner goes through one transfer object, one reply buffer and one    *)
(* completion semaphore, shared by the setup task, the recovery task and   *)
(* whoever retunes; ctrl_mux serialises them.  A caller waits for a        *)
(* bounded time, but the transfer it gives up on stays with the USB host,  *)
(* and its callback runs when the device at last answers.                  *)
(***************************************************************************)
EXTENDS Naturals, FiniteSets

CONSTANTS
  Callers,      \* the tasks that make control transfers
  NoOne,        \* nobody holds ctrl_mux
  NoRequest,    \* no request, and the reply of a request that failed
  Failed,       \* the result of a call that returned -1
  MaxCalls      \* bound: calls a task makes

ASSUME CtrlAssumption ==
  /\ NoOne \notin Callers /\ MaxCalls \in Nat
  /\ NoRequest \notin Callers \X Nat /\ Failed \notin Callers \X Nat

VARIABLES
  mux,       \* who holds ctrl_mux
  done,      \* done_sem has been given
  packet,    \* the request whose setup packet is in the transfer's buffer
  xfer,      \* the transfer object: idle, posted, asked (the device has the request), retired
  asked,     \* the request the device has
  status,    \* the status the host retires the transfer with is 0
  response,  \* response_buf, as the request it answers
  success,   \* is_success
  at,        \* where each caller is
  calls,     \* how many calls it has begun
  got,       \* what its last call returned: the reply of a request, or Failed
  overrun    \* history: an abandoned transfer completed just before its submit

devVars  == <<xfer, asked, status, packet>>
cbVars   == <<done, response, success>>
callVars == <<mux, at, calls, got, overrun>>
vars     == <<devVars, cbVars, callVars>>

Request    == Callers \X (1 .. MaxCalls)
Current(c) == <<c, calls[c]>>
Places     == {"idle", "mux", "setup", "submit", "wait", "check", "fail"}

Init ==
  /\ mux = NoOne /\ done = FALSE /\ packet = NoRequest
  /\ xfer = "idle" /\ asked = NoRequest /\ status = TRUE
  /\ response = NoRequest /\ success = FALSE
  /\ at = [c \in Callers |-> "idle"] /\ calls = [c \in Callers |-> 0]
  /\ got = [c \in Callers |-> Failed] /\ overrun = [c \in Callers |-> FALSE]

-----------------------------------------------------------------------------
(* The USB host and the device: the request that counts is the one in the  *)
(* buffer when the device gets it, which need not be the one submitted.    *)

DeviceAsked ==
  /\ xfer = "posted" /\ xfer' = "asked" /\ asked' = packet
  /\ UNCHANGED <<packet, status, cbVars, callVars>>

DeviceAnswers ==
  /\ xfer = "asked" /\ xfer' = "retired"
  /\ status' \in BOOLEAN
  /\ UNCHANGED <<asked, packet, cbVars, callVars>>

(* transfer_read_cb()                                                      *)
Callback ==
  /\ xfer = "retired" /\ xfer' = "idle"
  /\ response' = IF status THEN asked ELSE NoRequest
  /\ success' = status
  /\ done' = TRUE
  /\ overrun' = [c \in Callers |-> overrun[c] \/ at[c] = "submit"]
  /\ UNCHANGED <<packet, asked, status, mux, at, calls, got>>

-----------------------------------------------------------------------------
(* esp_libusb_control_transfer() and ctrl_transfer_locked()                *)

Call(c) ==
  /\ at[c] = "idle" /\ calls[c] < MaxCalls
  /\ at' = [at EXCEPT ![c] = "mux"] /\ calls' = [calls EXCEPT ![c] = @ + 1]
  /\ overrun' = [overrun EXCEPT ![c] = FALSE]
  /\ UNCHANGED <<devVars, cbVars, mux, got>>

TakeMux(c) ==
  /\ at[c] = "mux" /\ mux = NoOne
  /\ mux' = c /\ at' = [at EXCEPT ![c] = "setup"]
  /\ UNCHANGED <<devVars, cbVars, calls, got, overrun>>

(* No ctrl_mux within timeout + 1000 ms: "ctrl xfer busy".                  *)
MuxBusy(c) ==
  /\ at[c] = "mux" /\ mux # NoOne
  /\ at' = [at EXCEPT ![c] = "idle"] /\ got' = [got EXCEPT ![c] = Failed]
  /\ UNCHANGED <<devVars, cbVars, mux, calls, overrun>>

Setup_KeepsSemaphore(c) ==
  /\ at[c] = "setup"
  /\ packet' = Current(c)
  /\ at' = [at EXCEPT ![c] = "submit"]
  /\ UNCHANGED <<xfer, asked, status, cbVars, mux, calls, got, overrun>>

(* The setup packet goes into the shared buffer, also when an abandoned    *)
(* transfer still uses it; a leftover token of done_sem is thrown away.    *)
Setup(c) ==
  /\ at[c] = "setup"
  /\ packet' = Current(c)
  /\ done' = FALSE
  /\ at' = [at EXCEPT ![c] = "submit"]
  /\ UNCHANGED <<xfer, asked, status, response, success, mux, calls, got, overrun>>

(* The host refuses a transfer it still has.                               *)
Submit(c) ==
  /\ at[c] = "submit"
  /\ IF xfer = "idle"
       THEN xfer' = "posted" /\ at' = [at EXCEPT ![c] = "wait"]
       ELSE UNCHANGED xfer /\ at' = [at EXCEPT ![c] = "fail"]
  /\ UNCHANGED <<asked, status, packet, cbVars, mux, calls, got, overrun>>

Timeout_LeavesMux(c) ==
  /\ at[c] = "wait" /\ ~done
  /\ at' = [at EXCEPT ![c] = "idle"] /\ got' = [got EXCEPT ![c] = Failed]
  /\ UNCHANGED <<devVars, cbVars, mux, calls, overrun>>

(* No done_sem within timeout + 500 ms.                                     *)
Timeout(c) ==
  /\ at[c] = "wait" /\ ~done
  /\ at' = [at EXCEPT ![c] = "fail"]
  /\ UNCHANGED <<devVars, cbVars, mux, calls, got, overrun>>

Wake(c) ==
  /\ at[c] = "wait" /\ done
  /\ done' = FALSE
  /\ at' = [at EXCEPT ![c] = IF success THEN "check" ELSE "fail"]
  /\ UNCHANGED <<devVars, response, success, mux, calls, got, overrun>>

(* The reply is copied out and the mutex given back.                       *)
Return(c) ==
  /\ at[c] = "check"
  /\ got' = [got EXCEPT ![c] = response]
  /\ mux' = NoOne /\ at' = [at EXCEPT ![c] = "idle"]
  /\ UNCHANGED <<devVars, cbVars, calls, overrun>>

Fail(c) ==
  /\ at[c] = "fail"
  /\ got' = [got EXCEPT ![c] = Failed]
  /\ mux' = NoOne /\ at' = [at EXCEPT ![c] = "idle"]
  /\ UNCHANGED <<devVars, cbVars, calls, overrun>>

-----------------------------------------------------------------------------
Caller(c) == \/ Call(c) \/ TakeMux(c) \/ MuxBusy(c) \/ Setup(c) \/ Submit(c)
             \/ Timeout(c) \/ Wake(c) \/ Return(c) \/ Fail(c)
Device    == DeviceAsked \/ DeviceAnswers \/ Callback
Next      == Device \/ \E c \in Callers : Caller(c)

Spec == Init /\ [][Next]_vars

-----------------------------------------------------------------------------
(* Properties                                                              *)

(* Every variable keeps its type (esp_libusb.c:14-28); proved in           *)
(* CtrlTransfer_proofs.                                                     *)
TypeOK ==
  /\ mux \in Callers \cup {NoOne} /\ done \in BOOLEAN /\ packet \in Request \cup {NoRequest}
  /\ xfer \in {"idle", "posted", "asked", "retired"} /\ asked \in Request \cup {NoRequest}
  /\ status \in BOOLEAN /\ success \in BOOLEAN /\ response \in Request \cup {NoRequest}
  /\ at \in [Callers -> Places] /\ calls \in [Callers -> 0 .. MaxCalls]
  /\ got \in [Callers -> Request \cup {Failed, NoRequest}] /\ overrun \in [Callers -> BOOLEAN]

(* What a caller copies out is the reply to its own request, however late   *)
(* the device answers other callers' requests and its own earlier ones.     *)
(* The one gap: an abandoned transfer that completes after this caller has  *)
(* drained done_sem and before it submits (esp_libusb.c:488-490).           *)
OwnReplyUnlessOverrun ==
  \A c \in Callers : at[c] = "check" /\ ~overrun[c] => response = Current(c)

(* The gap closed: "the shared slot is only free once the reply has been    *)
(* copied out" (esp_libusb.c:521-522), so that no two callers "read each    *)
(* other's reply" (esp_libusb.h:37-41).                                     *)
OwnReply ==
  \A c \in Callers : at[c] = "check" => response = Current(c)

(* ctrl_mux is given back on every path: also after timeouts and refused    *)
(* submits the next caller gets its turn (esp_libusb.c:523-529).            *)
MuxComesBack == \A c \in Callers : mux = c ~> mux # c
=============================================================================
