----------------------------- MODULE FeedServer -----------------------------
(***************************************************************************)
(* The socket half of a line feed, feed_task() of src/main/feed_avr.c: one *)
(* task accepts at most one client a tick, notices those that have hung    *)
(* up, takes a batch of lines off the ring and sends it to every client    *)
(* without ever blocking.  The decoder pushes lines from another core and  *)
(* looks at s_nclients to see whether anybody wants them.                  *)
(*                                                                         *)
(* The ring is the queue that FeedRing is shown to implement, of which     *)
(* only the length matters here.                                           *)
(***************************************************************************)
EXTENDS Naturals, FiniteSets, FiniteSetsExt

CONSTANTS
  Peers,        \* whoever connects
  Readers,      \* those of them that read everything at once
  Stuck,        \* those that never read
  NoPeer,       \* fd < 0
  MaxClients, StallLimit, Capacity,
  BatchLines,   \* lines that fit s_batch
  Backlog       \* of listen()

ASSUME ServerAssumption ==
  /\ Readers \cap Stuck = {} /\ Readers \cup Stuck \subseteq Peers /\ NoPeer \notin Peers
  /\ MaxClients \in Nat \ {0} /\ StallLimit \in Nat /\ Capacity \in Nat \ {0}
  /\ BatchLines \in Nat \ {0} /\ Backlog \in Nat \ {0}

VARIABLES
  at,          \* where feed_task is
  listening,   \* s_listen >= 0
  cli, stall,  \* s_cli
  nclients,    \* s_nclients
  lines,       \* lines in the ring
  pushing,     \* the decoder has found s_nclients to be positive
  idx,         \* the loop index of poll_closed and broadcast
  link,        \* each peer's connection: none, pending, up, gone (FIN or RST), shut (by us)
  full         \* history: full-buffer ticks of the connection since a whole batch went out

taskVars == <<at, idx>>
cliVars  == <<cli, stall, nclients>>
serverVars     == <<taskVars, cliVars, listening, lines, pushing, link, full>>

ClientSlot == 1 .. MaxClients

ServerInit ==
  /\ at = "tick" /\ listening = FALSE
  /\ cli = [s \in ClientSlot |-> NoPeer] /\ stall = [s \in ClientSlot |-> 0] /\ nclients = 0
  /\ lines = 0 /\ pushing = FALSE /\ idx = 1
  /\ link = [p \in Peers |-> "none"]
  /\ full = [p \in Peers |-> 0]

-----------------------------------------------------------------------------
(* The network                                                             *)

Connect(p) ==
  /\ listening /\ link[p] = "none"
  /\ Cardinality({r \in Peers : link[r] = "pending"}) < Backlog
  /\ link' = [link EXCEPT ![p] = "pending"]
  /\ UNCHANGED <<taskVars, cliVars, listening, lines, pushing, full>>

HangUp(p) ==
  /\ link[p] = "up" /\ p \notin Stuck
  /\ link' = [link EXCEPT ![p] = "gone"]
  /\ UNCHANGED <<taskVars, cliVars, listening, lines, pushing, full>>

(* A peer that was shut out may come back.                                 *)
Forget(p) ==
  /\ link[p] = "shut" /\ \A s \in ClientSlot : cli[s] # p
  /\ link' = [link EXCEPT ![p] = "none"]
  /\ UNCHANGED <<taskVars, cliVars, listening, lines, pushing, full>>

-----------------------------------------------------------------------------
(* feed_avr_push(), on the other core                                      *)

PushLine ==
  /\ ~pushing /\ nclients > 0 /\ pushing' = TRUE
  /\ UNCHANGED <<taskVars, cliVars, listening, lines, link, full>>

LinePushed ==
  /\ pushing /\ pushing' = FALSE
  /\ lines' = IF lines < Capacity THEN lines + 1 ELSE lines
  /\ UNCHANGED <<taskVars, cliVars, listening, link, full>>

-----------------------------------------------------------------------------
(* feed_task()                                                             *)

(* listen_open() may fail, and is tried again a tick later.                *)
OpenFeed ==
  /\ at = "tick"
  /\ listening' \in IF listening THEN {TRUE} ELSE BOOLEAN
  /\ at' = (IF listening' THEN "accept" ELSE "poll") /\ idx' = 1
  /\ UNCHANGED <<cliVars, lines, pushing, link, full>>

Unused == {s \in ClientSlot : cli[s] = NoPeer}

(* The first free slot, or goodbye.                                        *)
Accept(p) ==
  /\ at = "accept" /\ link[p] = "pending"
  /\ at' = "poll" /\ idx' = 1
  /\ IF Unused = {}
       THEN /\ link' = [link EXCEPT ![p] = "shut"]
            /\ UNCHANGED <<cliVars, full>>
       ELSE LET s == Min(Unused) IN
            /\ cli' = [cli EXCEPT ![s] = p] /\ stall' = [stall EXCEPT ![s] = 0]
            /\ nclients' = nclients + 1
            /\ link' = [link EXCEPT ![p] = "up"]
            /\ full' = [full EXCEPT ![p] = 0]
  /\ UNCHANGED <<listening, lines, pushing>>

NobodyWaits ==
  /\ at = "accept" /\ \A p \in Peers : link[p] # "pending"
  /\ at' = "poll" /\ idx' = 1
  /\ UNCHANGED <<cliVars, listening, lines, pushing, link, full>>

Close_KeepsCount(s) ==
  /\ cli' = [cli EXCEPT ![s] = NoPeer] /\ stall' = [stall EXCEPT ![s] = 0]
  /\ UNCHANGED nclients
  /\ link' = [link EXCEPT ![cli[s]] = "shut"]

Close(s) ==
  /\ cli' = [cli EXCEPT ![s] = NoPeer] /\ stall' = [stall EXCEPT ![s] = 0]
  /\ nclients' = nclients - 1
  /\ link' = [link EXCEPT ![cli[s]] = "shut"]

NextSlot(after) == IF idx < MaxClients THEN idx' = idx + 1 /\ UNCHANGED at
                                       ELSE idx' = 1 /\ at' = after

(* poll_closed(), one slot: recv() reports a peer that is gone.            *)
PollClosed ==
  /\ at = "poll" /\ NextSlot("drain")
  /\ IF cli[idx] # NoPeer /\ link[cli[idx]] = "gone" THEN Close(idx)
                                                     ELSE UNCHANGED <<cliVars, link>>
  /\ UNCHANGED <<listening, lines, pushing, full>>

(* drain(): always, so that the ring does not fill up with nobody there.   *)
Drain ==
  /\ at = "drain"
  /\ LET taken == Min({lines, BatchLines}) IN
       /\ lines' = lines - taken
       /\ at' = IF taken > 0 /\ nclients > 0 THEN "send" ELSE "tick"
  /\ UNCHANGED <<idx, cliVars, listening, pushing, link, full>>

(* What send() may return for a peer: the whole batch, a part of it, a full *)
(* buffer, or an error when the peer is gone.                               *)
Outcome(p) == CASE link[p] = "gone"  -> {"error"}
                [] p \in Readers     -> {"whole"}
                [] p \in Stuck       -> {"full"}
                [] OTHER             -> {"whole", "part", "full"}

SkipSlot ==
  /\ at = "send" /\ cli[idx] = NoPeer /\ NextSlot("tick")
  /\ UNCHANGED <<cliVars, listening, lines, pushing, link, full>>

SendWhole ==
  /\ at = "send" /\ cli[idx] # NoPeer /\ "whole" \in Outcome(cli[idx]) /\ NextSlot("tick")
  /\ stall' = [stall EXCEPT ![idx] = 0]
  /\ full' = [full EXCEPT ![cli[idx]] = 0]
  /\ UNCHANGED <<cli, nclients, listening, lines, pushing, link>>

(* A short write cuts a line, and leaves the stall count as it is.         *)
SendPart ==
  /\ at = "send" /\ cli[idx] # NoPeer /\ "part" \in Outcome(cli[idx]) /\ NextSlot("tick")
  /\ UNCHANGED <<cliVars, listening, lines, pushing, link, full>>

Bumped(f, p) == [f EXCEPT ![p] = IF @ <= StallLimit THEN @ + 1 ELSE @]

SendFull_OneEarly ==
  /\ at = "send" /\ cli[idx] # NoPeer /\ "full" \in Outcome(cli[idx]) /\ NextSlot("tick")
  /\ full' = Bumped(full, cli[idx])
  /\ IF stall[idx] + 1 >= StallLimit
       THEN Close(idx)
       ELSE stall' = [stall EXCEPT ![idx] = @ + 1] /\ UNCHANGED <<cli, nclients, link>>
  /\ UNCHANGED <<listening, lines, pushing>>

(* A client that takes nothing more than StallLimit times is closed.       *)
SendFull ==
  /\ at = "send" /\ cli[idx] # NoPeer /\ "full" \in Outcome(cli[idx]) /\ NextSlot("tick")
  /\ full' = Bumped(full, cli[idx])
  /\ IF stall[idx] + 1 > StallLimit
       THEN Close(idx)
       ELSE stall' = [stall EXCEPT ![idx] = @ + 1] /\ UNCHANGED <<cli, nclients, link>>
  /\ UNCHANGED <<listening, lines, pushing>>

SendError ==
  /\ at = "send" /\ cli[idx] # NoPeer /\ "error" \in Outcome(cli[idx]) /\ NextSlot("tick")
  /\ Close(idx)
  /\ UNCHANGED <<listening, lines, pushing, full>>

-----------------------------------------------------------------------------
Network == \E p \in Peers : Connect(p) \/ HangUp(p) \/ Forget(p)
Decoder == PushLine \/ LinePushed
Feed    == \/ OpenFeed \/ (\E p \in Peers : Accept(p)) \/ NobodyWaits \/ PollClosed \/ Drain
           \/ SkipSlot \/ SendWhole \/ SendPart \/ SendFull \/ SendError
ServerNext    == Network \/ Decoder \/ Feed

ServerSpec == ServerInit /\ [][ServerNext]_serverVars

-----------------------------------------------------------------------------
(* Properties                                                              *)

(* The count that the decoder goes by is the number of connections that    *)
(* are open, and every one of them has exactly one slot: no socket leaks   *)
(* (feed_avr.c:59, 88-95, 119-140).                                        *)
EveryClientHasASlot ==
  /\ nclients = Cardinality(ClientSlot \ Unused)
  /\ \A p \in Peers : Cardinality({s \in ClientSlot : cli[s] = p})
                        = IF link[p] \in {"up", "gone"} THEN 1 ELSE 0

(* A client that keeps up is never closed, whatever the others do; another *)
(* only after more than StallLimit full ticks since it last took a whole   *)
(* batch, none of them those of the client that had its slot before        *)
(* (feed_avr.c:170-173).                                                   *)
GivenUpLate ==
  [][\A p \in Peers : link[p] = "up" /\ link'[p] = "shut" => p \notin Readers /\ full'[p] > StallLimit]_serverVars

=============================================================================
