------------------------------ MODULE JsonFeed ------------------------------
(***************************************************************************)
(* The JSON feed, src/main/feed_json.c: every tick one task takes in who   *)
(* has connected, lets go who has hung up, counts now and then what the    *)
(* network stack holds, and writes the whole aircraft table to every       *)
(* viewer as one line.  The line is longer than a send buffer, so a write  *)
(* waits for the viewer's acknowledgements, for a while.  The network      *)
(* stack and the viewers are external.                                     *)
(***************************************************************************)
EXTENDS Naturals, FiniteSets

CONSTANTS
  Viewers,             \* whoever connects to :8888
  Apps,                \* those of them that acknowledge within the budget
  Frozen,              \* those that never read
  NoViewer,            \* fd < 0
  JsonClients,         \* MAX_CLIENTS, also the backlog
  JsonStallLimit,      \* STALL_LIMIT
  Parts,               \* pieces of a snapshot
  SendBuf,             \* pieces that the stack takes before an acknowledgement
  Polls                \* SEND_BUDGET_MS / SEND_WAIT_MS

ASSUME JsonAssumption ==
  /\ Apps \cup Frozen \subseteq Viewers /\ Apps \cap Frozen = {} /\ NoViewer \notin Viewers
  /\ JsonClients \in Nat \ {0} /\ JsonStallLimit \in Nat /\ Parts \in Nat \ {0}
  /\ SendBuf \in 1 .. Parts /\ Polls \in Nat

VARIABLES
  json_at,             \* where feed_task is
  json_listen,         \* s_listen >= 0
  json_cli, json_stall,\* s_cli
  json_nclients,       \* s_nclients
  json_i, off, polled, \* send_frame() to the client of one slot
  s_bad,               \* consecutive censuses that found the stack refusing
  conn,                \* each viewer's connection: none, queued, up, gone (by itself), shut (by us)
  unacked,             \* pieces on their way
  midline,             \* the last piece taken does not end its line
  misses               \* history: snapshots in a row that the connection has not taken whole

turn     == <<json_at, json_i, off, polled>>
clients  == <<json_cli, json_stall, json_nclients>>
wire     == <<conn, unacked, midline, misses>>
jsonVars == <<turn, json_listen, clients, s_bad, wire>>

JsonSlot == 1 .. JsonClients

JsonInit ==
  /\ json_at = "listen" /\ json_listen = FALSE
  /\ json_cli = [s \in JsonSlot |-> NoViewer] /\ json_stall = [s \in JsonSlot |-> 0] /\ json_nclients = 0
  /\ json_i = 1 /\ off = 0 /\ polled = 0
  /\ s_bad = 0
  /\ conn = [v \in Viewers |-> "none"] /\ unacked = [v \in Viewers |-> 0]
  /\ midline = [v \in Viewers |-> FALSE] /\ misses = [v \in Viewers |-> 0]

Queued == {v \in Viewers : conn[v] = "queued"}

-----------------------------------------------------------------------------
(* The network stack and the viewers *)

Dial(v) ==
  /\ json_listen /\ conn[v] = "none" /\ Cardinality(Queued) < JsonClients
  /\ conn' = [conn EXCEPT ![v] = "queued"]
  /\ UNCHANGED <<turn, json_listen, clients, s_bad, unacked, midline, misses>>

Ack(v) ==
  /\ v \notin Frozen /\ conn[v] = "up" /\ unacked[v] > 0 /\ unacked' = [unacked EXCEPT ![v] = 0]
  /\ UNCHANGED <<turn, json_listen, clients, s_bad, conn, midline, misses>>

Leave(v) ==
  /\ v \notin Frozen /\ conn[v] = "up" /\ conn' = [conn EXCEPT ![v] = "gone"]
  /\ UNCHANGED <<turn, json_listen, clients, s_bad, unacked, midline, misses>>

\* A viewer that was shut out may dial again, which takes longer than a round of
\* accept_new().
Redial(v) ==
  /\ conn[v] = "shut" /\ json_at # "accept" /\ conn' = [conn EXCEPT ![v] = "none"]
  /\ UNCHANGED <<turn, json_listen, clients, s_bad, unacked, midline, misses>>

-----------------------------------------------------------------------------
(* feed_task() *)

\* listen_open() may fail; nobody is accepted in that tick.
OpenListener ==
  /\ json_at = "listen"
  /\ json_listen' \in IF json_listen THEN {TRUE} ELSE BOOLEAN
  /\ json_at' = IF json_listen' THEN "accept" ELSE "poll"
  /\ UNCHANGED <<json_i, off, polled, clients, s_bad, wire>>

\* accept_new(), once round: the first free slot, or goodbye.
AcceptNew(v) ==
  /\ json_at = "accept" /\ conn[v] = "queued"
  /\ LET free == {s \in JsonSlot : json_cli[s] = NoViewer}
     IN  IF free = {}
           THEN conn' = [conn EXCEPT ![v] = "shut"] /\ UNCHANGED clients
           ELSE LET s == CHOOSE s \in free : \A r \in free : s <= r
                IN  /\ json_cli' = [json_cli EXCEPT ![s] = v]
                    /\ json_stall' = [json_stall EXCEPT ![s] = 0]
                    /\ json_nclients' = json_nclients + 1
                    /\ conn' = [conn EXCEPT ![v] = "up"]
  /\ UNCHANGED <<json_at, json_i, off, polled, json_listen, s_bad, unacked, midline, misses>>

QueueEmpty ==
  /\ json_at = "accept" /\ Queued = {} /\ json_at' = "poll"
  /\ UNCHANGED <<json_i, off, polled, json_listen, clients, s_bad, wire>>

\* client_close()
LetGo(slots) ==
  LET who == {json_cli[s] : s \in slots}
  IN  /\ json_cli' = [s \in JsonSlot |-> IF s \in slots THEN NoViewer ELSE json_cli[s]]
      /\ json_stall' = [s \in JsonSlot |-> IF s \in slots THEN 0 ELSE json_stall[s]]
      /\ json_nclients' = json_nclients - Cardinality(slots)
      /\ conn' = [v \in Viewers |-> IF v \in who THEN "shut" ELSE conn[v]]
      /\ unacked' = [v \in Viewers |-> IF v \in who THEN 0 ELSE unacked[v]]
      /\ midline' = [v \in Viewers |-> midline[v] /\ v \notin who]
      /\ misses' = [v \in Viewers |-> IF v \in who THEN 0 ELSE misses[v]]

JsonPollClosed ==
  /\ json_at = "poll" /\ json_at' = "census"
  /\ LetGo({s \in JsonSlot : json_cli[s] # NoViewer /\ conn[json_cli[s]] = "gone"})
  /\ UNCHANGED <<json_i, off, polled, json_listen, s_bad>>

\* census_check(), in some ticks: the backlog is full, or there is no pcb left.  Two
\* in a row are logged, and then the end of it.
CensusCheck ==
  /\ json_at = "census" /\ json_at' = "export"
  /\ \/ UNCHANGED s_bad
     \/ s_bad' = IF s_bad < 2 THEN s_bad + 1 ELSE s_bad
     \/ Cardinality(Queued) < JsonClients /\ s_bad' = 0
  /\ UNCHANGED <<json_i, off, polled, json_listen, clients, wire>>

\* aircraft_export_ndjson(): the whole table, or nothing when it does not fit.
Export(fits) ==
  /\ json_at = "export"
  /\ json_at' = IF json_nclients > 0 /\ fits THEN "send" ELSE "listen"
  /\ json_i' = 1 /\ off' = 0 /\ polled' = 0
  /\ UNCHANGED <<json_listen, clients, s_bad, wire>>

NextClient == /\ off' = 0 /\ polled' = 0
              /\ IF json_i < JsonClients THEN json_i' = json_i + 1 /\ UNCHANGED json_at
                                         ELSE json_i' = 1 /\ json_at' = "listen"

Viewer == json_cli[json_i]
Sending == json_at = "send" /\ Viewer # NoViewer

NobodyHere ==
  /\ json_at = "send" /\ Viewer = NoViewer /\ NextClient
  /\ UNCHANGED <<json_listen, clients, s_bad, wire>>

\* send() takes what there is room for; the last piece ends the line.
Took(whole) == IF whole THEN 0 ELSE json_stall[json_i]

SendSome ==
  /\ Sending /\ conn[Viewer] = "up" /\ unacked[Viewer] < SendBuf
  /\ LET room  == SendBuf - unacked[Viewer]
         k     == IF room < Parts - off THEN room ELSE Parts - off
         whole == off + k = Parts
     IN  /\ unacked' = [unacked EXCEPT ![Viewer] = @ + k]
         /\ midline' = [midline EXCEPT ![Viewer] = ~ whole]
         /\ misses'  = [misses EXCEPT ![Viewer] = IF whole THEN 0 ELSE @]
         /\ json_stall' = [json_stall EXCEPT ![json_i] = Took(whole)]
         /\ IF whole THEN NextClient ELSE off' = off + k /\ UNCHANGED <<json_at, json_i, polled>>
  /\ UNCHANGED <<json_listen, json_cli, json_nclients, s_bad, conn>>

\* The window is closed: wait a little, or give the snapshot up.
WaitWindow ==
  /\ Sending /\ conn[Viewer] = "up" /\ unacked[Viewer] = SendBuf /\ polled < Polls
  /\ polled' = polled + 1
  /\ UNCHANGED <<json_at, json_i, off, json_listen, clients, s_bad, wire>>

\* A stall is counted whether or not a part of the line went out.
Stalled_UnlessSome == IF off > 0 THEN json_stall[json_i] ELSE json_stall[json_i] + 1
Stalled_Saturates  == IF json_stall[json_i] = JsonStallLimit THEN JsonStallLimit ELSE json_stall[json_i] + 1
Stalled            == json_stall[json_i] + 1

GiveUp ==
  /\ Sending /\ conn[Viewer] = "up" /\ unacked[Viewer] = SendBuf /\ polled = Polls
  /\ Viewer \notin Apps
  /\ IF Stalled > JsonStallLimit
       THEN LetGo({json_i})
       ELSE /\ json_stall' = [json_stall EXCEPT ![json_i] = Stalled]
            /\ misses' = [misses EXCEPT ![Viewer] = IF @ > JsonStallLimit THEN @ ELSE @ + 1]
            /\ UNCHANGED <<json_cli, json_nclients, conn, unacked, midline>>
  /\ NextClient
  /\ UNCHANGED <<json_listen, s_bad>>

SendFails ==
  /\ Sending /\ conn[Viewer] = "gone" /\ NextClient /\ LetGo({json_i})
  /\ UNCHANGED <<json_listen, s_bad>>

JsonTask == \/ OpenListener \/ (\E v \in Viewers : AcceptNew(v)) \/ QueueEmpty \/ JsonPollClosed
            \/ CensusCheck \/ (\E fits \in BOOLEAN : Export(fits)) \/ NobodyHere \/ SendSome \/ WaitWindow \/ GiveUp \/ SendFails
JsonNext == JsonTask \/ \E v \in Viewers : Dial(v) \/ Ack(v) \/ Leave(v) \/ Redial(v)

JsonSpec == JsonInit /\ [][JsonNext]_jsonVars

-----------------------------------------------------------------------------
(* Properties *)

\* A viewer's line is only ever left unfinished together with a count of stalls
\* against it, which nothing but a whole line or the end of the connection
\* takes back; one that keeps up always has whole lines, and the count is of
\* the connection's own misses, never of those of the one that had its slot
\* before (feed_json.c:226-275).
LinesWhole ==
  \A s \in JsonSlot : json_cli[s] # NoViewer =>
    /\ json_stall[s] = misses[json_cli[s]]
    /\ midline[json_cli[s]] /\ ~ (json_at = "send" /\ json_i = s) => json_stall[s] > 0
=============================================================================
