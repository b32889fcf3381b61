---------------------------- MODULE Feeds_proofs ----------------------------
(***************************************************************************)
(* Proofs about Feeds, for every number of clients, peers and slots: the   *)
(* socket task of a line feed (FeedServer), the JSON feed (JsonFeed), and  *)
(* with the proofs about the ring (FeedRing_proofs) the three together.    *)
(*                                                                         *)
(* The argument for both tasks: a slot and a connection belong together.   *)
(* Nobody has two slots, who has one is connected, and in the line feed    *)
(* who is connected has one (SlotsMatchLinks).  What a slot counts against *)
(* a client was counted since that client has it (StallsAreFull,           *)
(* LinesWhole), because every way out of a slot clears it.                 *)
(***************************************************************************)
EXTENDS Feeds, FeedRing_proofs, FiniteSetTheorems, WellFoundedInduction

HIDE Sizes DEF Cursor

-----------------------------------------------------------------------------
(* Free slots.                                                             *)

(* A set of numbers has a smallest.                                        *)
LEMMA Smallest ==
  ASSUME NEW S, S \subseteq Nat, S # {}
  PROVE  \E x \in S : \A y \in S : x <= y
<1> DEFINE T == {1 .. x : x \in S}
<1>1. IsWellFoundedOn(StrictSubsetOrdering(Nat), FiniteSubsetsOf(Nat))
  BY FS_StrictSubsetOrderingWellFounded
<1>2. T \subseteq FiniteSubsetsOf(Nat) /\ T # {}
  <2>1. ASSUME NEW x \in S PROVE 1 .. x \in FiniteSubsetsOf(Nat)
    <3>1. IsFiniteSet(1 .. x)
      BY FS_Interval
    <3> QED BY <3>1 DEF FiniteSubsetsOf
  <2> QED BY <2>1
<1>3. PICK u \in T : \A w \in T : <<w, u>> \notin StrictSubsetOrdering(Nat)
  <2> HIDE DEF T
  <2> QED BY <1>1, <1>2, WFMin
<1>4. PICK x \in S : u = 1 .. x
  BY <1>3
<1>5. ASSUME NEW y \in S, y < x PROVE FALSE
  <2>1. <<1 .. y, 1 .. x>> \notin StrictSubsetOrdering(Nat)
    BY <1>3, <1>4
  <2>2. 1 .. y \in SUBSET Nat /\ 1 .. x \in SUBSET Nat /\ 1 .. y \subseteq 1 .. x
    BY <1>5
  <2>3. x \in 1 .. x /\ x \notin 1 .. y
    BY <1>5
  <2> QED BY <2>1, <2>2, <2>3 DEF StrictSubsetOrdering
<1> QED BY <1>5

(* The first free slot is one.                                             *)
LEMMA MinIsIn ==
  ASSUME NEW S, S \subseteq Nat, S # {}
  PROVE  Min(S) \in S
  BY Smallest DEF Min

-----------------------------------------------------------------------------
(* The socket task of a line feed.                                         *)

ServerTypeOK ==
  /\ at \in {"tick", "accept", "poll", "drain", "send"} /\ idx \in ClientSlot
  /\ cli \in [ClientSlot -> Peers \cup {NoPeer}] /\ stall \in [ClientSlot -> 0 .. StallLimit]
  /\ link \in [Peers -> {"none", "pending", "up", "gone", "shut"}]
  /\ full \in [Peers -> 0 .. StallLimit + 1]

(* Nobody has two slots; who has one is connected, and conversely.         *)
SlotsMatchLinks ==
  /\ \A s \in ClientSlot : cli[s] # NoPeer => link[cli[s]] \in {"up", "gone"}
  /\ \A r, s \in ClientSlot : cli[r] = cli[s] /\ cli[s] # NoPeer => r = s
  /\ \A p \in Peers : link[p] \in {"up", "gone"} => \E s \in ClientSlot : cli[s] = p

Counted == nclients = Cardinality(ClientSlot \ Unused)

(* A stall is one of the connection's own full ticks.                      *)
StallsAreFull == \A s \in ClientSlot : cli[s] # NoPeer => stall[s] <= full[cli[s]]

ServerInv == ServerTypeOK /\ SlotsMatchLinks /\ Counted /\ StallsAreFull

(* The same for the slots of the JSON feed, where the count against a      *)
(* viewer is exactly that of the snapshots it missed.                      *)
JsonTypeOK ==
  /\ json_at \in {"listen", "accept", "poll", "census", "export", "send"} /\ json_i \in JsonSlot
  /\ json_cli \in [JsonSlot -> Viewers \cup {NoViewer}]
  /\ json_stall \in [JsonSlot -> 0 .. JsonStallLimit]
  /\ conn \in [Viewers -> {"none", "queued", "up", "gone", "shut"}]
  /\ midline \in [Viewers -> BOOLEAN] /\ misses \in [Viewers -> Nat]

SlotsHaveViewers ==
  /\ \A s \in JsonSlot : json_cli[s] # NoViewer => conn[json_cli[s]] \in {"up", "gone"}
  /\ \A r, s \in JsonSlot : json_cli[r] = json_cli[s] /\ json_cli[s] # NoViewer => r = s

(* Who is not connected has nothing from an earlier connection.            *)
NothingLeft == \A v \in Viewers : conn[v] \notin {"up", "gone"} => ~midline[v] /\ misses[v] = 0

JsonInv == JsonTypeOK /\ SlotsHaveViewers /\ NothingLeft /\ LinesWhole

(* The slots are finitely many, however they are divided.                  *)
LEMMA SomeSlots == \A S : IsFiniteSet(ClientSlot \ S)
<1>1. 1 \in Int /\ MaxClients \in Int
  BY ServerAssumption
<1>2. IsFiniteSet(ClientSlot)
  BY <1>1, FS_Interval DEF ClientSlot
<1> QED BY <1>2, FS_Difference

(* Nobody is connected at first.                                           *)
LEMMA ServerInitInv == ServerInit => ServerInv
<1> SUFFICES ASSUME ServerInit PROVE ServerInv
  OBVIOUS
<1>1. Unused = ClientSlot
  BY DEF ServerInit, Unused
<1>2. Counted
  <2>1. ClientSlot \ Unused = {}
    BY <1>1
  <2> QED BY <2>1, FS_EmptySet DEF ServerInit, Counted
<1>3. ServerTypeOK /\ SlotsMatchLinks /\ StallsAreFull
  BY ServerAssumption DEF ServerInit, ServerTypeOK, SlotsMatchLinks, StallsAreFull, ClientSlot
<1> QED BY <1>2, <1>3 DEF ServerInv

(* client_close() gives the slot back together with the connection.        *)
LEMMA CloseInv ==
  ASSUME ServerInv, NEW s \in ClientSlot, cli[s] # NoPeer, Close(s),
         full' \in [Peers -> 0 .. StallLimit + 1],
         \A p \in Peers \ {cli[s]} : full'[p] = full[p]
  PROVE  /\ SlotsMatchLinks' /\ Counted' /\ StallsAreFull'
         /\ cli' \in [ClientSlot -> Peers \cup {NoPeer}]
         /\ stall' \in [ClientSlot -> 0 .. StallLimit]
         /\ link' \in [Peers -> {"none", "pending", "up", "gone", "shut"}]
<1>0. ServerTypeOK /\ SlotsMatchLinks /\ Counted /\ StallsAreFull
  BY DEF ServerInv
<1>1. /\ cli' = [cli EXCEPT ![s] = NoPeer] /\ stall' = [stall EXCEPT ![s] = 0]
      /\ nclients' = nclients - 1 /\ link' = [link EXCEPT ![cli[s]] = "shut"]
      /\ cli[s] \in Peers /\ NoPeer \notin Peers /\ StallLimit \in Nat
  BY <1>0, ServerAssumption DEF Close, ServerTypeOK
<1>2. /\ cli' \in [ClientSlot -> Peers \cup {NoPeer}]
      /\ stall' \in [ClientSlot -> 0 .. StallLimit]
      /\ link' \in [Peers -> {"none", "pending", "up", "gone", "shut"}]
  BY <1>0, <1>1 DEF ServerTypeOK
<1>3. SlotsMatchLinks'
  BY <1>0, <1>1, <1>2 DEF SlotsMatchLinks, ServerTypeOK
<1>4. Counted'
  <2>1. ClientSlot \ Unused' = (ClientSlot \ Unused) \ {s} /\ s \in ClientSlot \ Unused
    BY <1>0, <1>1 DEF Unused, ServerTypeOK
  <2>2. IsFiniteSet(ClientSlot \ Unused)
    BY SomeSlots
  <2>3. Cardinality((ClientSlot \ Unused) \ {s}) = Cardinality(ClientSlot \ Unused) - 1
    BY <2>1, <2>2, FS_RemoveElement
  <2>4. Cardinality(ClientSlot \ Unused') = Cardinality(ClientSlot \ Unused) - 1
    BY <2>1, <2>3
  <2> QED BY <1>0, <1>1, <2>4 DEF Counted, ClientSlot
<1>5. StallsAreFull'
  BY <1>0, <1>1, <1>2 DEF StallsAreFull, SlotsMatchLinks, ServerTypeOK
<1> QED BY <1>2, <1>3, <1>4, <1>5

(* accept() fills the first free slot, or turns the peer away.             *)
LEMMA AcceptInv == ServerInv /\ (\E p \in Peers : Accept(p)) => ServerInv'
<1> SUFFICES ASSUME ServerInv, NEW p \in Peers, Accept(p) PROVE ServerInv'
  OBVIOUS
<1>0. ServerTypeOK /\ SlotsMatchLinks /\ Counted /\ StallsAreFull /\ ServerAssumption
  BY ServerAssumption DEF ServerInv
<1>1. /\ link[p] = "pending" /\ at' = "poll" /\ idx' = 1 /\ 1 \in ClientSlot /\ p # NoPeer
      /\ \A s \in ClientSlot : cli[s] # p
  BY <1>0 DEF Accept, ClientSlot, SlotsMatchLinks, ServerAssumption
<1>2. CASE Unused = {}
  <2>1. UNCHANGED <<cli, stall, nclients, full>> /\ link' = [link EXCEPT ![p] = "shut"]
    BY <1>2 DEF Accept, cliVars
  <2>2. SlotsMatchLinks' /\ StallsAreFull' /\ ServerTypeOK'
    BY <1>0, <1>1, <2>1 DEF SlotsMatchLinks, StallsAreFull, ServerTypeOK
  <2>3. Counted'
    BY <1>0, <2>1 DEF Counted, Unused
  <2> QED BY <2>2, <2>3 DEF ServerInv
<1>3. CASE Unused # {}
  <2> DEFINE s == Min(Unused)
  <2>1. /\ cli' = [cli EXCEPT ![s] = p] /\ stall' = [stall EXCEPT ![s] = 0]
        /\ nclients' = nclients + 1 /\ link' = [link EXCEPT ![p] = "up"]
        /\ full' = [full EXCEPT ![p] = 0]
    BY <1>3 DEF Accept
  <2>2. s \in Unused
    BY <1>3, MinIsIn DEF Unused, ClientSlot
  <2>3. s \in ClientSlot /\ cli[s] = NoPeer
    BY <2>2 DEF Unused
  <2> HIDE DEF s
  <2>4. ServerTypeOK'
    BY <1>0, <1>1, <2>1, <2>3 DEF ServerTypeOK, ServerAssumption
  <2>5. SlotsMatchLinks'
    BY <1>0, <1>1, <2>1, <2>3 DEF SlotsMatchLinks, ServerTypeOK
  <2>6. StallsAreFull'
    BY <1>0, <1>1, <2>1, <2>3 DEF StallsAreFull, ServerTypeOK
  <2>7. Counted'
    <3>1. ClientSlot \ Unused' = (ClientSlot \ Unused) \cup {s} /\ s \notin ClientSlot \ Unused
      BY <1>0, <1>1, <2>1, <2>3 DEF Unused, ServerTypeOK
    <3>2. Cardinality((ClientSlot \ Unused) \cup {s}) = Cardinality(ClientSlot \ Unused) + 1
      BY <3>1, SomeSlots, FS_AddElement
    <3>3. Cardinality(ClientSlot \ Unused') = Cardinality(ClientSlot \ Unused) + 1
      BY <3>1, <3>2
    <3> QED BY <1>0, <2>1, <3>3 DEF Counted, ClientSlot
  <2> QED BY <2>4, <2>5, <2>6, <2>7 DEF ServerInv
<1> QED BY <1>2, <1>3

(* The loop index stays within the slots.                                  *)
LEMMA NextSlotType ==
  ASSUME ServerTypeOK, NEW after \in {"tick", "drain"}, NextSlot(after)
  PROVE  idx' \in ClientSlot /\ at' \in {"tick", "accept", "poll", "drain", "send"}
  BY ServerAssumption DEF ServerTypeOK, NextSlot, ClientSlot

(* poll_closed() closes the slot of a peer that is gone.                   *)
LEMMA PollInv == ServerInv /\ PollClosed => ServerInv'
<1> SUFFICES ASSUME ServerInv, PollClosed PROVE ServerInv'
  OBVIOUS
<1>0. ServerTypeOK /\ SlotsMatchLinks /\ Counted /\ StallsAreFull
  BY DEF ServerInv
<1>1. idx' \in ClientSlot /\ at' \in {"tick", "accept", "poll", "drain", "send"} /\ full' = full
  BY <1>0, NextSlotType DEF PollClosed
<1>2. CASE cli[idx] # NoPeer /\ link[cli[idx]] = "gone"
  <2>1. Close(idx) /\ idx \in ClientSlot
    BY <1>0, <1>2 DEF PollClosed, ServerTypeOK
  <2> QED BY <1>0, <1>1, <1>2, <2>1, CloseInv DEF ServerInv, ServerTypeOK
<1>3. CASE ~(cli[idx] # NoPeer /\ link[cli[idx]] = "gone")
  <2>1. UNCHANGED <<cli, stall, nclients, link>>
    BY <1>3 DEF PollClosed, cliVars
  <2> QED BY <1>0, <1>1, <2>1 DEF ServerInv, ServerTypeOK, SlotsMatchLinks, Counted, Unused, StallsAreFull
<1> QED BY <1>2, <1>3

(* What a full tick does to the history of the peer.                       *)
LEMMA BumpedType ==
  ASSUME NEW p \in Peers, full \in [Peers -> 0 .. StallLimit + 1]
  PROVE  /\ Bumped(full, p) \in [Peers -> 0 .. StallLimit + 1]
         /\ \A r \in Peers \ {p} : Bumped(full, p)[r] = full[r]
         /\ Bumped(full, p)[p] = IF full[p] <= StallLimit THEN full[p] + 1 ELSE full[p]
  BY ServerAssumption DEF Bumped

(* broadcast(): a full buffer counts against the client, or closes it.     *)
LEMMA SendFullInv == ServerInv /\ SendFull => ServerInv'
<1> SUFFICES ASSUME ServerInv, SendFull PROVE ServerInv'
  OBVIOUS
<1>0. ServerTypeOK /\ SlotsMatchLinks /\ Counted /\ StallsAreFull
  BY DEF ServerInv
<1>1. idx' \in ClientSlot /\ at' \in {"tick", "accept", "poll", "drain", "send"}
  BY <1>0, NextSlotType DEF SendFull
<1>2. /\ idx \in ClientSlot /\ cli[idx] # NoPeer /\ cli[idx] \in Peers
      /\ full' = Bumped(full, cli[idx]) /\ stall[idx] \in Nat /\ StallLimit \in Nat
  BY <1>0, ServerAssumption DEF SendFull, ServerTypeOK
<1>3. /\ full' \in [Peers -> 0 .. StallLimit + 1]
      /\ \A p \in Peers \ {cli[idx]} : full'[p] = full[p]
      /\ full'[cli[idx]] = IF full[cli[idx]] <= StallLimit THEN full[cli[idx]] + 1 ELSE full[cli[idx]]
  BY <1>0, <1>2, BumpedType DEF ServerTypeOK
<1>4. CASE stall[idx] + 1 > StallLimit
  <2>1. Close(idx)
    BY <1>4 DEF SendFull
  <2> QED BY <1>1, <1>2, <1>3, <2>1, CloseInv DEF ServerInv, ServerTypeOK
<1>5. CASE ~(stall[idx] + 1 > StallLimit)
  <2>1. stall' = [stall EXCEPT ![idx] = @ + 1] /\ UNCHANGED <<cli, nclients, link>>
    BY <1>5 DEF SendFull
  <2>2. ServerTypeOK'
    BY <1>0, <1>1, <1>2, <1>3, <1>5, <2>1 DEF ServerTypeOK
  <2>3. SlotsMatchLinks' /\ Counted'
    BY <1>0, <2>1 DEF SlotsMatchLinks, Counted, Unused
  <2>4. StallsAreFull'
    <3> SUFFICES ASSUME NEW s \in ClientSlot, cli[s] # NoPeer PROVE stall'[s] <= full'[cli[s]]
      BY <2>1 DEF StallsAreFull
    <3>1. cli[s] \in Peers /\ stall[s] <= full[cli[s]] /\ full[cli[s]] \in Nat /\ stall[s] \in Nat
      BY <1>0 DEF StallsAreFull, ServerTypeOK
    <3>2. CASE s = idx
      BY <1>0, <1>2, <1>3, <1>5, <2>1, <3>1, <3>2 DEF ServerTypeOK
    <3>3. CASE s # idx
      <4>1. cli[s] # cli[idx]
        BY <1>0, <1>2, <3>3 DEF SlotsMatchLinks
      <4> QED BY <1>0, <1>2, <1>3, <2>1, <3>1, <3>3, <4>1 DEF ServerTypeOK
    <3> QED BY <3>2, <3>3
  <2> QED BY <2>2, <2>3, <2>4 DEF ServerInv
<1> QED BY <1>4, <1>5

(* broadcast(): the other outcomes of a send().                            *)
LEMMA SendInv == ServerInv /\ (SendWhole \/ SendPart \/ SendError \/ SkipSlot) => ServerInv'
<1> SUFFICES ASSUME ServerInv, SendWhole \/ SendPart \/ SendError \/ SkipSlot PROVE ServerInv'
  OBVIOUS
<1>0. ServerTypeOK /\ SlotsMatchLinks /\ Counted /\ StallsAreFull
  BY DEF ServerInv
<1>1. idx' \in ClientSlot /\ at' \in {"tick", "accept", "poll", "drain", "send"}
  BY <1>0, NextSlotType DEF SendWhole, SendPart, SendError, SkipSlot
<1>2. CASE SendWhole
  <2>1. /\ stall' = [stall EXCEPT ![idx] = 0] /\ full' = [full EXCEPT ![cli[idx]] = 0]
        /\ UNCHANGED <<cli, nclients, link>> /\ idx \in ClientSlot /\ cli[idx] \in Peers
        /\ StallLimit \in Nat
    BY <1>0, <1>2, ServerAssumption DEF SendWhole, ServerTypeOK
  <2>2. ServerTypeOK'
    BY <1>0, <1>1, <2>1 DEF ServerTypeOK
  <2>3. SlotsMatchLinks' /\ Counted'
    BY <1>0, <2>1 DEF SlotsMatchLinks, Counted, Unused
  <2>4. StallsAreFull'
    <3> SUFFICES ASSUME NEW s \in ClientSlot, cli[s] # NoPeer PROVE stall'[s] <= full'[cli[s]]
      BY <2>1 DEF StallsAreFull
    <3>1. CASE s = idx
      BY <1>0, <2>1, <3>1 DEF ServerTypeOK
    <3>2. CASE s # idx
      <4>1. cli[s] # cli[idx] /\ cli[s] \in Peers
        BY <1>0, <2>1, <3>2 DEF SlotsMatchLinks, ServerTypeOK
      <4> QED BY <1>0, <2>1, <3>2, <4>1 DEF StallsAreFull, ServerTypeOK
    <3> QED BY <3>1, <3>2
  <2> QED BY <2>2, <2>3, <2>4 DEF ServerInv
<1>3. CASE SendPart \/ SkipSlot
  <2>1. UNCHANGED <<cli, stall, nclients, link, full>>
    BY <1>3 DEF SendPart, SkipSlot, cliVars
  <2> QED BY <1>0, <1>1, <2>1 DEF ServerInv, ServerTypeOK, SlotsMatchLinks, Counted, Unused, StallsAreFull
<1>4. CASE SendError
  <2>1. Close(idx) /\ idx \in ClientSlot /\ cli[idx] # NoPeer /\ full' = full
    BY <1>0, <1>4 DEF SendError, ServerTypeOK
  <2> QED BY <1>0, <1>1, <2>1, CloseInv DEF ServerInv, ServerTypeOK
<1> QED BY <1>2, <1>3, <1>4

(* What the network, the decoder and the rest of the task do leaves the    *)
(* slots alone, and opens or shuts no connection.                          *)
LEMMA OtherInv ==
  ASSUME ServerInv, Network \/ Decoder \/ OpenFeed \/ NobodyWaits \/ Drain \/ UNCHANGED serverVars
  PROVE  ServerInv'
<1>0. ServerTypeOK /\ SlotsMatchLinks /\ Counted /\ StallsAreFull
  BY DEF ServerInv
<1>1. UNCHANGED <<cli, stall, nclients, full>>
  BY DEF Network, Connect, HangUp, Forget, Decoder, PushLine, LinePushed, OpenFeed, NobodyWaits, Drain,
         serverVars, cliVars
<1>2. Counted' /\ StallsAreFull'
  BY <1>0, <1>1 DEF Counted, Unused, StallsAreFull
<1>3. at' \in {"tick", "accept", "poll", "drain", "send"} /\ idx' \in ClientSlot
  <2>1. CASE OpenFeed \/ NobodyWaits
    <3>1. at' \in {"accept", "poll"} /\ idx' = 1
      BY <2>1, Zenon DEF OpenFeed, NobodyWaits
    <3> QED BY <3>1, ServerAssumption DEF ClientSlot
  <2>2. CASE Drain
    <3>1. at' \in {"send", "tick"} /\ idx' = idx
      BY <2>2 DEF Drain
    <3> QED BY <1>0, <3>1 DEF ServerTypeOK
  <2>3. CASE Network \/ Decoder \/ UNCHANGED serverVars
    <3>1. UNCHANGED taskVars
      BY <2>3 DEF Network, Connect, HangUp, Forget, Decoder, PushLine, LinePushed, serverVars
    <3> QED BY <1>0, <3>1 DEF ServerTypeOK, taskVars
  <2> QED BY <2>1, <2>2, <2>3
<1>4. CASE Network
  <2>1. PICK p \in Peers : Connect(p) \/ HangUp(p) \/ Forget(p)
    BY <1>4 DEF Network
  <2>2. \/ link[p] \in {"none", "shut"} /\ link' = [link EXCEPT ![p] = "pending"]
        \/ link[p] = "up" /\ link' = [link EXCEPT ![p] = "gone"]
        \/ link[p] \in {"none", "shut"} /\ link' = [link EXCEPT ![p] = "none"]
    BY <2>1 DEF Connect, HangUp, Forget
  <2> QED BY <1>0, <1>1, <1>2, <1>3, <2>2 DEF ServerInv, ServerTypeOK, SlotsMatchLinks
<1>5. CASE Decoder \/ OpenFeed \/ NobodyWaits \/ Drain \/ UNCHANGED serverVars
  <2>1. UNCHANGED link
    BY <1>5 DEF Decoder, PushLine, LinePushed, OpenFeed, NobodyWaits, Drain, serverVars
  <2> QED BY <1>0, <1>1, <1>2, <1>3, <2>1 DEF ServerInv, ServerTypeOK, SlotsMatchLinks
<1> QED BY <1>4, <1>5

(* Every step keeps it.                                                    *)
LEMMA ServerStepInv == ServerInv /\ [ServerNext]_serverVars => ServerInv'
  BY AcceptInv, PollInv, SendFullInv, SendInv, OtherInv DEF ServerNext, Feed

(* The server's invariant holds throughout.                                *)
THEOREM ServerInvariant == ServerSpec => []ServerInv
  BY ServerInitInv, ServerStepInv, PTL DEF ServerSpec

(* s_nclients, by which the decoder decides whether anybody wants its      *)
(* lines, is the number of open connections, and each of those has exactly *)
(* one slot of s_cli.                                                      *)
THEOREM ClientsHaveSlots == ServerSpec => []EveryClientHasASlot
<1>1. ASSUME ServerInv PROVE EveryClientHasASlot
  <2>0. ServerTypeOK /\ SlotsMatchLinks /\ Counted
    BY <1>1 DEF ServerInv
  <2>1. ASSUME NEW p \in Peers
        PROVE  Cardinality({s \in ClientSlot : cli[s] = p}) = IF link[p] \in {"up", "gone"} THEN 1 ELSE 0
    <3>1. CASE link[p] \in {"up", "gone"}
      <4>1. PICK s \in ClientSlot : cli[s] = p
        BY <2>0, <3>1 DEF SlotsMatchLinks
      <4>2. {r \in ClientSlot : cli[r] = p} = {s}
        BY <2>0, <4>1, ServerAssumption DEF SlotsMatchLinks
      <4> QED BY <3>1, <4>2, FS_Singleton
    <3>2. CASE link[p] \notin {"up", "gone"}
      <4>1. {r \in ClientSlot : cli[r] = p} = {}
        BY <2>0, <3>2, ServerAssumption DEF SlotsMatchLinks
      <4> QED BY <3>2, <4>1, FS_EmptySet
    <3> QED BY <3>1, <3>2
  <2> QED BY <2>0, <2>1 DEF EveryClientHasASlot, Counted
<1> QED BY <1>1, ServerInvariant, PTL

(* feed_avr.c closes a client that keeps up under no circumstances, and    *)
(* any other only after more than StallLimit ticks with a full buffer.     *)
THEOREM GivenUpOnlyLate == ServerSpec => GivenUpLate
<1> DEFINE Late == \A p \in Peers : link[p] = "up" /\ link'[p] = "shut" => p \notin Readers /\ full'[p] > StallLimit
<1>1. ServerInv /\ [ServerNext]_serverVars => [Late]_serverVars
  <2> SUFFICES ASSUME ServerInv, ServerNext, NEW p \in Peers, link[p] = "up", link'[p] = "shut"
               PROVE  p \notin Readers /\ full'[p] > StallLimit
    OBVIOUS
  <2>0. ServerTypeOK /\ SlotsMatchLinks /\ StallsAreFull
    BY DEF ServerInv
  <2>1. CASE SendFull
    <3>1. /\ idx \in ClientSlot /\ cli[idx] # NoPeer /\ cli[idx] \in Peers
          /\ full' = Bumped(full, cli[idx]) /\ stall[idx] \in Nat /\ StallLimit \in Nat
          /\ "full" \in Outcome(cli[idx]) /\ full[cli[idx]] \in Nat /\ stall[idx] <= full[cli[idx]]
      BY <2>0, <2>1, ServerAssumption DEF SendFull, ServerTypeOK, StallsAreFull
    <3>2. link' # link
      OBVIOUS
    <3>3. stall[idx] + 1 > StallLimit /\ Close(idx)
      BY <2>1, <3>2 DEF SendFull
    <3>4. p = cli[idx]
      BY <2>0, <3>1, <3>3 DEF Close, ServerTypeOK
    <3>5. full'[p] > StallLimit
      <4>1. full'[p] = IF full[p] <= StallLimit THEN full[p] + 1 ELSE full[p]
        BY <2>0, <3>1, <3>4, BumpedType DEF ServerTypeOK
      <4>2. full[p] >= StallLimit /\ full[p] \in Nat /\ StallLimit \in Nat
        BY <3>1, <3>3, <3>4
      <4> QED BY <4>1, <4>2
    <3>6. p \notin Readers
      <4>1. "full" \in Outcome(p) /\ link[p] # "gone"
        BY <3>1, <3>4
      <4>2. p \in Readers => Outcome(p) = {"whole"}
        BY <4>1, ServerAssumption DEF Outcome
      <4> QED BY <4>1, <4>2
    <3> QED BY <3>5, <3>6
  <2>2. CASE PollClosed \/ SendError
    <3>1. link' # link
      OBVIOUS
    <3>2. Close(idx) /\ idx \in ClientSlot /\ cli[idx] # NoPeer /\ link[cli[idx]] = "gone"
      <4>1. CASE PollClosed
        BY <2>0, <3>1, <4>1 DEF PollClosed, ServerTypeOK
      <4>2. CASE SendError
        BY <2>0, <4>2 DEF SendError, Outcome, ServerTypeOK
      <4> QED BY <2>2, <4>1, <4>2
    <3>3. link' = [link EXCEPT ![cli[idx]] = "shut"] /\ cli[idx] # p
      BY <3>2 DEF Close
    <3> QED BY <2>0, <3>3 DEF ServerTypeOK
  <2>3. CASE \E r \in Peers : Accept(r)
    <3>1. PICK r \in Peers : Accept(r)
      BY <2>3
    <3>2. link[r] = "pending" /\ (link' = [link EXCEPT ![r] = "shut"] \/ link' = [link EXCEPT ![r] = "up"])
      BY <3>1 DEF Accept
    <3> QED BY <2>0, <3>2 DEF ServerTypeOK
  <2>4. CASE Network
    <3>1. PICK r \in Peers : Connect(r) \/ HangUp(r) \/ Forget(r)
      BY <2>4 DEF Network
    <3>2. \E x \in {"pending", "gone", "none"} : link' = [link EXCEPT ![r] = x]
      BY <3>1 DEF Connect, HangUp, Forget
    <3> QED BY <2>0, <3>2 DEF ServerTypeOK
  <2>5. CASE Decoder \/ OpenFeed \/ NobodyWaits \/ Drain \/ SkipSlot \/ SendWhole \/ SendPart
    <3>1. UNCHANGED link
      BY <2>5 DEF Decoder, PushLine, LinePushed, OpenFeed, NobodyWaits, Drain, SkipSlot, SendWhole, SendPart
    <3> QED BY <3>1
  <2> QED BY <2>1, <2>2, <2>3, <2>4, <2>5 DEF ServerNext, Feed
<1> QED BY <1>1, ServerInvariant, PTL DEF ServerSpec, GivenUpLate

-----------------------------------------------------------------------------
(* The JSON feed.                                                          *)

(* Nobody is connected at first.                                           *)
LEMMA JsonInitInv == JsonInit => JsonInv
<1> SUFFICES ASSUME JsonInit PROVE JsonInv
  OBVIOUS
<1>1. 1 \in JsonSlot
  BY JsonAssumption DEF JsonSlot
<1> QED BY <1>1, JsonAssumption
        DEF JsonInit, JsonInv, JsonTypeOK, SlotsHaveViewers, NothingLeft, LinesWhole

(* client_close() takes everything back that a connection has left.  The   *)
(* slots that stay keep what they have.                                    *)
LEMMA LetGoInv ==
  ASSUME JsonInv, NEW S \in SUBSET JsonSlot, LetGo(S), \A s \in S : json_cli[s] # NoViewer,
         json_at' \in {"listen", "accept", "poll", "census", "export", "send"}, json_i' \in JsonSlot,
         json_at = "send" => json_i \in S
  PROVE  JsonInv'
<1>0. JsonTypeOK /\ SlotsHaveViewers /\ NothingLeft /\ LinesWhole
  BY DEF JsonInv
<1> DEFINE who == {json_cli[s] : s \in S}
<1>1. /\ json_cli' = [s \in JsonSlot |-> IF s \in S THEN NoViewer ELSE json_cli[s]]
      /\ json_stall' = [s \in JsonSlot |-> IF s \in S THEN 0 ELSE json_stall[s]]
      /\ conn' = [v \in Viewers |-> IF v \in who THEN "shut" ELSE conn[v]]
      /\ midline' = [v \in Viewers |-> midline[v] /\ v \notin who]
      /\ misses' = [v \in Viewers |-> IF v \in who THEN 0 ELSE misses[v]]
  BY DEF LetGo
<1>2. JsonTypeOK'
  BY <1>0, <1>1, JsonAssumption DEF JsonTypeOK
<1>3. ASSUME NEW s \in JsonSlot, json_cli'[s] # NoViewer
      PROVE  /\ s \notin S /\ json_cli'[s] = json_cli[s] /\ json_cli[s] \in Viewers /\ json_cli[s] \notin who
             /\ json_stall'[s] = json_stall[s] /\ conn'[json_cli[s]] = conn[json_cli[s]]
             /\ midline'[json_cli[s]] = midline[json_cli[s]] /\ misses'[json_cli[s]] = misses[json_cli[s]]
  <2>1. s \notin S /\ json_cli'[s] = json_cli[s] /\ json_cli[s] \in Viewers
    BY <1>0, <1>1, <1>3 DEF JsonTypeOK
  <2>2. json_cli[s] \notin who
    BY <1>0, <1>3, <2>1 DEF SlotsHaveViewers
  <2>3. midline[json_cli[s]] \in BOOLEAN
    BY <1>0, <2>1 DEF JsonTypeOK
  <2> HIDE DEF who
  <2> QED BY <1>1, <2>1, <2>2, <2>3
<1>4. SlotsHaveViewers'
  <2>1. ASSUME NEW r \in JsonSlot, NEW s \in JsonSlot, json_cli'[r] = json_cli'[s], json_cli'[s] # NoViewer
        PROVE  r = s
    BY <1>0, <1>3, <2>1 DEF SlotsHaveViewers
  <2> QED BY <1>0, <1>3, <2>1 DEF SlotsHaveViewers
<1>5. NothingLeft'
  <2> HIDE DEF who
  <2> QED BY <1>0, <1>1 DEF NothingLeft, JsonTypeOK
<1>6. LinesWhole'
  BY <1>0, <1>3 DEF LinesWhole
<1> QED BY <1>2, <1>4, <1>5, <1>6 DEF JsonInv

(* Going on to the next slot.                                              *)
LEMMA NextClientType ==
  ASSUME JsonTypeOK, NextClient
  PROVE  json_i' \in JsonSlot /\ json_at' \in {"listen", "accept", "poll", "census", "export", "send"}
  BY JsonAssumption DEF JsonTypeOK, NextClient, JsonSlot

(* accept_new() clears the count of the slot that it hands out.            *)
LEMMA AcceptNewInv == JsonInv /\ (\E v \in Viewers : AcceptNew(v)) => JsonInv'
<1> SUFFICES ASSUME JsonInv, NEW v \in Viewers, AcceptNew(v) PROVE JsonInv'
  OBVIOUS
<1>0. JsonTypeOK /\ SlotsHaveViewers /\ NothingLeft /\ LinesWhole
  BY DEF JsonInv
<1>1. /\ conn[v] = "queued" /\ UNCHANGED <<json_at, json_i, midline, misses>> /\ v # NoViewer
      /\ \A s \in JsonSlot : json_cli[s] # v
      /\ midline[v] = FALSE /\ misses[v] = 0 /\ json_at = "accept"
  BY <1>0, JsonAssumption DEF AcceptNew, SlotsHaveViewers, NothingLeft, JsonTypeOK
<1> DEFINE free == {s \in JsonSlot : json_cli[s] = NoViewer}
<1>2. CASE free = {}
  <2>1. conn' = [conn EXCEPT ![v] = "shut"] /\ UNCHANGED <<json_cli, json_stall>>
    BY <1>2 DEF AcceptNew, clients
  <2> HIDE DEF free
  <2> QED BY <1>0, <1>1, <2>1 DEF JsonInv, JsonTypeOK, SlotsHaveViewers, NothingLeft, LinesWhole
<1>3. CASE free # {}
  <2> DEFINE s == CHOOSE s \in free : \A r \in free : s <= r
  <2>1. /\ json_cli' = [json_cli EXCEPT ![s] = v] /\ json_stall' = [json_stall EXCEPT ![s] = 0]
        /\ conn' = [conn EXCEPT ![v] = "up"]
    BY <1>3 DEF AcceptNew
  <2>2. \E q \in free : \A r \in free : q <= r
    <3>1. free \subseteq Nat
      BY DEF JsonSlot
    <3> HIDE DEF free
    <3> QED BY <1>3, <3>1, Smallest
  <2>3. s \in free
    <3> HIDE DEF free
    <3> QED BY <2>2
  <2>4. s \in JsonSlot /\ json_cli[s] = NoViewer
    BY <2>3
  <2> HIDE DEF s, free
  <2>5. JsonTypeOK'
    BY <1>0, <1>1, <2>1, <2>4, JsonAssumption DEF JsonTypeOK
  <2>6. SlotsHaveViewers'
    BY <1>0, <1>1, <2>1, <2>4 DEF SlotsHaveViewers, JsonTypeOK
  <2>7. NothingLeft' /\ LinesWhole'
    BY <1>0, <1>1, <2>1, <2>4 DEF NothingLeft, LinesWhole, JsonTypeOK
  <2> QED BY <2>5, <2>6, <2>7 DEF JsonInv
<1> QED BY <1>2, <1>3

(* send_frame(): a part of the line, or the rest of it.                    *)
LEMMA SendSomeInv == JsonInv /\ SendSome => JsonInv'
<1> SUFFICES ASSUME JsonInv, SendSome PROVE JsonInv'
  OBVIOUS
<1>0. JsonTypeOK /\ SlotsHaveViewers /\ NothingLeft /\ LinesWhole
  BY DEF JsonInv
<1> DEFINE room  == SendBuf - unacked[Viewer]
           k     == IF room < Parts - off THEN room ELSE Parts - off
           whole == off + k = Parts
<1>1. /\ json_at = "send" /\ json_i \in JsonSlot /\ Viewer \in Viewers /\ Viewer = json_cli[json_i]
      /\ conn[Viewer] = "up" /\ Viewer # NoViewer /\ UNCHANGED <<json_cli, conn>>
      /\ midline' = [midline EXCEPT ![Viewer] = ~ whole]
      /\ misses'  = [misses EXCEPT ![Viewer] = IF whole THEN 0 ELSE @]
      /\ json_stall' = [json_stall EXCEPT ![json_i] = Took(whole)]
      /\ IF whole THEN NextClient ELSE UNCHANGED <<json_at, json_i>>
  BY <1>0, JsonAssumption DEF SendSome, Sending, Viewer, JsonTypeOK
<1> HIDE DEF whole
<1>2. /\ json_at' \in {"listen", "accept", "poll", "census", "export", "send"} /\ json_i' \in JsonSlot
      /\ whole \/ UNCHANGED <<json_at, json_i>>
  BY <1>0, <1>1, NextClientType DEF JsonTypeOK
<1>3. JsonTypeOK'
  BY <1>0, <1>1, <1>2, JsonAssumption DEF JsonTypeOK, Took
<1>4. SlotsHaveViewers' /\ NothingLeft'
  BY <1>0, <1>1 DEF SlotsHaveViewers, NothingLeft, JsonTypeOK
<1>5. LinesWhole'
  <2> SUFFICES ASSUME NEW s \in JsonSlot, json_cli[s] # NoViewer
               PROVE  /\ json_stall'[s] = misses'[json_cli[s]]
                      /\ midline'[json_cli[s]] /\ ~ (json_at' = "send" /\ json_i' = s) => json_stall'[s] > 0
    BY <1>1 DEF LinesWhole
  <2>1. json_cli[s] \in Viewers
    BY <1>0 DEF JsonTypeOK
  <2>2. CASE s = json_i
    <3>1. CASE whole
      BY <1>0, <1>1, <2>1, <2>2, <3>1 DEF JsonTypeOK, Took
    <3>2. CASE ~ whole
      BY <1>0, <1>1, <1>2, <2>1, <2>2, <3>2 DEF JsonTypeOK, Took, LinesWhole
    <3> QED BY <3>1, <3>2
  <2>3. CASE s # json_i
    <3>1. json_cli[s] # Viewer
      BY <1>0, <1>1, <2>3 DEF SlotsHaveViewers
    <3> QED BY <1>0, <1>1, <2>1, <2>3, <3>1 DEF JsonTypeOK, LinesWhole
  <2> QED BY <2>2, <2>3
<1> QED BY <1>3, <1>4, <1>5 DEF JsonInv

(* send_frame(): out of patience; the miss counts, or ends the connection. *)
LEMMA GiveUpInv == JsonInv /\ GiveUp => JsonInv'
<1> SUFFICES ASSUME JsonInv, GiveUp PROVE JsonInv'
  OBVIOUS
<1>0. JsonTypeOK /\ SlotsHaveViewers /\ NothingLeft /\ LinesWhole
  BY DEF JsonInv
<1>1. /\ json_at = "send" /\ json_i \in JsonSlot /\ Viewer \in Viewers /\ Viewer = json_cli[json_i]
      /\ conn[Viewer] = "up" /\ Viewer # NoViewer /\ json_stall[json_i] \in Nat /\ JsonStallLimit \in Nat
      /\ json_stall[json_i] = misses[Viewer]
      /\ json_at' \in {"listen", "accept", "poll", "census", "export", "send"} /\ json_i' \in JsonSlot
  BY <1>0, JsonAssumption, NextClientType DEF GiveUp, Sending, Viewer, JsonTypeOK, LinesWhole
<1>2. CASE Stalled > JsonStallLimit
  <2>1. LetGo({json_i})
    BY <1>2 DEF GiveUp
  <2> QED BY <1>0, <1>1, <2>1, LetGoInv
<1>3. CASE ~(Stalled > JsonStallLimit)
  <2>1. /\ json_stall' = [json_stall EXCEPT ![json_i] = json_stall[json_i] + 1]
        /\ misses' = [misses EXCEPT ![Viewer] = IF @ > JsonStallLimit THEN @ ELSE @ + 1]
        /\ UNCHANGED <<json_cli, conn, midline>>
    BY <1>3 DEF GiveUp, Stalled
  <2>2. json_stall[json_i] + 1 <= JsonStallLimit
    BY <1>1, <1>3 DEF Stalled
  <2>3. misses' = [misses EXCEPT ![Viewer] = json_stall[json_i] + 1]
    <3>1. ~(misses[Viewer] > JsonStallLimit) /\ misses[Viewer] = json_stall[json_i]
      BY <1>1, <2>2
    <3> QED BY <2>1, <3>1, Zenon
  <2>4. JsonTypeOK'
    BY <1>0, <1>1, <2>1, <2>2, <2>3 DEF JsonTypeOK
  <2>5. SlotsHaveViewers' /\ NothingLeft'
    BY <1>0, <1>1, <2>1, <2>3 DEF SlotsHaveViewers, NothingLeft, JsonTypeOK
  <2>6. LinesWhole'
    <3> SUFFICES ASSUME NEW s \in JsonSlot, json_cli[s] # NoViewer
                 PROVE  /\ json_stall'[s] = misses'[json_cli[s]]
                        /\ midline'[json_cli[s]] /\ ~ (json_at' = "send" /\ json_i' = s) => json_stall'[s] > 0
      BY <2>1 DEF LinesWhole
    <3>1. json_cli[s] \in Viewers
      BY <1>0 DEF JsonTypeOK
    <3>2. CASE s = json_i
      BY <1>0, <1>1, <2>1, <2>3, <3>1, <3>2 DEF JsonTypeOK
    <3>3. CASE s # json_i
      <4>1. json_cli[s] # Viewer
        BY <1>0, <1>1, <3>3 DEF SlotsHaveViewers
      <4> QED BY <1>0, <1>1, <2>1, <2>3, <3>1, <3>3, <4>1 DEF JsonTypeOK, LinesWhole
    <3> QED BY <3>2, <3>3
  <2> QED BY <2>4, <2>5, <2>6 DEF JsonInv
<1> QED BY <1>2, <1>3

(* poll_closed(), and a send() that fails: the connection is let go.       *)
LEMMA GoneInv == JsonInv /\ (JsonPollClosed \/ SendFails) => JsonInv'
<1> SUFFICES ASSUME JsonInv, JsonPollClosed \/ SendFails PROVE JsonInv'
  OBVIOUS
<1>0. JsonTypeOK
  BY DEF JsonInv
<1>1. CASE JsonPollClosed
  <2> DEFINE S == {s \in JsonSlot : json_cli[s] # NoViewer /\ conn[json_cli[s]] = "gone"}
  <2>1. /\ LetGo(S) /\ json_at = "poll" /\ json_at' = "census" /\ json_i' = json_i
    BY <1>1 DEF JsonPollClosed
  <2>2. S \in SUBSET JsonSlot /\ \A s \in S : json_cli[s] # NoViewer
    OBVIOUS
  <2>3. json_i' \in JsonSlot
    BY <1>0, <2>1 DEF JsonTypeOK
  <2> HIDE DEF S
  <2> QED BY <2>1, <2>2, <2>3, LetGoInv
<1>2. CASE SendFails
  <2>1. /\ LetGo({json_i}) /\ json_i \in JsonSlot /\ json_cli[json_i] # NoViewer
        /\ json_at' \in {"listen", "accept", "poll", "census", "export", "send"} /\ json_i' \in JsonSlot
    BY <1>0, <1>2, NextClientType DEF SendFails, Sending, Viewer, JsonTypeOK
  <2> QED BY <2>1, LetGoInv
<1> QED BY <1>1, <1>2

(* The rest of the task, and the viewers: no line goes out and no slot     *)
(* changes hands.                                                          *)
LEMMA QuietInv ==
  ASSUME JsonInv,
         \/ OpenListener \/ QueueEmpty \/ CensusCheck \/ (\E fits \in BOOLEAN : Export(fits))
         \/ NobodyHere \/ WaitWindow \/ UNCHANGED jsonVars
         \/ \E v \in Viewers : Dial(v) \/ Ack(v) \/ Leave(v) \/ Redial(v)
  PROVE  JsonInv'
<1>0. JsonTypeOK /\ SlotsHaveViewers /\ NothingLeft /\ LinesWhole
  BY DEF JsonInv
<1>1. UNCHANGED <<json_cli, json_stall, midline, misses>>
  BY DEF OpenListener, QueueEmpty, CensusCheck, Export, NobodyHere, WaitWindow, jsonVars, Dial, Ack, Leave, Redial,
         clients, wire
<1>2. CASE \E v \in Viewers : Dial(v) \/ Ack(v) \/ Leave(v) \/ Redial(v)
  <2>1. PICK v \in Viewers : Dial(v) \/ Ack(v) \/ Leave(v) \/ Redial(v)
    BY <1>2
  <2>2. \/ conn[v] = "none" /\ conn' = [conn EXCEPT ![v] = "queued"]
        \/ conn' = conn
        \/ conn[v] = "up" /\ conn' = [conn EXCEPT ![v] = "gone"]
        \/ conn[v] = "shut" /\ conn' = [conn EXCEPT ![v] = "none"]
    BY <2>1 DEF Dial, Ack, Leave, Redial
  <2>3. UNCHANGED <<json_at, json_i>>
    BY <2>1 DEF Dial, Ack, Leave, Redial, turn
  <2> QED BY <1>0, <1>1, <2>2, <2>3 DEF JsonInv, JsonTypeOK, SlotsHaveViewers, NothingLeft, LinesWhole
<1>3. CASE OpenListener \/ QueueEmpty \/ CensusCheck \/ WaitWindow \/ UNCHANGED jsonVars
  <2>1. UNCHANGED conn
    BY <1>3 DEF OpenListener, QueueEmpty, CensusCheck, WaitWindow, jsonVars, wire
  <2>2. /\ json_i' = json_i /\ json_at' \in {"listen", "accept", "poll", "census", "export", "send"}
        /\ json_at = "send" => json_at' = "send"
    <3>1. json_at \in {"listen", "accept", "poll", "census", "export", "send"}
      BY <1>0 DEF JsonTypeOK
    <3> QED BY <1>3, <3>1 DEF OpenListener, QueueEmpty, CensusCheck, WaitWindow, jsonVars, turn
  <2> QED BY <1>0, <1>1, <2>1, <2>2 DEF JsonInv, JsonTypeOK, SlotsHaveViewers, NothingLeft, LinesWhole
<1>4. CASE (\E fits \in BOOLEAN : Export(fits)) \/ NobodyHere
  <2>1. UNCHANGED conn
    BY <1>4 DEF Export, NobodyHere, wire
  <2>2. json_i' \in JsonSlot /\ json_at' \in {"listen", "accept", "poll", "census", "export", "send"}
    <3>1. CASE \E fits \in BOOLEAN : Export(fits)
      BY <3>1, JsonAssumption DEF Export, JsonSlot
    <3>2. CASE NobodyHere
      BY <1>0, <3>2, NextClientType DEF NobodyHere
    <3> QED BY <1>4, <3>1, <3>2
  <2>3. json_at = "send" => json_cli[json_i] = NoViewer
    BY <1>4 DEF Export, NobodyHere, Viewer
  <2> QED BY <1>0, <1>1, <2>1, <2>2, <2>3 DEF JsonInv, JsonTypeOK, SlotsHaveViewers, NothingLeft, LinesWhole
<1> QED BY <1>2, <1>3, <1>4

(* Every step keeps it.                                                    *)
LEMMA JsonStepInv == JsonInv /\ [JsonNext]_jsonVars => JsonInv'
  BY LetGoInv, AcceptNewInv, SendSomeInv, GiveUpInv, GoneInv, QuietInv DEF JsonNext, JsonTask

(* The JSON feed's invariant holds throughout.                             *)
THEOREM JsonInvariant == JsonSpec => []JsonInv
  BY JsonInitInv, JsonStepInv, PTL DEF JsonSpec

(* feed_json.c never leaves a viewer's line unfinished without a stall     *)
(* counted against that viewer, and the count is of its own misses.        *)
THEOREM JsonLinesWhole == JsonSpec => []LinesWhole
<1>1. JsonInv => LinesWhole
  BY DEF JsonInv
<1> QED BY <1>1, JsonInvariant, PTL

-----------------------------------------------------------------------------
(* The feeds together.                                                     *)

(* Whatever the behaviour of the whole is about, each of the three behaves *)
(* as it does alone.                                                       *)
THEOREM FeedsAreTheirs == FeedsSpec => Spec /\ ServerSpec /\ JsonSpec
<1>1. FeedsInit => Init /\ ServerInit /\ JsonInit
  BY DEF FeedsInit
<1>2. [FeedsNext]_<<service, serviceVars>> => [Next]_vars /\ [ServerNext]_serverVars /\ [JsonNext]_jsonVars
  BY DEF FeedsNext, RingStep, FeedStep, JsonStep, InRing, InFeed, InJson, serviceVars
<1> QED BY <1>1, <1>2, PTL DEF FeedsSpec, Spec, ServerSpec, JsonSpec

(* What the run Feeds checks but for liveness: no torn line, a slot for    *)
(* every client, no unfinished line that nobody counts; nobody who reads   *)
(* given up, and a ring that is a queue.                                   *)
THEOREM FeedsSafe ==
  FeedsSpec => [](NoTornLine /\ EveryClientHasASlot /\ LinesWhole) /\ GivenUpLate /\ Queue!QSpec
<1>1. FeedsSpec => GivenUpLate /\ Queue!QSpec  BY FeedsAreTheirs, GivenUpOnlyLate, RingIsQueue
<1> QED BY <1>1, FeedsAreTheirs, NothingTorn, ClientsHaveSlots, JsonLinesWhole, PTL
=============================================================================
