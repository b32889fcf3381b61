-------------------------------- MODULE Feeds --------------------------------
(***************************************************************************)
(* What the board tells the network of the sky: a line feed with its ring  *)
(* (FeedRing) and its socket task (FeedServer), and the JSON feed.         *)
(*                                                                         *)
(* FeedServer uses the queue that FeedRing implements; the JSON feed is a  *)
(* task of its own behind a port of its own.  A behaviour is about one of  *)
(* the three.                                                              *)
(***************************************************************************)
EXTENDS FeedRing, FeedServer, JsonFeed

VARIABLE service       \* what this behaviour is about

serviceVars == <<vars, serverVars, jsonVars>>

FeedsInit == /\ service \in {"ring", "feed", "json"}
             /\ Init /\ ServerInit /\ JsonInit

InRing == service = "ring" /\ UNCHANGED <<service, serverVars, jsonVars>>
InFeed == service = "feed" /\ UNCHANGED <<service, vars, jsonVars>>
InJson == service = "json" /\ UNCHANGED <<service, vars, serverVars>>

RingStep == InRing /\ Next
FeedStep == InFeed /\ ServerNext
JsonStep == InJson /\ JsonNext

FeedsNext == RingStep \/ FeedStep \/ JsonStep

AnyProgress == \/ InRing /\ DrainBegin /\ h' = head
               \/ InFeed /\ PushLine
               \/ InJson /\ Export(TRUE)

\* The tasks run and a push that was begun ends; there is traffic in the sky, the
\* table fits now and then, and a store becomes visible to the other core in the
\* end: of all the loads of s_head one returns what is there.  Peers owe nothing but
\* the acknowledgements of a viewer that keeps up; the connection that waits longest
\* is accepted first.
FeedsFairness ==
  /\ WF_<<drain, t, at, idx, turn, conn>>((InRing /\ Consumer) \/ (InFeed /\ Feed) \/ (InJson /\ JsonTask))
  /\ WF_<<push, pushing>>((InRing /\ PushPublish) \/ (InFeed /\ LinePushed))
  /\ SF_<<drain, pushing, json_at>>(AnyProgress)
  /\ \A p \in Peers : SF_<<link, conn>>((InFeed /\ Accept(p)) \/ (InJson /\ AcceptNew(p)))
  /\ \A p \in Apps : WF_unacked(InJson /\ Ack(p))

FeedsSpec == FeedsInit /\ [][FeedsNext]_<<service, serviceVars>> /\ FeedsFairness

-----------------------------------------------------------------------------
(* Properties *)

\* A client that never reads does not keep its slot for ever, and whoever connects
\* is served or turned away, whatever the others do (feed_avr.c:97-175,
\* feed_json.c:151-275).
Waits(p) == link[p] = "pending" \/ conn[p] = "queued"
Holds(p) == link[p] = "up" \/ conn[p] = "up"
EverybodyAnswered == /\ \A p \in Peers : Waits(p) ~> ~ Waits(p)
                     /\ \A p \in Stuck : Holds(p) ~> ~ Holds(p)
=============================================================================
