------------------------------ MODULE FeedRing ------------------------------
(***************************************************************************)
(* The ring between the decoder, which runs on one core and must never     *)
(* block, and the socket task of a TCP feed on the other: feed_avr_push()  *)
(* and drain() of src/main/feed_avr.c.  feed_beast.c has the same ring.    *)
(*                                                                         *)
(* There is no lock.  Both cursors run free in uint32_t and are reduced to *)
(* a slot only when one is accessed.  Each side reads the other's cursor   *)
(* while that is moving, and may read a value older than the current one,  *)
(* though never older than what it read before; the release store of       *)
(* s_head and the acquire load of it make a slot's contents arrive before  *)
(* the cursor that covers it.                                              *)
(***************************************************************************)
EXTENDS Integers, Sequences

CONSTANTS
  Slots,       \* RING_SLOTS
  Wrap,        \* 2^32, where the cursors wrap
  Short, Long, \* lines of 56-bit and of 112-bit messages
  LineMax,     \* AVR_LINE_MAX, the length of a long line
  ShortLen,    \* the length of a short one
  BatchMax,    \* BATCH_MAX
  Torn         \* the contents of a slot that is being written

ASSUME RingAssumption ==
  /\ Slots \in Nat \ {0} /\ Wrap \in Nat /\ Slots < Wrap /\ Wrap % Slots = 0
  /\ ShortLen \in Nat \ {0} /\ LineMax \in Nat /\ ShortLen <= LineMax
  /\ BatchMax \in Nat /\ LineMax <= BatchMax
  /\ Short \cap Long = {} /\ Torn \notin Short \cup Long

VARIABLES
  ring,      \* s_ring
  head,      \* s_head
  tail,      \* s_tail
  seenTail,  \* what the producer last read of s_tail
  push,      \* where feed_avr_push is
  line,      \* the line it is writing
  drain,     \* where drain is
  t, h,      \* its locals; h is kept, as what the consumer last read of s_head
  n,         \* bytes in s_batch
  batch      \* s_batch, as lines

prodVars == <<head, seenTail, push, line>>
consVars == <<tail, drain, t, h, n, batch>>
vars     == <<ring, prodVars, consVars>>

Line   == Short \cup Long
Cursor == 0 .. Wrap - 1

(* uint32_t arithmetic on cursors *)
Inc(c)     == IF c = Wrap - 1 THEN 0 ELSE c + 1
Dist(a, b) == IF b <= a THEN a - b ELSE a - b + Wrap
Slot(c)    == c % Slots

Size(l) == IF l \in Short THEN ShortLen ELSE LineMax

(* What a load of a cursor may return: anything from the value last read    *)
(* up to the current one.                                                   *)
Loads(seen, now) == {c \in Cursor : Dist(c, seen) <= Dist(now, seen)}

Init ==
  /\ ring \in [0 .. Slots - 1 -> {Torn}]
  /\ head = 0 /\ tail = 0 /\ seenTail = 0 /\ push = "idle" /\ line = Torn
  /\ drain = "idle" /\ t = 0 /\ h = 0 /\ n = 0 /\ batch = <<>>

-----------------------------------------------------------------------------
(* feed_avr_push()                                                         *)

Full(seen) == Dist(head, seen) >= Slots

(* A full ring drops the line.                                             *)
PushDrop ==
  /\ push = "idle"
  /\ seenTail' \in Loads(seenTail, tail) /\ Full(seenTail')
  /\ UNCHANGED <<ring, head, push, line, consVars>>

PushBegin(l) ==
  /\ push = "idle"
  /\ seenTail' \in Loads(seenTail, tail) /\ ~Full(seenTail')
  /\ ring' = [ring EXCEPT ![Slot(head)] = Torn]
  /\ push' = "write" /\ line' = l
  /\ UNCHANGED <<head, consVars>>

PushPublish ==
  /\ push = "write"
  /\ ring' = [ring EXCEPT ![Slot(head)] = line]
  /\ head' = Inc(head) /\ push' = "idle" /\ line' = Torn
  /\ UNCHANGED <<seenTail, consVars>>

-----------------------------------------------------------------------------
(* drain(), called once a tick                                             *)

DrainBegin_ReleasesEarly ==
  /\ drain = "idle"
  /\ h' \in Loads(h, head)
  /\ t' = tail /\ n' = 0 /\ batch' = <<>> /\ drain' = "copy"
  /\ tail' = h'
  /\ UNCHANGED <<ring, prodVars>>

DrainBegin ==
  /\ drain = "idle"
  /\ h' \in Loads(h, head)
  /\ t' = tail /\ n' = 0 /\ batch' = <<>> /\ drain' = "copy"
  /\ UNCHANGED <<ring, tail, prodVars>>

(* There is room for the longest line.                                     *)
Room == n + LineMax <= BatchMax

DrainCopy ==
  /\ drain = "copy" /\ t # h /\ Room
  /\ batch' = Append(batch, ring[Slot(t)])
  /\ n' = n + Size(ring[Slot(t)])
  /\ t' = Inc(t)
  /\ UNCHANGED <<ring, tail, drain, h, prodVars>>

DrainEnd_ToTheHeadSeen ==
  /\ drain = "copy" /\ (t = h \/ ~Room)
  /\ tail' = h /\ drain' = "idle"
  /\ UNCHANGED <<ring, t, h, n, batch, prodVars>>

DrainEnd ==
  /\ drain = "copy" /\ (t = h \/ ~Room)
  /\ tail' = t /\ drain' = "idle"
  /\ UNCHANGED <<ring, t, h, n, batch, prodVars>>

-----------------------------------------------------------------------------
Producer == PushDrop \/ (\E l \in Line : PushBegin(l)) \/ PushPublish
Consumer == DrainBegin \/ DrainCopy \/ DrainEnd
Next     == Producer \/ Consumer

Spec == Init /\ [][Next]_vars

-----------------------------------------------------------------------------
(* Properties                                                              *)

(* Each variable holds what its C counterpart can hold; no batch outgrows  *)
(* s_batch (feed_avr.c:142-158).  Proved in FeedRing_proofs.               *)
TypeOK ==
  /\ ring \in [0 .. Slots - 1 -> Line \cup {Torn}]
  /\ head \in Cursor /\ tail \in Cursor /\ seenTail \in Cursor
  /\ push \in {"idle", "write"} /\ line \in Line \cup {Torn}
  /\ drain \in {"idle", "copy"} /\ t \in Cursor /\ h \in Cursor
  /\ n \in 0 .. BatchMax /\ batch \in Seq(Line \cup {Torn})

(* "It never lets a slot the consumer still owns be reused"                *)
(* (feed_avr.c:67-68): whatever the producer has read of s_tail, the slot  *)
(* it is writing is none of those from s_tail up to s_head, across the     *)
(* wrap of the cursors too.                                                *)
OwnedSlotsUntouched ==
  push = "write" =>
    \A c \in Cursor : Dist(c, tail) < Dist(head, tail) => Slot(c) # Slot(head)

(* The consumer never copies a slot that is being written, nor one that    *)
(* never was (feed_avr.c:40-43).                                           *)
NoTornLine == \A i \in 1 .. Len(batch) : batch[i] # Torn

(* The cursors stay within one ring of each other, in the order in which   *)
(* the code advances them; the wrapped difference s_head - s_tail is       *)
(* therefore the number of lines waiting (feed_avr.c:69, 148).             *)
CursorsInOrder ==
  /\ Dist(head, seenTail) <= Slots
  /\ Dist(tail, seenTail) <= Dist(head, seenTail)
  /\ Dist(head, tail) <= Slots
  /\ Dist(h, tail) <= Dist(head, tail)
  /\ drain = "copy" => Dist(t, tail) <= Dist(h, tail)

(* The ring and both its users behave as a FIFO queue of Slots lines: no    *)
(* line is lost once accepted, repeated, reordered or altered, and every    *)
(* accepted line is taken in the end.                                       *)
Nth(i)   == LET c == tail + i - 1 IN Slot(IF c < Wrap THEN c ELSE c - Wrap)
Waiting  == [i \in 1 .. Dist(head, tail) |-> ring[Nth(i)]]
Queue    == INSTANCE FrameQueue WITH q <- Waiting,
              out <- IF drain = "idle" THEN batch ELSE <<>>, Capacity <- Slots
ImplementsQueue == Queue!QFairSpec
=============================================================================
