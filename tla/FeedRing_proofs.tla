--------------------------- MODULE FeedRing_proofs ---------------------------
(***************************************************************************)
(* Proofs about FeedRing, for every ring size, every cursor width that is  *)
(* a multiple of it, and every batch size.                                 *)
(*                                                                         *)
(* The argument: the five cursors lie on an arc of at most Slots steps, in *)
(* the order seenTail, tail, t, h, head (CursorsInOrder).  Two cursors     *)
(* less than Slots apart are in different slots (DifferentSlots), so the   *)
(* slot at head that is being written is none of those from tail to head,  *)
(* and each of those holds a whole line (OwnedSlotsFull).  The sequence of *)
(* those lines is the queue that the ring implements (RingIsQueue).        *)
(***************************************************************************)
EXTENDS FeedRing, SequenceTheorems, TLAPS

(* The producer writes only after it has seen room.                        *)
WriteInv == push = "write" => Dist(head, seenTail) < Slots /\ line \in Line

(* Every slot the consumer may copy holds a line.                          *)
OwnedSlotsFull ==
  \A c \in Cursor : Dist(c, tail) < Dist(head, tail) => ring[Slot(c)] \in Line

RingInv == TypeOK /\ CursorsInOrder /\ WriteInv /\ OwnedSlotsFull /\ batch \in Seq(Line)

USE DEF Cursor

(* The assumption without its remainder, which slows the solver down.      *)
LEMMA Sizes ==
  /\ Slots \in Nat /\ Wrap \in Nat /\ 0 < Slots /\ Slots < Wrap
  /\ ShortLen \in Nat /\ LineMax \in Nat /\ BatchMax \in Nat
  /\ ShortLen <= LineMax /\ LineMax <= BatchMax
  BY RingAssumption

USE Sizes

-----------------------------------------------------------------------------
(* Cursors.                                                                *)

(* Cursors are the naturals below Wrap.                                    *)
LEMMA CursorType ==
  /\ 0 \in Cursor
  /\ \A a \in Cursor : Inc(a) \in Cursor
  BY DEF Inc

(* A distance is less than one turn.                                       *)
LEMMA DistType == \A a, b \in Cursor : Dist(a, b) \in Nat /\ Dist(a, b) < Wrap
  BY DEF Dist

(* Only equal cursors are at distance zero.                                *)
LEMMA DistZero == \A a, b \in Cursor : Dist(a, b) = 0 <=> a = b
  BY DEF Dist

(* Stepping the leading cursor lengthens the way, the trailing one shortens it. *)
LEMMA DistStep ==
  ASSUME NEW a \in Cursor, NEW b \in Cursor
  PROVE  /\ Dist(a, b) < Wrap - 1 => Dist(Inc(a), b) = Dist(a, b) + 1
         /\ a # b => Dist(a, Inc(b)) = Dist(a, b) - 1
  BY DEF Inc, Dist

(* The way from c over b to a, when it is less than once around.           *)
LEMMA DistSplit ==
  ASSUME NEW a \in Cursor, NEW b \in Cursor, NEW c \in Cursor,
         Dist(b, c) <= Dist(a, c) \/ Dist(a, b) + Dist(b, c) < Wrap
  PROVE  Dist(a, c) = Dist(a, b) + Dist(b, c)
  BY DEF Dist

(* Equally far from a third, two cursors are the same.                     *)
LEMMA DistSame ==
  ASSUME NEW a \in Cursor, NEW b \in Cursor, NEW c \in Cursor, Dist(a, c) = Dist(b, c)
  PROVE  a = b
  BY DEF Dist

(* A slot is an index of the ring.                                         *)
LEMMA SlotType == \A c \in Cursor : Slot(c) \in 0 .. Slots - 1
  BY DEF Slot

(* Division with remainder, as far as it is needed.                        *)
LEMMA Remainder ==
  ASSUME NEW x \in Nat
  PROVE  \E k \in Nat : x = Slots * k + (x % Slots)
<1>1. x \div Slots \in Nat /\ x = Slots * (x \div Slots) + (x % Slots)
  OBVIOUS
<1> QED BY <1>1

(* Different multiples of Slots are at least Slots apart.                  *)
LEMMA Multiples ==
  ASSUME NEW j \in Int, NEW k \in Int, j < k
  PROVE  Slots * k >= Slots * j + Slots
<1>1. PICK d \in Nat : k = j + 1 + d
  <2>1. k - j - 1 \in Nat /\ k = j + 1 + (k - j - 1)
    OBVIOUS
  <2> QED BY <2>1
<1>2. Slots * k = Slots * j + Slots + Slots * d
  BY <1>1
<1>3. Slots * d >= 0
  BY <1>1
<1>4. Slots * j \in Int /\ Slots * d \in Int
  OBVIOUS
<1> QED BY <1>2, <1>3, <1>4

(* Cursors less than a ring apart are in different slots, also across the  *)
(* wrap: this is where Slots has to divide Wrap.                           *)
LEMMA DifferentSlots ==
  ASSUME NEW a \in Cursor, NEW b \in Cursor, 0 < Dist(a, b), Dist(a, b) < Slots
  PROVE  Slot(a) # Slot(b)
<1> SUFFICES ASSUME a % Slots = b % Slots PROVE FALSE
  BY DEF Slot
<1>0. a \in Nat /\ b \in Nat /\ Wrap \in Nat
  OBVIOUS
<1>1. PICK i \in Nat : a = Slots * i + (a % Slots)
  BY <1>0, Remainder
<1>2. PICK j \in Nat : b = Slots * j + (b % Slots)
  BY <1>0, Remainder
<1>3. PICK w \in Nat : Wrap = Slots * w
  <2>1. PICK w \in Nat : Wrap = Slots * w + (Wrap % Slots)
    BY <1>0, Remainder
  <2>2. Wrap % Slots = 0
    BY RingAssumption
  <2>3. Wrap = Slots * w
    BY <2>1, <2>2
  <2> QED BY <2>3
<1> DEFINE A == Slots * i  B == Slots * j  W == Slots * w  r == a % Slots
<1>4. A \in Nat /\ B \in Nat /\ W \in Nat /\ r \in Nat
  OBVIOUS
<1>5. a = A + r /\ b = B + r /\ Wrap = W
  BY <1>1, <1>2, <1>3
<1>6. CASE b <= a
  <2>1. 0 < A - B /\ A - B < Slots
    BY <1>4, <1>5, <1>6 DEF Dist
  <2>2. j < i
    <3>1. i <= j => A <= B
      <4> SUFFICES ASSUME i <= j PROVE A <= B
        OBVIOUS
      <4>1. CASE i = j
        BY <4>1, <1>4
      <4>2. CASE i < j
        BY <4>2, Multiples, <1>4
      <4> QED BY <4>1, <4>2
    <3> QED BY <2>1, <3>1, <1>4
  <2>3. A >= B + Slots
    BY <2>2, Multiples
  <2> QED BY <2>1, <2>3, <1>4
<1>7. CASE a < b
  <2>1. 0 < A + W - B /\ A + W - B < Slots
    BY <1>4, <1>5, <1>7 DEF Dist
  <2>2. A + W = Slots * (i + w)
    OBVIOUS
  <2>3. j < i + w
    <3>1. i + w <= j => A + W <= B
      <4> SUFFICES ASSUME i + w <= j PROVE A + W <= B
        OBVIOUS
      <4>1. CASE i + w = j
        BY <4>1, <2>2, <1>4
      <4>2. CASE i + w < j
        <5>1. B >= Slots * (i + w) + Slots
          BY <4>2, Multiples
        <5> QED BY <5>1, <2>2, <1>4
      <4> QED BY <4>1, <4>2
    <3> QED BY <2>1, <3>1, <1>4
  <2>4. Slots * (i + w) >= B + Slots
    BY <2>3, Multiples
  <2> QED BY <2>1, <2>2, <2>4, <1>4
<1> QED BY <1>6, <1>7

(* A cursor between tail and head is not in head's slot while there is     *)
(* room in the ring.                                                       *)
LEMMA OwnedElsewhere ==
  ASSUME NEW hd \in Cursor, NEW tl \in Cursor, NEW sn \in Cursor, NEW c \in Cursor,
         Dist(tl, sn) <= Dist(hd, sn), Dist(hd, sn) < Slots, Dist(c, tl) < Dist(hd, tl)
  PROVE  Slot(hd) # Slot(c)
<1>1. Dist(hd, sn) = Dist(hd, tl) + Dist(tl, sn)
  BY DistSplit
<1>2. Dist(hd, tl) = Dist(hd, c) + Dist(c, tl)
  BY DistSplit, DistType
<1>3. /\ Dist(hd, tl) \in Nat /\ Dist(tl, sn) \in Nat
      /\ Dist(hd, c) \in Nat /\ Dist(c, tl) \in Nat
  BY DistType
<1>4. 0 < Dist(hd, c) /\ Dist(hd, c) < Slots
  BY <1>1, <1>2, <1>3
<1> QED BY <1>4, DifferentSlots

-----------------------------------------------------------------------------
(* The invariant.                                                          *)

(* The empty ring.                                                         *)
LEMMA InitInv == Init => RingInv
<1> SUFFICES ASSUME Init PROVE RingInv
  OBVIOUS
<1>1. Dist(0, 0) = 0
  BY DEF Dist
<1>2. CursorsInOrder /\ OwnedSlotsFull
  <2>1. CursorsInOrder
    BY <1>1 DEF Init, CursorsInOrder
  <2>2. ASSUME NEW c \in Cursor PROVE ~(Dist(c, 0) < 0)
    BY CursorType, DistType
  <2> QED BY <1>1, <2>1, <2>2 DEF Init, OwnedSlotsFull
<1>3. batch \in Seq(Line) /\ batch \in Seq(Line \cup {Torn})
  BY DEF Init
<1>4. TypeOK
  BY <1>3 DEF Init, TypeOK
<1> QED BY <1>2, <1>3, <1>4 DEF Init, RingInv, WriteInv

(* The part of it the arithmetic needs.                                    *)
LEMMA InOrder ==
  RingInv => /\ head \in Cursor /\ tail \in Cursor /\ seenTail \in Cursor
             /\ t \in Cursor /\ h \in Cursor
             /\ CursorsInOrder
  BY DEF RingInv, TypeOK

(* A later reading of s_tail still lies between the old one and s_tail.    *)
LEMMA TailRead ==
  ASSUME RingInv, seenTail' \in Loads(seenTail, tail)
  PROVE  /\ seenTail' \in Cursor
         /\ Dist(head, seenTail') <= Slots
         /\ Dist(tail, seenTail') <= Dist(head, seenTail')
<1> USE InOrder DEF CursorsInOrder
<1>1. seenTail' \in Cursor /\ Dist(seenTail', seenTail) <= Dist(tail, seenTail)
  BY DEF Loads
<1>2. Dist(tail, seenTail) = Dist(tail, seenTail') + Dist(seenTail', seenTail)
  BY <1>1, DistSplit
<1>3. Dist(seenTail', seenTail) <= Dist(head, seenTail)
  BY <1>1, DistType
<1>4. Dist(head, seenTail) = Dist(head, seenTail') + Dist(seenTail', seenTail)
  BY <1>1, <1>3, DistSplit
<1>5. /\ Dist(head, seenTail) <= Slots /\ Dist(tail, seenTail) <= Dist(head, seenTail)
      /\ Dist(seenTail', seenTail) \in Nat /\ Dist(head, seenTail') \in Nat
      /\ Dist(tail, seenTail') \in Nat
  BY <1>1, DistType
<1> QED BY <1>1, <1>2, <1>4, <1>5

(* A line that finds no room changes nothing but what was seen of the      *)
(* tail.                                                                   *)
LEMMA PushDropInv == RingInv /\ PushDrop => RingInv'
<1> SUFFICES ASSUME RingInv, PushDrop PROVE RingInv'
  OBVIOUS
<1>1. UNCHANGED <<ring, head, tail, push, line, drain, t, h, n, batch>> /\ push = "idle"
  BY DEF PushDrop, consVars
<1>2. /\ seenTail' \in Cursor
      /\ Dist(head, seenTail') <= Slots
      /\ Dist(tail, seenTail') <= Dist(head, seenTail')
  BY TailRead DEF PushDrop
<1> QED BY <1>1, <1>2 DEF RingInv, TypeOK, CursorsInOrder, WriteInv, OwnedSlotsFull

(* A push writes a slot that the consumer does not own.                    *)
LEMMA PushBeginInv == RingInv /\ (\E l \in Line : PushBegin(l)) => RingInv'
<1> SUFFICES ASSUME RingInv, NEW l \in Line, PushBegin(l) PROVE RingInv'
  OBVIOUS
<1>1. UNCHANGED <<head, tail, drain, t, h, n, batch>> /\ push' = "write" /\ line' = l
  BY DEF PushBegin, consVars
<1>2. /\ seenTail' \in Cursor
      /\ Dist(head, seenTail') <= Slots
      /\ Dist(tail, seenTail') <= Dist(head, seenTail')
  BY TailRead DEF PushBegin
<1>3. Dist(head, seenTail') < Slots
  <2>1. ~(Dist(head, seenTail') >= Slots)
    BY DEF PushBegin, Full
  <2> QED BY <2>1, <1>2, InOrder, DistType
<1>4. ring' \in [0 .. Slots - 1 -> Line \cup {Torn}]
  BY DEF PushBegin, RingInv, TypeOK
<1>5. TypeOK'
  BY <1>1, <1>2, <1>4 DEF RingInv, TypeOK
<1>6. CursorsInOrder'
  BY <1>1, <1>2 DEF RingInv, CursorsInOrder
<1>7. OwnedSlotsFull'
  <2> SUFFICES ASSUME NEW c \in Cursor, Dist(c, tail) < Dist(head, tail)
               PROVE  ring'[Slot(c)] \in Line
    BY <1>1 DEF OwnedSlotsFull
  <2>1. Slot(head) # Slot(c)
    BY <1>2, <1>3, InOrder, OwnedElsewhere
  <2> QED BY <2>1, SlotType DEF PushBegin, RingInv, TypeOK, OwnedSlotsFull
<1> QED BY <1>1, <1>3, <1>5, <1>6, <1>7 DEF RingInv, WriteInv

(* Publishing hands one full slot over.                                    *)
LEMMA PushPublishInv == RingInv /\ PushPublish => RingInv'
<1> SUFFICES ASSUME RingInv, PushPublish PROVE RingInv'
  OBVIOUS
<1> USE InOrder
<1>1. /\ UNCHANGED <<seenTail, tail, drain, t, h, n, batch>> /\ push' = "idle" /\ line' = Torn
      /\ head' = Inc(head) /\ head' \in Cursor
  BY CursorType DEF PushPublish, consVars
<1>2. Dist(head, seenTail) < Slots /\ line \in Line
  BY DEF PushPublish, RingInv, WriteInv
<1>3. Dist(head, seenTail) = Dist(head, tail) + Dist(tail, seenTail)
  BY DistSplit DEF CursorsInOrder
<1>0. /\ Dist(head, seenTail) \in Nat /\ Dist(head, tail) \in Nat
      /\ Dist(tail, seenTail) \in Nat /\ Dist(h, tail) \in Nat
  BY DistType
<1>4. Dist(head', seenTail) = Dist(head, seenTail) + 1 /\ Dist(head', tail) = Dist(head, tail) + 1
  <2>1. Dist(head, seenTail) < Wrap - 1 /\ Dist(head, tail) < Wrap - 1
    BY <1>2, <1>3, <1>0
  <2> QED BY <1>1, <2>1, DistStep
<1>5. ring' = [ring EXCEPT ![Slot(head)] = line] /\ ring' \in [0 .. Slots - 1 -> Line \cup {Torn}]
  BY <1>2 DEF PushPublish, RingInv, TypeOK
<1>6. TypeOK'
  BY <1>1, <1>5 DEF RingInv, TypeOK
<1>7. CursorsInOrder'
  BY <1>1, <1>2, <1>3, <1>4, <1>0 DEF CursorsInOrder
<1>8. OwnedSlotsFull'
  <2> SUFFICES ASSUME NEW c \in Cursor, Dist(c, tail) < Dist(head, tail) + 1
               PROVE  ring'[Slot(c)] \in Line
    BY <1>1, <1>4 DEF OwnedSlotsFull
  <2>1. CASE Dist(c, tail) < Dist(head, tail)
    BY <2>1, <1>2, <1>5, SlotType DEF RingInv, TypeOK, OwnedSlotsFull
  <2>2. CASE Dist(c, tail) = Dist(head, tail)
    <3>1. c = head
      BY <2>2, DistSame
    <3> QED BY <3>1, <1>2, <1>5, SlotType DEF RingInv, TypeOK
  <2>3. Dist(c, tail) \in Nat
    BY DistType
  <2> QED BY <2>1, <2>2, <2>3, <1>0
<1> QED BY <1>1, <1>6, <1>7, <1>8 DEF RingInv, WriteInv

(* The consumer starts at its tail with what it sees of the head.          *)
LEMMA DrainBeginInv == RingInv /\ DrainBegin => RingInv'
<1> SUFFICES ASSUME RingInv, DrainBegin PROVE RingInv'
  OBVIOUS
<1> USE InOrder
<1>1. /\ UNCHANGED <<ring, head, tail, seenTail, push, line>>
      /\ t' = tail /\ n' = 0 /\ drain' = "copy"
  BY DEF DrainBegin, prodVars
<1>2. batch' \in Seq(Line) /\ batch' \in Seq(Line \cup {Torn})
  BY DEF DrainBegin
<1>3. h' \in Cursor /\ Dist(h', h) <= Dist(head, h)
  BY DEF DrainBegin, Loads
<1>4. Dist(head, tail) = Dist(head, h) + Dist(h, tail)
  BY DistSplit DEF CursorsInOrder
<1>5. Dist(h', h) + Dist(h, tail) < Wrap
  BY <1>3, <1>4, DistType
<1>6. Dist(h', tail) = Dist(h', h) + Dist(h, tail)
  BY <1>3, <1>5, DistSplit
<1>7. Dist(tail, tail) = 0
  BY DistZero
<1>8. CursorsInOrder'
  BY <1>1, <1>3, <1>4, <1>6, <1>7, DistType DEF CursorsInOrder
<1>9. TypeOK'
  BY <1>1, <1>2, <1>3 DEF RingInv, TypeOK
<1> QED BY <1>1, <1>2, <1>8, <1>9 DEF RingInv, WriteInv, OwnedSlotsFull

(* Copying moves the consumer over slots that are its own.                 *)
LEMMA DrainCopyInv == RingInv /\ DrainCopy => RingInv'
<1> SUFFICES ASSUME RingInv, DrainCopy PROVE RingInv'
  OBVIOUS
<1> USE InOrder
<1>1. /\ UNCHANGED <<ring, head, tail, seenTail, push, line, drain, h>>
      /\ t' = Inc(t) /\ t' \in Cursor
  BY CursorType DEF DrainCopy, prodVars
<1>2. Dist(t, tail) <= Dist(h, tail) /\ t # h
  BY DEF DrainCopy, CursorsInOrder
<1>3. Dist(h, tail) = Dist(h, t) + Dist(t, tail) /\ Dist(h, t) # 0
  BY <1>2, DistSplit, DistZero
<1>4. Dist(t, tail) < Dist(h, tail) /\ Dist(h, tail) <= Dist(head, tail)
  <2>1. /\ Dist(h, tail) \in Nat /\ Dist(h, t) \in Nat /\ Dist(t, tail) \in Nat
        /\ Dist(h, tail) <= Dist(head, tail)
    BY DistType DEF CursorsInOrder
  <2> HIDE InOrder DEF Sizes
  <2> QED BY <1>3, <2>1
<1>5. Dist(t', tail) = Dist(t, tail) + 1
  BY <1>1, <1>4, DistStep, DistType
<1>6. ring[Slot(t)] \in Line
  <2>1. Dist(t, tail) < Dist(head, tail)
    BY <1>4, DistType
  <2> QED BY <2>1 DEF RingInv, OwnedSlotsFull
<1>7. batch' \in Seq(Line) /\ batch' \in Seq(Line \cup {Torn})
  BY <1>6 DEF DrainCopy, RingInv, TypeOK
<1>8. n' \in 0 .. BatchMax
  BY <1>6 DEF DrainCopy, Room, Size, RingInv, TypeOK
<1>9. CursorsInOrder'
  BY <1>1, <1>4, <1>5, DistType DEF CursorsInOrder
<1>10. TypeOK'
  BY <1>1, <1>7, <1>8 DEF RingInv, TypeOK
<1> QED BY <1>1, <1>7, <1>9, <1>10 DEF RingInv, WriteInv, OwnedSlotsFull

(* Storing the tail hands the copied slots back.                           *)
LEMMA DrainEndInv == RingInv /\ DrainEnd => RingInv'
<1> SUFFICES ASSUME RingInv, DrainEnd PROVE RingInv'
  OBVIOUS
<1> USE InOrder
<1>1. /\ UNCHANGED <<ring, head, seenTail, push, line, t, h, n, batch>>
      /\ tail' = t /\ drain' = "idle"
  BY DEF DrainEnd, prodVars
<1>2. Dist(t, tail) <= Dist(h, tail) /\ Dist(h, tail) <= Dist(head, tail)
  BY DEF DrainEnd, CursorsInOrder
<1>0. /\ Dist(head, tail) \in Nat /\ Dist(head, t) \in Nat /\ Dist(h, t) \in Nat
      /\ Dist(h, tail) \in Nat /\ Dist(t, tail) \in Nat /\ Dist(tail, seenTail) \in Nat
  BY DistType
<1>3. /\ Dist(h, tail) = Dist(h, t) + Dist(t, tail)
      /\ Dist(head, tail) = Dist(head, t) + Dist(t, tail)
  <2>1. Dist(t, tail) <= Dist(head, tail)
    BY <1>0, <1>2
  <2> QED BY <1>2, <2>1, DistSplit
<1>4. Dist(head, seenTail) = Dist(head, tail) + Dist(tail, seenTail)
  BY DistSplit DEF CursorsInOrder
<1>5. Dist(t, tail) + Dist(tail, seenTail) < Wrap
  BY <1>2, <1>4, DistType DEF CursorsInOrder
<1>6. Dist(t, seenTail) = Dist(t, tail) + Dist(tail, seenTail)
  BY <1>5, DistSplit
<1>7. CursorsInOrder'
  BY <1>0, <1>1, <1>2, <1>3, <1>4, <1>6 DEF CursorsInOrder
<1>8. OwnedSlotsFull'
  <2> SUFFICES ASSUME NEW c \in Cursor, Dist(c, t) < Dist(head, t)
               PROVE  ring[Slot(c)] \in Line
    BY <1>1 DEF OwnedSlotsFull
  <2>1. Dist(c, t) + Dist(t, tail) < Wrap
    BY <1>3, DistType
  <2>2. Dist(c, tail) = Dist(c, t) + Dist(t, tail)
    BY <2>1, DistSplit
  <2>3. Dist(c, tail) < Dist(head, tail)
    BY <2>2, <1>3, DistType
  <2> QED BY <2>3 DEF RingInv, OwnedSlotsFull
<1>9. TypeOK'
  BY <1>1 DEF RingInv, TypeOK
<1> QED BY <1>1, <1>7, <1>8, <1>9 DEF RingInv, WriteInv

(* A stutter.                                                              *)
LEMMA StutterInv == RingInv /\ UNCHANGED vars => RingInv'
  BY DEF RingInv, TypeOK, CursorsInOrder, WriteInv, OwnedSlotsFull, vars, prodVars, consVars

(* Every step keeps it.                                                    *)
LEMMA StepInv == RingInv /\ [Next]_vars => RingInv'
  BY PushDropInv, PushBeginInv, PushPublishInv, DrainBeginInv, DrainCopyInv, DrainEndInv,
     StutterInv DEF Next, Producer, Consumer

(* The ring's invariant holds throughout.                                  *)
THEOREM RingInvariant == Spec => []RingInv
  BY InitInv, StepInv, PTL DEF Spec

-----------------------------------------------------------------------------
(* What it implies.                                                        *)

(* Every variable keeps its type; in particular a batch never grows past   *)
(* s_batch.                                                                *)
THEOREM TypeCorrect == Spec => []TypeOK
<1>1. RingInv => TypeOK
  BY DEF RingInv
<1> QED BY <1>1, RingInvariant, PTL

(* The cursors of feed_avr.c stay in order and within a ring of each other. *)
THEOREM CursorsOrdered == Spec => []CursorsInOrder
<1>1. RingInv => CursorsInOrder
  BY DEF RingInv
<1> QED BY <1>1, RingInvariant, PTL

(* feed_avr_push never writes a slot that drain still owns.                *)
THEOREM OwnedUntouched == Spec => []OwnedSlotsUntouched
<1>1. RingInv => OwnedSlotsUntouched
  BY InOrder, OwnedElsewhere DEF RingInv, CursorsInOrder, WriteInv, OwnedSlotsUntouched
<1> QED BY <1>1, RingInvariant, PTL

(* drain never copies a slot that is not written whole.                    *)
THEOREM NothingTorn == Spec => []NoTornLine
<1>1. RingInv => NoTornLine
  BY RingAssumption DEF RingInv, NoTornLine, Line
<1> QED BY <1>1, RingInvariant, PTL

-----------------------------------------------------------------------------
(* The ring is a queue.                                                    *)

(* The cursor of the line that is the i-th from a.                         *)
Ahead(a, i) == LET c == a + i - 1 IN IF c < Wrap THEN c ELSE c - Wrap

(* The batch so far is the front of what waits.                            *)
BatchIsFront ==
  drain = "copy" => /\ Len(batch) = Dist(t, tail)
                    /\ \A i \in 1 .. Dist(t, tail) : batch[i] = ring[Slot(Ahead(tail, i))]

QueueInv == RingInv /\ BatchIsFront

(* The i-th line from a lies i - 1 steps ahead of it, and no other does.   *)
LEMMA AheadIs ==
  ASSUME NEW a \in Cursor, NEW i \in 1 .. Wrap
  PROVE  Ahead(a, i) \in Cursor /\ Dist(Ahead(a, i), a) = i - 1
  BY DEF Ahead, Dist

(* Counted from a later cursor it is the same line.                        *)
LEMMA AheadFurther ==
  ASSUME NEW a \in Cursor, NEW b \in Cursor, NEW i \in 1 .. Wrap, i + Dist(b, a) <= Wrap
  PROVE  Ahead(b, i) = Ahead(a, i + Dist(b, a))
<1>1. Dist(b, a) \in Nat
  BY DistType
<1>2. CASE a <= b
  BY <1>2 DEF Ahead, Dist
<1>3. CASE b < a
  BY <1>3 DEF Ahead, Dist
<1> QED BY <1>2, <1>3

(* The lines that wait, one by one.                                        *)
WaitingLines ==
  /\ Dist(head, tail) \in 0 .. Slots
  /\ Waiting \in Seq(Line) /\ Len(Waiting) = Dist(head, tail)
  /\ \A i \in 1 .. Dist(head, tail) : /\ Waiting[i] = ring[Slot(Ahead(tail, i))]
                                      /\ Slot(Ahead(tail, i)) \in 0 .. Slots - 1
                                      /\ Dist(Ahead(tail, i), tail) < Dist(head, tail)
                                      /\ Ahead(tail, i) \in Cursor

(* They are what the slots from the tail to the head hold.                 *)
LEMMA WaitingIs == RingInv => WaitingLines
<1> SUFFICES ASSUME RingInv PROVE WaitingLines
  OBVIOUS
<1>1. Dist(head, tail) \in 0 .. Slots
  BY InOrder, DistType DEF CursorsInOrder
<1>2. ASSUME NEW i \in 1 .. Dist(head, tail)
      PROVE  /\ Slot(Ahead(tail, i)) \in 0 .. Slots - 1 /\ Ahead(tail, i) \in Cursor
             /\ Dist(Ahead(tail, i), tail) < Dist(head, tail)
             /\ ring[Slot(Ahead(tail, i))] \in Line
  <2>1. i \in 1 .. Wrap /\ i - 1 < Dist(head, tail)
    BY <1>1
  <2>2. Ahead(tail, i) \in Cursor /\ Dist(Ahead(tail, i), tail) = i - 1
    BY <2>1, InOrder, AheadIs
  <2>3. Dist(Ahead(tail, i), tail) < Dist(head, tail)
    BY <2>1, <2>2
  <2>4. ring[Slot(Ahead(tail, i))] \in Line
    BY <2>2, <2>3 DEF RingInv, OwnedSlotsFull
  <2> QED BY <2>2, <2>3, <2>4, SlotType
<1>3. Waiting = [i \in 1 .. Dist(head, tail) |-> ring[Slot(Ahead(tail, i))]]
  BY DEF Waiting, Nth, Ahead
<1>4. Waiting \in Seq(Line) /\ Len(Waiting) = Dist(head, tail)
  BY <1>1, <1>2, <1>3
<1> QED BY <1>1, <1>2, <1>3, <1>4 DEF WaitingLines

(* A slot that is being written holds none of the lines that wait.         *)
LEMMA WrittenElsewhere ==
  ASSUME RingInv, NEW sn \in Cursor, Dist(tail, sn) <= Dist(head, sn), Dist(head, sn) < Slots
  PROVE  \A i \in 1 .. Dist(head, tail) : Slot(Ahead(tail, i)) # Slot(head)
<1> SUFFICES ASSUME NEW i \in 1 .. Dist(head, tail) PROVE Slot(Ahead(tail, i)) # Slot(head)
  OBVIOUS
<1>1. Ahead(tail, i) \in Cursor /\ Dist(Ahead(tail, i), tail) < Dist(head, tail)
  BY WaitingIs DEF WaitingLines
<1> QED BY <1>1, InOrder, OwnedElsewhere

(* As long as neither cursor moves and no line that waits is overwritten,  *)
(* the queue stays what it is.                                             *)
LEMMA SameQueue ==
  ASSUME UNCHANGED <<head, tail>>,
         \A i \in 1 .. Dist(head, tail) : ring'[Slot(Ahead(tail, i))] = ring[Slot(Ahead(tail, i))]
  PROVE  Waiting' = Waiting
<1>1. Waiting = [i \in 1 .. Dist(head, tail) |-> ring[Slot(Ahead(tail, i))]]
  BY DEF Waiting, Nth, Ahead
<1>2. Waiting' = [i \in 1 .. Dist(head, tail) |-> ring'[Slot(Ahead(tail, i))]]
  BY DEF Waiting, Nth, Ahead
<1> QED BY <1>1, <1>2

(* The batch that counts: one that the socket task has in hand.            *)
Taken == IF drain = "idle" THEN batch ELSE <<>>

(* A line that is being written, or found no room, changes nothing.        *)
LEMMA PushUnseen ==
  ASSUME QueueInv, PushDrop \/ \E l \in Line : PushBegin(l)
  PROVE  BatchIsFront' /\ UNCHANGED <<Waiting, Taken>>
<1>0. RingInv /\ BatchIsFront
  BY DEF QueueInv
<1>1. UNCHANGED <<head, tail, drain, t, batch>>
  BY DEF PushDrop, PushBegin, consVars
<1>2. \A i \in 1 .. Dist(head, tail) : ring'[Slot(Ahead(tail, i))] = ring[Slot(Ahead(tail, i))]
  <2>1. CASE PushDrop
    BY <2>1 DEF PushDrop
  <2>2. ASSUME NEW l \in Line, PushBegin(l)
        PROVE  \A i \in 1 .. Dist(head, tail) : ring'[Slot(Ahead(tail, i))] = ring[Slot(Ahead(tail, i))]
    <3>1. seenTail' \in Cursor /\ Dist(head, seenTail') <= Slots /\ Dist(tail, seenTail') <= Dist(head, seenTail')
      BY <1>0, <2>2, TailRead DEF PushBegin
    <3>2. Dist(head, seenTail') < Slots
      <4>1. ~(Dist(head, seenTail') >= Slots)
        BY <2>2 DEF PushBegin, Full
      <4> QED BY <4>1, <3>1, <1>0, InOrder, DistType
    <3>3. \A i \in 1 .. Dist(head, tail) : Slot(Ahead(tail, i)) # Slot(head)
      BY <1>0, <3>1, <3>2, WrittenElsewhere
    <3>4. ring' = [ring EXCEPT ![Slot(head)] = Torn] /\ ring \in [0 .. Slots - 1 -> Line \cup {Torn}]
      BY <1>0, <2>2 DEF PushBegin, RingInv, TypeOK
    <3> QED BY <1>0, <3>3, <3>4, WaitingIs DEF WaitingLines
  <2> QED BY <2>1, <2>2
<1>3. Waiting' = Waiting
  BY <1>1, <1>2, SameQueue
<1>4. BatchIsFront'
  <2>1. drain = "copy" => Dist(t, tail) \in Nat /\ Dist(t, tail) <= Dist(head, tail) /\ Dist(head, tail) \in Nat
    <3>1. Dist(t, tail) \in Nat /\ Dist(h, tail) \in Nat /\ Dist(head, tail) \in Nat
      BY <1>0, InOrder, DistType
    <3> QED BY <1>0, <3>1, InOrder DEF CursorsInOrder
  <2> QED BY <1>0, <1>1, <1>2, <2>1 DEF BatchIsFront
<1> QED BY <1>1, <1>3, <1>4 DEF Taken

(* A line that is published is the last of the queue.                      *)
LEMMA PublishIsPut ==
  ASSUME QueueInv, RingInv', PushPublish
  PROVE  BatchIsFront' /\ Queue!Put(line) /\ line \in Line
<1>0. RingInv /\ BatchIsFront
  BY DEF QueueInv
<1>1. /\ UNCHANGED <<seenTail, tail, drain, t, h, batch>> /\ head' = Inc(head)
      /\ ring' = [ring EXCEPT ![Slot(head)] = line]
      /\ ring \in [0 .. Slots - 1 -> Line \cup {Torn}]
  BY <1>0 DEF PushPublish, consVars, RingInv, TypeOK
<1>2. line \in Line /\ Dist(head, seenTail) < Slots /\ Dist(tail, seenTail) <= Dist(head, seenTail)
  BY <1>0 DEF PushPublish, RingInv, WriteInv, CursorsInOrder
<1>3. \A i \in 1 .. Dist(head, tail) : Slot(Ahead(tail, i)) # Slot(head)
  BY <1>0, <1>2, InOrder, WrittenElsewhere
<1>4. WaitingLines /\ WaitingLines'
  BY <1>0, WaitingIs, PTL
<1>5. Dist(head, tail) < Slots /\ Dist(head', tail) = Dist(head, tail) + 1
  <2>1. Dist(head, seenTail) = Dist(head, tail) + Dist(tail, seenTail)
    BY <1>0, <1>2, InOrder, DistSplit
  <2>2. Dist(head, seenTail) \in Nat /\ Dist(head, tail) \in Nat /\ Dist(tail, seenTail) \in Nat
    BY <1>0, InOrder, DistType
  <2>3. Dist(head, tail) < Slots /\ Dist(head, tail) < Wrap - 1
    BY <1>2, <2>1, <2>2
  <2> QED BY <1>0, <1>1, <2>3, InOrder, DistStep
<1>6. Ahead(tail, Dist(head, tail) + 1) = head
  <2>1. Dist(head, tail) + 1 \in 1 .. Wrap
    BY <1>4, <1>5 DEF WaitingLines
  <2>2. /\ Ahead(tail, Dist(head, tail) + 1) \in Cursor
        /\ Dist(Ahead(tail, Dist(head, tail) + 1), tail) = Dist(head, tail)
    <3>1. tail \in Cursor
      BY <1>0, InOrder
    <3>2. /\ Ahead(tail, Dist(head, tail) + 1) \in Cursor
          /\ Dist(Ahead(tail, Dist(head, tail) + 1), tail) = (Dist(head, tail) + 1) - 1
      BY <2>1, <3>1, AheadIs
    <3>3. Dist(head, tail) \in Nat
      BY <1>0, InOrder, DistType
    <3> QED BY <3>2, <3>3
  <2> QED BY <1>0, <2>2, InOrder, DistSame
<1>7. /\ \A i \in 1 .. Dist(head, tail) : ring'[Slot(Ahead(tail, i))] = ring[Slot(Ahead(tail, i))]
      /\ ring'[Slot(head)] = line
  BY <1>0, <1>1, <1>3, <1>4, InOrder, SlotType DEF WaitingLines
<1>8. Waiting' = Append(Waiting, line)
  <2>1. /\ Append(Waiting, line) \in Seq(Line) /\ Len(Append(Waiting, line)) = Dist(head, tail) + 1
        /\ \A i \in 1 .. Dist(head, tail) : Append(Waiting, line)[i] = Waiting[i]
        /\ Append(Waiting, line)[Dist(head, tail) + 1] = line
    BY <1>2, <1>4, AppendProperties DEF WaitingLines
  <2>2. /\ Waiting' \in Seq(Line) /\ Len(Waiting') = Dist(head, tail) + 1
        /\ \A i \in 1 .. Dist(head, tail) + 1 : Waiting'[i] = ring'[Slot(Ahead(tail, i))]
    BY <1>1, <1>4, <1>5 DEF WaitingLines
  <2>3. \A i \in 1 .. Dist(head, tail) + 1 : Waiting'[i] = Append(Waiting, line)[i]
    <3> SUFFICES ASSUME NEW i \in 1 .. Dist(head, tail) + 1 PROVE Waiting'[i] = Append(Waiting, line)[i]
      OBVIOUS
    <3>1. CASE i \in 1 .. Dist(head, tail)
      BY <1>4, <1>7, <2>1, <2>2, <3>1 DEF WaitingLines
    <3>2. CASE i = Dist(head, tail) + 1
      <4>1. Waiting'[i] = ring'[Slot(Ahead(tail, i))]
        BY <2>2
      <4>2. Ahead(tail, i) = head
        BY <1>6, <3>2
      <4>3. Waiting'[i] = line
        BY <1>7, <4>1, <4>2
      <4> QED BY <2>1, <3>2, <4>3
    <3>3. i \in 1 .. Dist(head, tail) \/ i = Dist(head, tail) + 1
      <4>1. Dist(head, tail) \in Nat
        BY <1>0, InOrder, DistType
      <4> QED BY <4>1
    <3> QED BY <3>1, <3>2, <3>3, Zenon
  <2> QED BY <2>1, <2>2, <2>3, SeqEqual
<1>9. BatchIsFront'
  <2>1. drain = "copy" => Dist(t, tail) \in Nat /\ Dist(t, tail) <= Dist(head, tail) /\ Dist(head, tail) \in Nat
    <3>1. Dist(t, tail) \in Nat /\ Dist(h, tail) \in Nat /\ Dist(head, tail) \in Nat
      BY <1>0, InOrder, DistType
    <3> QED BY <1>0, <3>1, InOrder DEF CursorsInOrder
  <2> QED BY <1>0, <1>1, <1>7, <2>1 DEF BatchIsFront
<1> QED BY <1>1, <1>2, <1>4, <1>5, <1>8, <1>9 DEF Queue!Put, WaitingLines, Taken

(* A drain that begins has sent what it took before.                       *)
LEMMA DrainBeginIsSent ==
  ASSUME QueueInv, DrainBegin
  PROVE  BatchIsFront' /\ (Queue!Sent \/ UNCHANGED <<Waiting, Taken>>)
<1>1. /\ UNCHANGED <<ring, head, tail>> /\ t' = tail /\ batch' = <<>>
      /\ drain = "idle" /\ drain' = "copy"
  BY DEF DrainBegin, prodVars
<1>2. Waiting' = Waiting
  BY <1>1, SameQueue
<1>3. Dist(tail, tail) = 0
  BY InOrder, DistZero DEF QueueInv
<1>4. BatchIsFront'
  BY <1>1, <1>3 DEF BatchIsFront
<1>5. Taken = batch /\ Taken' = <<>>
  BY <1>1 DEF Taken
<1> QED BY <1>2, <1>4, <1>5 DEF Queue!Sent, Taken

(* Copying goes on at the front, and takes nothing yet.                    *)
LEMMA DrainCopyUnseen ==
  ASSUME QueueInv, DrainCopy
  PROVE  BatchIsFront' /\ UNCHANGED <<Waiting, Taken>>
<1>0. RingInv /\ BatchIsFront /\ batch \in Seq(Line)
  BY DEF QueueInv, RingInv
<1>1. /\ UNCHANGED <<ring, head, tail, drain, h>> /\ drain = "copy" /\ t # h
      /\ t' = Inc(t) /\ batch' = Append(batch, ring[Slot(t)])
  BY DEF DrainCopy, prodVars
<1>2. Waiting' = Waiting /\ Taken' = Taken
  BY <1>1, SameQueue DEF Taken
<1>3. /\ Dist(t, tail) \in Nat /\ Dist(t, tail) < Dist(head, tail) /\ Dist(head, tail) \in Nat
      /\ Dist(head, tail) < Wrap /\ Dist(Inc(t), tail) = Dist(t, tail) + 1
  <2>1. Dist(t, tail) <= Dist(h, tail) /\ Dist(h, tail) <= Dist(head, tail)
    BY <1>0, <1>1, InOrder DEF CursorsInOrder
  <2>2. Dist(h, tail) = Dist(h, t) + Dist(t, tail) /\ Dist(h, t) # 0
    BY <1>0, <1>1, <2>1, InOrder, DistSplit, DistZero
  <2>3. /\ Dist(h, tail) \in Nat /\ Dist(h, t) \in Nat /\ Dist(t, tail) \in Nat
        /\ Dist(head, tail) \in Nat /\ Dist(head, tail) < Wrap
    BY <1>0, InOrder, DistType
  <2>4. Dist(t, tail) < Dist(head, tail) /\ Dist(t, tail) < Wrap - 1
    BY <2>1, <2>2, <2>3
  <2> QED BY <1>0, <2>3, <2>4, InOrder, DistStep
<1>4. Ahead(tail, Dist(t, tail) + 1) = t
  <2>1. Dist(t, tail) + 1 \in 1 .. Wrap
    BY <1>3
  <2>2. /\ Ahead(tail, Dist(t, tail) + 1) \in Cursor
        /\ Dist(Ahead(tail, Dist(t, tail) + 1), tail) = Dist(t, tail)
    BY <1>0, <1>3, <2>1, InOrder, AheadIs
  <2> QED BY <1>0, <2>2, InOrder, DistSame
<1>5. ring[Slot(t)] \in Line
  BY <1>0, <1>3, InOrder DEF RingInv, OwnedSlotsFull
<1>6. Len(batch) = Dist(t, tail) /\ \A i \in 1 .. Dist(t, tail) : batch[i] = ring[Slot(Ahead(tail, i))]
  BY <1>0, <1>1 DEF BatchIsFront
<1>7. /\ Len(batch') = Dist(t, tail) + 1
      /\ \A i \in 1 .. Dist(t, tail) : batch'[i] = batch[i]
      /\ batch'[Dist(t, tail) + 1] = ring[Slot(t)]
  BY <1>0, <1>1, <1>5, <1>6, AppendProperties
<1>8. \A i \in 1 .. Dist(t, tail) + 1 : batch'[i] = ring[Slot(Ahead(tail, i))]
  <2> SUFFICES ASSUME NEW i \in 1 .. Dist(t, tail) + 1
               PROVE  batch'[i] = ring[Slot(Ahead(tail, i))]
    OBVIOUS
  <2>1. CASE i \in 1 .. Dist(t, tail)
    BY <1>6, <1>7, <2>1
  <2>2. CASE i = Dist(t, tail) + 1
    <3>1. Ahead(tail, i) = t
      BY <1>4, <2>2
    <3> QED BY <1>7, <2>2, <3>1
  <2> QED BY <1>3, <2>1, <2>2
<1>9. BatchIsFront'
  BY <1>1, <1>3, <1>7, <1>8 DEF BatchIsFront
<1> QED BY <1>2, <1>9

(* A drain that ends has taken its batch off the front.                    *)
LEMMA DrainEndIsTake ==
  ASSUME QueueInv, RingInv', DrainEnd
  PROVE  BatchIsFront' /\ (Queue!Take \/ UNCHANGED <<Waiting, Taken>>)
<1>0. RingInv /\ BatchIsFront /\ batch \in Seq(Line) /\ WaitingLines /\ WaitingLines'
  BY WaitingIs, PTL DEF QueueInv, RingInv
<1>1. /\ UNCHANGED <<ring, head, batch>> /\ drain = "copy" /\ drain' = "idle" /\ tail' = t
  BY DEF DrainEnd, prodVars
<1>2. BatchIsFront' /\ Taken = <<>> /\ Taken' = batch
  BY <1>1 DEF BatchIsFront, Taken
<1> DEFINE k == Dist(t, tail)
           m == Dist(head, tail)
<1>3. /\ k \in Nat /\ m \in Nat /\ k <= m /\ m < Wrap
      /\ Dist(head, t) = m - k
  <2>1. Dist(t, tail) <= Dist(h, tail) /\ Dist(h, tail) <= Dist(head, tail)
    BY <1>0, <1>1, InOrder DEF CursorsInOrder
  <2>2. /\ Dist(t, tail) \in Nat /\ Dist(h, tail) \in Nat /\ Dist(head, tail) \in Nat
        /\ Dist(head, t) \in Nat /\ Dist(head, tail) < Wrap
    BY <1>0, InOrder, DistType
  <2>3. Dist(t, tail) <= Dist(head, tail)
    BY <2>1, <2>2
  <2>4. Dist(head, tail) = Dist(head, t) + Dist(t, tail)
    BY <1>0, <2>3, InOrder, DistSplit
  <2> QED BY <2>2, <2>3, <2>4
<1>4. Len(batch) = k /\ \A i \in 1 .. k : batch[i] = ring[Slot(Ahead(tail, i))]
  BY <1>0, <1>1 DEF BatchIsFront
<1>5. /\ Waiting \in Seq(Line) /\ Len(Waiting) = m
      /\ \A i \in 1 .. m : Waiting[i] = ring[Slot(Ahead(tail, i))] /\ Waiting[i] \in Line
  BY <1>0 DEF WaitingLines
<1>6. /\ Waiting' \in Seq(Line) /\ Len(Waiting') = m - k
      /\ \A i \in 1 .. m - k : Waiting'[i] = ring[Slot(Ahead(t, i))]
  BY <1>0, <1>1, <1>3 DEF WaitingLines
<1>7. CASE k = 0
  <2>1. t = tail
    BY <1>0, <1>7, InOrder, DistZero
  <2>2. Waiting' = Waiting
    BY <1>1, <2>1, SameQueue
  <2>3. batch = <<>>
    BY <1>0, <1>4, <1>7
  <2> QED BY <1>2, <2>2, <2>3
<1>8. CASE k # 0
  <2>1. k \in 1 .. Len(Waiting)
    BY <1>3, <1>5, <1>8
  <2>2. batch = SubSeq(Waiting, 1, k)
    <3>1. \A i \in 1 .. k : Waiting[i] \in Line
      BY <1>3, <1>5
    <3>2. /\ SubSeq(Waiting, 1, k) \in Seq(Line) /\ Len(SubSeq(Waiting, 1, k)) = k
          /\ \A i \in 1 .. k : SubSeq(Waiting, 1, k)[i] = Waiting[i]
      <4>1. /\ SubSeq(Waiting, 1, k) \in Seq(Line)
            /\ Len(SubSeq(Waiting, 1, k)) = IF 1 <= k THEN k - 1 + 1 ELSE 0
            /\ \A i \in 1 .. k - 1 + 1 : SubSeq(Waiting, 1, k)[i] = Waiting[1 + i - 1]
        BY <1>3, <3>1, SubSeqProperties
      <4>2. k - 1 + 1 = k /\ 1 <= k /\ \A i \in 1 .. k : 1 + i - 1 = i
        BY <1>3, <1>8
      <4> QED BY <4>1, <4>2
    <3>3. \A i \in 1 .. k : batch[i] = SubSeq(Waiting, 1, k)[i]
      BY <1>3, <1>4, <1>5, <3>2
    <3> QED BY <1>0, <1>4, <3>2, <3>3, SeqEqual
  <2>3. Waiting' = SubSeq(Waiting, k + 1, Len(Waiting))
    <3>1. \A i \in k + 1 .. m : Waiting[i] \in Line
      BY <1>3, <1>5
    <3>2. /\ SubSeq(Waiting, k + 1, m) \in Seq(Line) /\ Len(SubSeq(Waiting, k + 1, m)) = m - k
          /\ \A i \in 1 .. m - k : SubSeq(Waiting, k + 1, m)[i] = Waiting[i + k]
      <4>1. /\ SubSeq(Waiting, k + 1, m) \in Seq(Line)
            /\ Len(SubSeq(Waiting, k + 1, m)) = IF k + 1 <= m THEN m - (k + 1) + 1 ELSE 0
            /\ \A i \in 1 .. m - (k + 1) + 1 : SubSeq(Waiting, k + 1, m)[i] = Waiting[(k + 1) + i - 1]
        BY <1>3, <3>1, SubSeqProperties
      <4>2. /\ m - (k + 1) + 1 = m - k /\ (IF k + 1 <= m THEN m - (k + 1) + 1 ELSE 0) = m - k
            /\ \A i \in 1 .. m - k : (k + 1) + i - 1 = i + k
        BY <1>3
      <4> QED BY <4>1, <4>2
    <3>3. ASSUME NEW i \in 1 .. m - k
          PROVE  Waiting'[i] = SubSeq(Waiting, k + 1, m)[i]
      <4>1. i \in 1 .. Wrap /\ i + Dist(t, tail) <= Wrap /\ i + k \in 1 .. m
        BY <1>3
      <4>2. Ahead(t, i) = Ahead(tail, i + k)
        BY <1>0, <4>1, InOrder, AheadFurther
      <4>3. Waiting[i + k] = ring[Slot(Ahead(tail, i + k))]
        BY <1>5, <4>1
      <4> QED BY <1>6, <3>2, <4>2, <4>3
    <3> QED BY <1>5, <1>6, <3>2, <3>3, SeqEqual
  <2> QED BY <1>2, <2>1, <2>2, <2>3 DEF Queue!Take, Taken
<1> QED BY <1>2, <1>7, <1>8

(* Every step of the ring is one of the queue or none.                     *)
LEMMA QueueStep ==
  ASSUME QueueInv, [Next]_vars
  PROVE  QueueInv' /\ [Queue!QNext]_<<Waiting, Taken>>
<1>0. RingInv /\ RingInv'
  BY StepInv DEF QueueInv
<1>1. CASE PushDrop \/ \E l \in Line : PushBegin(l)
  BY <1>0, <1>1, PushUnseen DEF QueueInv
<1>2. CASE PushPublish
  BY <1>0, <1>2, PublishIsPut DEF QueueInv, Queue!QNext
<1>3. CASE DrainBegin
  BY <1>0, <1>3, DrainBeginIsSent DEF QueueInv, Queue!QNext, Taken
<1>4. CASE DrainCopy
  BY <1>0, <1>4, DrainCopyUnseen DEF QueueInv
<1>5. CASE DrainEnd
  BY <1>0, <1>5, DrainEndIsTake DEF QueueInv, Queue!QNext, Taken
<1>6. CASE UNCHANGED vars
  <2>1. UNCHANGED <<ring, head, tail, drain, t, batch>>
    BY <1>6 DEF vars, prodVars, consVars
  <2>2. Waiting' = Waiting /\ Taken' = Taken
    BY <2>1, SameQueue DEF Taken
  <2>3. BatchIsFront'
    BY <2>1 DEF BatchIsFront, QueueInv
  <2> QED BY <1>0, <2>2, <2>3 DEF QueueInv
<1> QED BY <1>1, <1>2, <1>3, <1>4, <1>5, <1>6 DEF Next, Producer, Consumer

(* The ring of feed_avr.c, its two cursors and the batch in s_batch behave *)
(* as a bounded FIFO queue: no line that feed_avr_push accepted is lost,   *)
(* repeated, reordered or altered on its way to the socket task.  (That    *)
(* each is taken in the end is left to the model checker.)                 *)
THEOREM RingIsQueue == Spec => Queue!QSpec
<1>1. Init => QueueInv /\ Queue!QInit
  <2> SUFFICES ASSUME Init PROVE QueueInv /\ Queue!QInit
    OBVIOUS
  <2>1. RingInv /\ WaitingLines
    BY InitInv, WaitingIs
  <2>2. Dist(0, 0) = 0
    BY DEF Dist
  <2>3. Waiting = <<>>
    BY <2>1, <2>2 DEF Init, WaitingLines
  <2> QED BY <2>1, <2>3 DEF Init, QueueInv, BatchIsFront, Queue!QInit
<1>2. QueueInv /\ [Next]_vars => QueueInv' /\ [Queue!QNext]_<<Waiting, Taken>>
  BY QueueStep
<1> QED BY <1>1, <1>2, PTL DEF Spec, Queue!QSpec, Taken
=============================================================================
