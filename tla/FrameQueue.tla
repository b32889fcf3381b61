----------------------------- MODULE FrameQueue -----------------------------
(***************************************************************************)
(* What the decoder and the socket task expect of a feed's ring: a bounded *)
(* FIFO queue.  The decoder appends a line if there is room, the socket    *)
(* task takes a batch off the front, and sends it before it takes the next.*)
(* A line that finds no room is dropped, which the queue does not notice.  *)
(***************************************************************************)
EXTENDS Naturals, Sequences

CONSTANTS Line, Capacity

VARIABLES q,     \* the lines accepted and not yet taken
          out    \* the batch taken and not yet sent

QInit == q = <<>> /\ out = <<>>

Put(l) == Len(q) < Capacity /\ q' = Append(q, l) /\ UNCHANGED out

Take == /\ out = <<>>
        /\ \E k \in 1 .. Len(q) : /\ out' = SubSeq(q, 1, k)
                                  /\ q' = SubSeq(q, k + 1, Len(q))

Sent == out # <<>> /\ out' = <<>> /\ UNCHANGED q

QNext == (\E l \in Line : Put(l)) \/ Take \/ Sent

QSpec == QInit /\ [][QNext]_<<q, out>>

(* The socket task comes round every tick.                                 *)
QFairSpec == QSpec /\ WF_<<q, out>>(Take) /\ WF_<<q, out>>(Sent)
=============================================================================
