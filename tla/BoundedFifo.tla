---------------------------- MODULE BoundedFifo ----------------------------
(***************************************************************************)
(* What a stage queue promises its callers (sai::pipeline::StageQueue with *)
(* a bounded capacity): frames come out in the order they went in, none is *)
(* lost, none comes out twice, and at most Capacity of them wait.  Frames  *)
(* are numbered 1, 2, 3 ... in the order in which they are accepted.       *)
(* DropOldest allows the head frame to be discarded, but only to make room *)
(* in a full queue.                                                        *)
(***************************************************************************)
EXTENDS Integers, Sequences

CONSTANTS Capacity,   \* frames the queue may hold
          MayDrop     \* TRUE for BackpressurePolicy::DropOldest

VARIABLES queue,      \* frames waiting, oldest first
          pushed,     \* number of frames accepted so far
          taken,      \* frames handed to a consumer, in order
          discarded   \* number of frames discarded to make room

vars == <<queue, pushed, taken, discarded>>

Init == /\ queue = <<>>
        /\ pushed = 0
        /\ taken = <<>>
        /\ discarded = 0

Enqueue == /\ Len(queue) < Capacity
           /\ pushed' = pushed + 1
           /\ queue' = Append(queue, pushed + 1)
           /\ UNCHANGED <<taken, discarded>>

Dequeue == /\ queue # <<>>
           /\ taken' = Append(taken, Head(queue))
           /\ queue' = Tail(queue)
           /\ UNCHANGED <<pushed, discarded>>

Discard == /\ MayDrop
           /\ Len(queue) = Capacity
           /\ queue' = Tail(queue)
           /\ discarded' = discarded + 1
           /\ UNCHANGED <<pushed, taken>>

Next == Enqueue \/ Dequeue \/ Discard

Spec == Init /\ [][Next]_vars
=============================================================================
