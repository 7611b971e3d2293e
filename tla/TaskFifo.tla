------------------------------ MODULE TaskFifo ------------------------------
(***************************************************************************)
(* What the task queue promises its callers: a bounded first-in first-out  *)
(* queue that can be closed once.  A closed queue accepts nothing more but *)
(* still hands out what it accepted before.                                *)
(***************************************************************************)
EXTENDS Naturals, Sequences

CONSTANTS Tasks,      \* the tasks that may be submitted
          Capacity    \* how many of them may wait at once

VARIABLES queue,      \* the accepted tasks that no worker has taken, oldest first
          closed      \* no further task is accepted

vars == <<queue, closed>>

Init == queue = << >> /\ closed = FALSE

Accept(t) ==
    /\ ~closed
    /\ Len(queue) < Capacity
    /\ queue' = Append(queue, t)
    /\ UNCHANGED closed

Deliver ==
    /\ queue # << >>
    /\ queue' = Tail(queue)
    /\ UNCHANGED closed

Close == closed' = TRUE /\ UNCHANGED queue

Next == Deliver \/ Close \/ \E t \in Tasks : Accept(t)

Spec == Init /\ [][Next]_vars
=============================================================================
