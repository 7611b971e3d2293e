---------------------------- MODULE MCTaskQueue -----------------------------
(***************************************************************************)
(* Instances of TaskQueue for TLC: t1 .. t4 are submitted by the event     *)
(* loop; t1 and t2 may submit c1 and c2 while they run.                    *)
(***************************************************************************)
EXTENDS TaskQueue

CONSTANTS t1, t2, t3, t4, c1, c2

\* One task resubmits: fewer resubmitting tasks than workers.
OneChild ==
    [t \in Tasks |-> CASE t = t1 -> c1 [] OTHER -> NoTask]

\* As many resubmitting tasks as there are workers.
TwoChildren ==
    [t \in Tasks |-> CASE t = t1 -> c1 [] t = t2 -> c2 [] OTHER -> NoTask]
=============================================================================
