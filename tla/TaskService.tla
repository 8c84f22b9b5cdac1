----------------------------- MODULE TaskService -----------------------------
(***************************************************************************)
(* What ThreadPool promises its callers: tasks are numbered in the order    *)
(* enqueue accepts them, they start in that order, each runs once, and the  *)
(* destructor returns only when every accepted task has run.                *)
(***************************************************************************)
EXTENDS Naturals

CONSTANT MaxTasks   \* bound: tasks accepted in a behaviour

VARIABLES
    accepted,   \* how many tasks were accepted
    started,    \* how many of them were started
    finished,   \* the tasks that ran to their end
    closing,    \* the destructor has begun
    closed      \* the destructor has returned

vars == <<accepted, started, finished, closing, closed>>

Init ==
    /\ accepted = 0
    /\ started = 0
    /\ finished = {}
    /\ closing = FALSE
    /\ closed = FALSE

Accept ==
    /\ ~closing
    /\ accepted < MaxTasks
    /\ accepted' = accepted + 1
    /\ UNCHANGED <<started, finished, closing, closed>>

Start ==
    /\ ~closed
    /\ started < accepted
    /\ started' = started + 1
    /\ UNCHANGED <<accepted, finished, closing, closed>>

Finish(k) ==
    /\ ~closed
    /\ k \in 1..started
    /\ k \notin finished
    /\ finished' = finished \cup {k}
    /\ UNCHANGED <<accepted, started, closing, closed>>

BeginClose ==
    /\ ~closing
    /\ closing' = TRUE
    /\ UNCHANGED <<accepted, started, finished, closed>>

EndClose ==
    /\ closing
    /\ ~closed
    /\ finished = 1..accepted
    /\ closed' = TRUE
    /\ UNCHANGED <<accepted, started, finished, closing>>

Next == Accept \/ Start \/ (\E k \in 1..started : Finish(k))
            \/ BeginClose \/ EndClose

Spec == Init /\ [][Next]_vars
=============================================================================
