------------------------------ MODULE Executor ------------------------------
(***************************************************************************)
(* What the thread pool is worth to its caller: a queue of tasks served    *)
(* one at a time, in the order they were submitted.  The pool has many     *)
(* workers, but its mutex is held while a task runs, so this one-server    *)
(* queue is what server/thread_pool.c implements.                          *)
(***************************************************************************)
EXTENDS Sequences

CONSTANTS Tasks, NoTask

VARIABLES
    waiting,   \* the tasks submitted and not started, oldest first
    running    \* the task that runs, or NoTask

vars == <<waiting, running>>

Init == waiting = <<>> /\ running = NoTask

Submit(t) ==
    /\ waiting' = Append(waiting, t)
    /\ UNCHANGED running

Start ==
    /\ waiting # <<>> /\ running = NoTask
    /\ running' = Head(waiting)
    /\ waiting' = Tail(waiting)

Finish ==
    /\ running # NoTask
    /\ running' = NoTask
    /\ UNCHANGED waiting

Next == (\E t \in Tasks : Submit(t)) \/ Start \/ Finish

Spec == Init /\ [][Next]_vars
=============================================================================
