-------------------------- MODULE CountingSemaphore --------------------------
(***************************************************************************)
(* What server/semaphore.c promises its only user, seats.c: a counter      *)
(* that starts at one, which sem_wait takes one from atomically, never     *)
(* below zero, and which sem_post gives one back to.                       *)
(***************************************************************************)
EXTENDS Naturals

CONSTANT Thread

VARIABLES
    free,    \* what may still be taken
    inside   \* the threads that took one and have not given it back

vars == <<free, inside>>

Init == free = 1 /\ inside = {}

P(t) ==
    /\ t \notin inside /\ free > 0
    /\ free' = free - 1
    /\ inside' = inside \cup {t}

V(t) ==
    /\ t \in inside
    /\ free' = free + 1
    /\ inside' = inside \ {t}

Next == \E t \in Thread : P(t) \/ V(t)

Spec == Init /\ [][Next]_vars
=============================================================================
