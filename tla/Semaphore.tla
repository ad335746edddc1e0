------------------------------ MODULE Semaphore ------------------------------
(***************************************************************************)
(* server/semaphore.c: a counter under a mutex with a condition variable,  *)
(* used as seats.c uses it (sem_wait, the critical section, sem_post).     *)
(* sem_post broadcasts, so every sleeper goes back to the mutex and tests  *)
(* the counter again; so does one that POSIX wakes without a signal.       *)
(***************************************************************************)
EXTENDS Integers, FiniteSets

CONSTANTS Thread, Nobody

ASSUME NobodyAssumption == Nobody \notin Thread

VARIABLES
    count,   \* s->count
    mutex,   \* who owns s->mutex
    pc       \* where each thread is

vars == <<count, mutex, pc>>

Idle == {"out", "critical"}
WaitPC == {"wait", "test", "asleep", "taken"}
PostPC == {"post", "increment", "broadcast", "unlock"}

TypeOK ==
    /\ count \in Nat
    /\ mutex \in Thread \cup {Nobody}
    /\ pc \in [Thread -> Idle \cup WaitPC \cup PostPC]

\* sem_init
Init ==
    /\ count = 1
    /\ mutex = Nobody
    /\ pc = [t \in Thread |-> "out"]

Goto(t, label) == pc' = [pc EXCEPT ![t] = label]
Lock(t) == mutex = Nobody /\ mutex' = t
Unlock == mutex' = Nobody

-----------------------------------------------------------------------------
CallWait(t) == pc[t] = "out" /\ Goto(t, "wait") /\ UNCHANGED <<count, mutex>>

\* pthread_mutex_lock, or pthread_cond_wait getting the mutex back.
WaitLock(t) == pc[t] = "wait" /\ Lock(t) /\ Goto(t, "test") /\ UNCHANGED count

WaitSleep(t) ==
    /\ pc[t] = "test" /\ count <= 0
    /\ Unlock
    /\ Goto(t, "asleep")
    /\ UNCHANGED count

\* Mutants: the counter is tested with >= 0; the counter is not decremented.
WaitTake_offByOne(t) ==
    /\ pc[t] = "test" /\ count >= 0
    /\ count' = count - 1
    /\ Goto(t, "taken")
    /\ UNCHANGED mutex

WaitTake_noDecrement(t) ==
    /\ pc[t] = "test" /\ count > 0
    /\ Goto(t, "taken")
    /\ UNCHANGED <<count, mutex>>

WaitTake(t) ==
    /\ pc[t] = "test" /\ count > 0
    /\ count' = count - 1
    /\ Goto(t, "taken")
    /\ UNCHANGED mutex

WaitReturns(t) == pc[t] = "taken" /\ Unlock /\ Goto(t, "critical") /\ UNCHANGED count

-----------------------------------------------------------------------------
CallPost(t) == pc[t] = "critical" /\ Goto(t, "post") /\ UNCHANGED <<count, mutex>>

PostLock(t) == pc[t] = "post" /\ Lock(t) /\ Goto(t, "increment") /\ UNCHANGED count

\* Mutant: sem_post wakes nobody.
PostIncrement_silent(t) ==
    /\ pc[t] = "increment"
    /\ count' = count + 1
    /\ Goto(t, "unlock")
    /\ UNCHANGED mutex

PostIncrement(t) ==
    /\ pc[t] = "increment"
    /\ count' = count + 1
    /\ Goto(t, "broadcast")
    /\ UNCHANGED mutex

\* Mutant: pthread_cond_signal instead of pthread_cond_broadcast.
PostBroadcast_signal(t) ==
    /\ pc[t] = "broadcast"
    /\ LET asleep == {u \in Thread : pc[u] = "asleep"}
       IN  IF asleep = {} THEN Goto(t, "unlock")
           ELSE \E u \in asleep : pc' = [pc EXCEPT ![t] = "unlock", ![u] = "wait"]
    /\ UNCHANGED <<count, mutex>>

PostBroadcast(t) ==
    /\ pc[t] = "broadcast"
    /\ pc' = [u \in Thread |-> IF u = t THEN "unlock"
                               ELSE IF pc[u] = "asleep" THEN "wait" ELSE pc[u]]
    /\ UNCHANGED <<count, mutex>>

PostReturns(t) == pc[t] = "unlock" /\ Unlock /\ Goto(t, "out") /\ UNCHANGED count

-----------------------------------------------------------------------------
Wait(t) == WaitLock(t) \/ WaitSleep(t) \/ WaitTake(t) \/ WaitReturns(t)
Post(t) == PostLock(t) \/ PostIncrement(t) \/ PostBroadcast(t) \/ PostReturns(t)

SpuriousWake(t) == pc[t] = "asleep" /\ Goto(t, "wait") /\ UNCHANGED <<count, mutex>>

Next == \E t \in Thread : \/ CallWait(t) \/ Wait(t)
                          \/ CallPost(t) \/ Post(t)
                          \/ SpuriousWake(t)

Spec == Init /\ [][Next]_vars

\* A thread inside sem_wait or sem_post runs on, and one in the critical section
\* leaves it; a thread need not come (back).  The mutex does not pass over for
\* ever the thread that wants to give a unit back, however often spurious
\* wakeups bring the others before it.
Fairness ==
    \A t \in Thread : /\ WF_vars(Wait(t)) /\ WF_vars(CallPost(t)) /\ WF_vars(Post(t))
                      /\ SF_vars(PostLock(t))

FairSpec == Spec /\ Fairness

-----------------------------------------------------------------------------
\* The threads that have one of the counter's units.
Owners == {t \in Thread : pc[t] \in {"taken", "critical", "post", "increment"}}

\* The unit the counter starts with is held by one thread or is in the counter:
\* the list of standbys that sem_wait guards in seats.c is never used by two.
MutualExclusion ==
    /\ count = IF Owners = {} THEN 1 ELSE 0
    /\ \A t, u \in Owners : t = u

\* A thread asleep while the counter is positive is about to be woken: no
\* sem_post gets its unit in and its broadcast out around a thread falling asleep.
NoSleeperForgotten ==
    (\E t \in Thread : pc[t] = "asleep") /\ count > 0
        => \E t \in Thread : pc[t] = "broadcast"

\* sem_wait and sem_post together are an atomic semaphore.
Abstract == INSTANCE CountingSemaphore WITH free <- count, inside <- Owners
ImplementsCountingSemaphore == Abstract!Spec

\* No sleeper is passed over by sem_post again and again: each one tests the
\* counter again in the end.  (It need not find a unit: another may be faster.)
EverySleeperWoken ==
    \A t \in Thread : pc[t] = "asleep" ~> pc[t] = "wait"
=============================================================================
