--------------------------- MODULE SemaphoreProofs ---------------------------
(***************************************************************************)
(* The semaphore excludes, for any set of threads, and implements the      *)
(* atomic counting semaphore that the seats rely on.  The invariant that   *)
(* carries both: who is between a lock and an unlock owns the mutex, and   *)
(* the unit the counter starts with is in one place.                       *)
(***************************************************************************)
EXTENDS Semaphore, TLAPS

\* The threads that own the mutex.
Locked == {"test", "taken", "increment", "broadcast", "unlock"}

MutexInv == \A t \in Thread : pc[t] \in Locked => mutex = t

SemInv == TypeOK /\ MutexInv /\ MutualExclusion

\* A sleeper leaves nothing to be woken for: only the owner of the mutex changes
\* the counter, and between its increment and its broadcast it keeps the mutex.
WakeInv == SemInv /\ NoSleeperForgotten

LEMMA SemInit == Init => WakeInv
  BY DEF Init, WakeInv, SemInv, TypeOK, MutexInv, Locked, MutualExclusion, Owners,
         NoSleeperForgotten, Idle, WaitPC, PostPC

\* Each step of a thread preserves the invariant.
LEMMA SemStep == SemInv /\ [Next]_vars => SemInv'
<1> SUFFICES ASSUME SemInv, [Next]_vars PROVE SemInv'
  OBVIOUS
<1> USE NobodyAssumption DEF SemInv, TypeOK, MutexInv, Locked, MutualExclusion, Owners,
        Idle, WaitPC, PostPC, Goto, Lock, Unlock
<1>1. ASSUME NEW t \in Thread, CallWait(t) \/ CallPost(t) \/ SpuriousWake(t) PROVE SemInv'
  BY <1>1 DEF CallWait, CallPost, SpuriousWake
<1>2. ASSUME NEW t \in Thread, Wait(t) PROVE SemInv'
  <2>1. CASE WaitLock(t)
    BY <2>1 DEF WaitLock
  <2>2. CASE WaitSleep(t)
    BY <2>2 DEF WaitSleep
  <2>3. CASE WaitTake(t)
    <3>1. Owners = {} /\ count = 1
      BY <2>3 DEF WaitTake
    <3>2. Owners' = {t} /\ count' = 0
      BY <2>3, <3>1 DEF WaitTake
    <3> QED
      BY <2>3, <3>2 DEF WaitTake
  <2>4. CASE WaitReturns(t)
    BY <2>4 DEF WaitReturns
  <2> QED
    BY <1>2, <2>1, <2>2, <2>3, <2>4 DEF Wait
<1>3. ASSUME NEW t \in Thread, Post(t) PROVE SemInv'
  <2>1. CASE PostLock(t)
    BY <2>1 DEF PostLock
  <2>2. CASE PostIncrement(t)
    <3>1. Owners = {t} /\ count = 0
      BY <2>2 DEF PostIncrement
    <3>2. Owners' = {} /\ count' = 1
      BY <2>2, <3>1 DEF PostIncrement
    <3> QED
      BY <2>2, <3>2 DEF PostIncrement
  <2>3. CASE PostBroadcast(t)
    BY <2>3 DEF PostBroadcast
  <2>4. CASE PostReturns(t)
    BY <2>4 DEF PostReturns
  <2> QED
    BY <1>3, <2>1, <2>2, <2>3, <2>4 DEF Post
<1>4. CASE UNCHANGED vars
  BY <1>4 DEF vars
<1> QED
  BY <1>1, <1>2, <1>3, <1>4 DEF Next

\* No step puts a thread to sleep, or leaves one asleep, beside a positive counter
\* without the broadcast still to come.
LEMMA WakeStep == WakeInv /\ [Next]_vars => NoSleeperForgotten'
<1> SUFFICES ASSUME WakeInv, [Next]_vars PROVE NoSleeperForgotten'
  OBVIOUS
<1> USE DEF WakeInv, SemInv, TypeOK, MutexInv, Locked, NoSleeperForgotten, Goto, Lock, Unlock
<1>1. ASSUME NEW t \in Thread, CallWait(t) \/ CallPost(t) \/ SpuriousWake(t)
      PROVE NoSleeperForgotten'
  BY <1>1 DEF CallWait, CallPost, SpuriousWake
<1>2. ASSUME NEW t \in Thread, Wait(t) PROVE NoSleeperForgotten'
  BY <1>2 DEF Wait, WaitLock, WaitSleep, WaitTake, WaitReturns
<1>3. ASSUME NEW t \in Thread, Post(t) PROVE NoSleeperForgotten'
  BY <1>3 DEF Post, PostLock, PostIncrement, PostBroadcast, PostReturns
<1>4. CASE UNCHANGED vars
  BY <1>4 DEF vars
<1> QED
  BY <1>1, <1>2, <1>3, <1>4 DEF Next

LEMMA SemCorrect == Spec => []WakeInv
<1>1. WakeInv /\ [Next]_vars => WakeInv'
  BY SemStep, WakeStep DEF WakeInv
<1> QED
  BY SemInit, <1>1, PTL DEF Spec

\* The types of the semaphore, the counter never below zero among them.
THEOREM SemTypes == Spec => []TypeOK
  BY SemCorrect, PTL DEF WakeInv, SemInv

\* Between sem_wait and sem_post there is never more than one thread.
THEOREM SemExcludes == Spec => []MutualExclusion
  BY SemCorrect, PTL DEF WakeInv, SemInv

\* No thread sleeps beside a positive counter with no broadcast to come.
THEOREM SemForgetsNobody == Spec => []NoSleeperForgotten
  BY SemCorrect, PTL DEF WakeInv

\* sem_wait and sem_post, with all the steps they are made of, are one atomic
\* step each of a counting semaphore.
THEOREM SemRefines == Spec => ImplementsCountingSemaphore
<1>1. Init => Abstract!Init
  BY DEF Init, Abstract!Init, Owners
<1>2. SemInv /\ [Next]_vars => [Abstract!Next]_(Abstract!vars)
  <2> SUFFICES ASSUME SemInv, [Next]_vars, ~(UNCHANGED Abstract!vars) PROVE Abstract!Next
    OBVIOUS
  <2> USE DEF SemInv, TypeOK, Owners, Goto, Abstract!vars
  <2>1. ASSUME NEW t \in Thread, CallWait(t) \/ CallPost(t) \/ SpuriousWake(t) PROVE FALSE
    BY <2>1 DEF CallWait, CallPost, SpuriousWake
  <2>2. ASSUME NEW t \in Thread, WaitLock(t) \/ WaitSleep(t) \/ WaitReturns(t) PROVE FALSE
    BY <2>2 DEF WaitLock, WaitSleep, WaitReturns
  <2>3. ASSUME NEW t \in Thread, PostLock(t) \/ PostBroadcast(t) \/ PostReturns(t) PROVE FALSE
    BY <2>3 DEF PostLock, PostBroadcast, PostReturns
  <2>4. ASSUME NEW t \in Thread, WaitTake(t) PROVE Abstract!P(t)
    BY <2>4 DEF WaitTake, Abstract!P
  <2>5. ASSUME NEW t \in Thread, PostIncrement(t) PROVE Abstract!V(t)
    BY <2>5 DEF PostIncrement, Abstract!V
  <2>6. CASE UNCHANGED vars
    BY <2>6 DEF vars
  <2> QED
    BY <2>1, <2>2, <2>3, <2>4, <2>5, <2>6 DEF Next, Wait, Post, Abstract!Next
<1> QED
  BY <1>1, <1>2, SemCorrect, PTL DEF Spec, WakeInv, ImplementsCountingSemaphore, Abstract!Spec
=============================================================================
