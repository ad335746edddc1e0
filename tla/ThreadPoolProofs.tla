-------------------------- MODULE ThreadPoolProofs --------------------------
(***************************************************************************)
(* What holds of the thread pool for every number of workers, connections  *)
(* and slots: the typing of its state, the serialization of the handlers,  *)
(* the join before the free, and that no wakeup is lost while it serves.   *)
(* The argument is the inductive invariant IInv of ThreadPool, whose parts *)
(* are proved one after the other.                                         *)
(*                                                                         *)
(* Then the circular array as a queue: with fewer connections than slots   *)
(* no task is lost, taken twice or overtaken, and the pool implements the  *)
(* one-server queue of Executor.  q_start, q_end and the slots between     *)
(* them are looked at through Fifo: one section says what the two          *)
(* operations on the array do to it, and nothing after that section        *)
(* mentions an index again.                                                *)
(***************************************************************************)
EXTENDS ThreadPool, FiniteSetTheorems, SequenceTheorems, TLAPS

\* The circular array's successor of a slot is a slot.
LEMMA SuccIsSlot == \A s \in Slots : Succ(s) \in Slots
  BY QueueAssumption DEF Slots, Succ

-----------------------------------------------------------------------------
(* Typing.                                                                 *)

\* The initial state is well typed.
LEMMA TypeInit == Init => TypeOK
<1> SUFFICES ASSUME Init PROVE TypeOK
  OBVIOUS
<1> USE DEF Init
<1>1. queue \in [Slots -> Conns \cup {NoConn}] /\ q_start \in Slots /\ q_end \in Slots
  BY QueueAssumption DEF Slots
<1>2. pc \in [Workers -> WorkerPC]
  BY DEF WorkerPC
<1>3. i \in 1..(MAX_THREADS + 1)
  BY ThreadsAssumption
<1>4. mpc \in Serving \cup Destroying \cup {"create", "exited", "crashed"}
  OBVIOUS
<1>5. conn \in [Conns -> {"none", "pending", "held", "queued", "served"}]
  OBVIOUS
<1> QED
  BY <1>1, <1>2, <1>3, <1>4, <1>5 DEF TypeOK

\* Every step of the main thread preserves the typing.
LEMMA TypeMain == ASSUME TypeOK, Create \/ AddTask \/ Destroy \/ SigintBeforePool \/ Sigint
                  PROVE  TypeOK'
<1> USE ThreadsAssumption DEF TypeOK, pool, WorkerPC, Serving, Destroying
<1>1. CASE CreateThread
  BY <1>1 DEF CreateThread, Workers
<1>2. CASE CreateReturns
  BY <1>2 DEF CreateReturns
<1>3. CASE AddLock
  BY <1>3 DEF AddLock
<1>4. CASE AddEnqueue
  BY <1>4, SuccIsSlot DEF AddEnqueue
<1>5. CASE AddSignal
  BY <1>5 DEF AddSignal, Sleepers
<1>6. CASE AddUnlock
  BY <1>6 DEF AddUnlock
<1>7. CASE SigintBeforePool \/ Sigint
  BY <1>7 DEF SigintBeforePool, Sigint
<1>8. CASE SetFlag
  BY <1>8 DEF SetFlag
<1>9. CASE Broadcast
  BY <1>9 DEF Broadcast, Sleepers
<1>10. CASE Join
  BY <1>10 DEF Join, Workers
<1>11. CASE JoinsReturn
  BY <1>11 DEF JoinsReturn
<1>12. CASE Free \/ UnloadAndExit
  BY <1>12 DEF Free, UnloadAndExit
<1> QED
  BY <1>1, <1>2, <1>3, <1>4, <1>5, <1>6, <1>7, <1>8, <1>9, <1>10, <1>11, <1>12
  DEF Create, AddTask, Destroy

\* Every step of a worker preserves the typing.
LEMMA TypeWorker == ASSUME TypeOK, NEW w \in Workers, Worker(w) PROVE TypeOK'
<1> USE DEF TypeOK, pool, WorkerPC, Holding
<1>1. CASE WorkerLock(w)
  BY <1>1 DEF WorkerLock
<1>2. CASE WorkerWait(w)
  BY <1>2 DEF WorkerWait
<1>3. CASE WorkerSleep(w)
  BY <1>3 DEF WorkerSleep
<1>4. CASE WorkerExit(w)
  BY <1>4 DEF WorkerExit
<1>5. CASE WorkerTake(w)
  BY <1>5, SuccIsSlot DEF WorkerTake
<1>6. CASE WorkerFinish(w)
  BY <1>6 DEF WorkerFinish
<1>7. CASE WorkerUnlock(w)
  BY <1>7 DEF WorkerUnlock
<1> QED
  BY <1>1, <1>2, <1>3, <1>4, <1>5, <1>6, <1>7 DEF Worker

\* Every step preserves the typing.
LEMMA TypeNext == TypeOK /\ [Next]_vars => TypeOK'
<1> SUFFICES ASSUME TypeOK, [Next]_vars PROVE TypeOK'
  OBVIOUS
<1>1. CASE Create \/ AddTask \/ Destroy \/ SigintBeforePool \/ Sigint
  BY <1>1, TypeMain
<1>2. CASE \E c \in Conns : Connect(c) \/ Accept(c)
  BY <1>2 DEF Connect, Accept, TypeOK, pool, Serving
<1>3. CASE \E w \in Workers : Worker(w)
  BY <1>3, TypeWorker
<1>4. CASE \E w \in Workers : SpuriousWake(w)
  BY <1>4 DEF SpuriousWake, TypeOK, pool, WorkerPC
<1>5. CASE UNCHANGED vars
  BY <1>5 DEF vars, TypeOK
<1> QED
  BY <1>1, <1>2, <1>3, <1>4, <1>5 DEF Next

\* TypeOK holds for every pool: the types of ThreadPool are those of the code's
\* variables however many workers, slots and connections there are.
THEOREM TypeCorrect == Spec => []TypeOK
  BY TypeInit, TypeNext, PTL DEF Spec

-----------------------------------------------------------------------------
(* Who is between a lock and its unlock owns the mutex.                    *)

LEMMA LockInit == Init => LockInv
  BY DEF Init, LockInv, Holding

LEMMA LockNext == TypeOK /\ LockInv /\ [Next]_vars => LockInv'
<1> SUFFICES ASSUME TypeOK, LockInv, [Next]_vars PROVE LockInv'
  OBVIOUS
<1> USE NamesAssumption DEF TypeOK, LockInv, Holding
<1>1. CASE Create
  BY <1>1 DEF Create, CreateThread, CreateReturns
<1>2. CASE AddTask
  <2>1. CASE AddLock
    BY <2>1 DEF AddLock
  <2>2. CASE AddEnqueue
    BY <2>2 DEF AddEnqueue
  <2>3. CASE AddSignal
    BY <2>3 DEF AddSignal, Sleepers
  <2>4. CASE AddUnlock
    BY <2>4 DEF AddUnlock
  <2> QED
    BY <1>2, <2>1, <2>2, <2>3, <2>4 DEF AddTask
<1>3. CASE Destroy
  BY <1>3 DEF Destroy, SetFlag, Broadcast, Join, JoinsReturn, Free, UnloadAndExit, Sleepers
<1>4. CASE SigintBeforePool \/ Sigint
  BY <1>4 DEF SigintBeforePool, Sigint
<1>5. CASE \E c \in Conns : Connect(c) \/ Accept(c)
  BY <1>5 DEF Connect, Accept
<1>6. ASSUME NEW w \in Workers, Worker(w) PROVE LockInv'
  <2>1. CASE WorkerLock(w)
    BY <2>1 DEF WorkerLock
  <2>2. CASE WorkerWait(w)
    BY <2>2 DEF WorkerWait
  <2>3. CASE WorkerSleep(w)
    BY <2>3 DEF WorkerSleep
  <2>4. CASE WorkerExit(w)
    BY <2>4 DEF WorkerExit
  <2>5. CASE WorkerTake(w)
    BY <2>5 DEF WorkerTake
  <2>6. CASE WorkerFinish(w)
    BY <2>6 DEF WorkerFinish
  <2>7. CASE WorkerUnlock(w)
    BY <2>7 DEF WorkerUnlock
  <2> QED
    BY <1>6, <2>1, <2>2, <2>3, <2>4, <2>5, <2>6, <2>7 DEF Worker
<1>7. CASE \E w \in Workers : SpuriousWake(w)
  BY <1>7 DEF SpuriousWake
<1>8. CASE UNCHANGED vars
  BY <1>8 DEF vars
<1> QED
  BY <1>1, <1>2, <1>3, <1>4, <1>5, <1>6, <1>7, <1>8 DEF Next

LEMMA LockCorrect == Spec => []LockInv
  BY TypeInit, TypeNext, LockInit, LockNext, PTL DEF Spec

\* No two handlers ever run at once, though each has a thread of its own: the
\* worker that runs one owns the pool's mutex.
THEOREM Serialized == Spec => []HandlersSerialized
<1>1. LockInv => HandlersSerialized
  BY DEF LockInv, HandlersSerialized, Holding
<1> QED
  BY <1>1, LockCorrect, PTL

-----------------------------------------------------------------------------
(* Creating and joining: which workers exist and which have exited.        *)

LEMMA LoopInit == Init => LoopInv
  BY ThreadsAssumption DEF Init, LoopInv, Born, Workers, Serving

LEMMA LoopNext == TypeOK /\ LoopInv /\ [Next]_vars => LoopInv'
<1> SUFFICES ASSUME TypeOK, LoopInv, [Next]_vars PROVE LoopInv'
  OBVIOUS
<1> USE ThreadsAssumption DEF TypeOK, LoopInv, Born, pool, Serving, Destroying, WorkerPC, Holding, Workers
<1>1. CASE CreateThread
  BY <1>1 DEF CreateThread
<1>2. CASE CreateReturns
  BY <1>2 DEF CreateReturns
<1>3. CASE AddTask
  <2>1. CASE AddLock
    BY <2>1 DEF AddLock
  <2>2. CASE AddEnqueue
    BY <2>2 DEF AddEnqueue
  <2>3. CASE AddSignal
    BY <2>3 DEF AddSignal, Sleepers
  <2>4. CASE AddUnlock
    BY <2>4 DEF AddUnlock
  <2> QED
    BY <1>3, <2>1, <2>2, <2>3, <2>4 DEF AddTask
<1>4. CASE Destroy
  <2>1. CASE SetFlag
    BY <2>1 DEF SetFlag
  <2>2. CASE Broadcast
    BY <2>2 DEF Broadcast, Sleepers
  <2>3. CASE Join
    BY <2>3 DEF Join
  <2>4. CASE JoinsReturn
    BY <2>4 DEF JoinsReturn
  <2>5. CASE Free \/ UnloadAndExit
    BY <2>5 DEF Free, UnloadAndExit
  <2> QED
    BY <1>4, <2>1, <2>2, <2>3, <2>4, <2>5 DEF Destroy
<1>5. CASE SigintBeforePool \/ Sigint
  BY <1>5 DEF SigintBeforePool, Sigint
<1>6. CASE \E c \in Conns : Connect(c) \/ Accept(c)
  BY <1>6 DEF Connect, Accept
<1>7. ASSUME NEW w \in Workers, Worker(w) PROVE LoopInv'
  <2>1. CASE WorkerLock(w)
    BY <2>1 DEF WorkerLock
  <2>2. CASE WorkerWait(w)
    BY <2>2 DEF WorkerWait
  <2>3. CASE WorkerSleep(w)
    BY <2>3 DEF WorkerSleep
  <2>4. CASE WorkerExit(w)
    BY <2>4 DEF WorkerExit
  <2>5. CASE WorkerTake(w)
    BY <2>5 DEF WorkerTake
  <2>6. CASE WorkerFinish(w)
    BY <2>6 DEF WorkerFinish
  <2>7. CASE WorkerUnlock(w)
    BY <2>7 DEF WorkerUnlock
  <2> QED
    BY <1>7, <2>1, <2>2, <2>3, <2>4, <2>5, <2>6, <2>7 DEF Worker
<1>8. CASE \E w \in Workers : SpuriousWake(w)
  BY <1>8 DEF SpuriousWake
<1>9. CASE UNCHANGED vars
  BY <1>9 DEF vars
<1> QED
  BY <1>1, <1>2, <1>3, <1>4, <1>5, <1>6, <1>7, <1>8, <1>9 DEF Next, Create

LEMMA LoopCorrect == Spec => []LoopInv
  BY TypeInit, TypeNext, LoopInit, LoopNext, PTL DEF Spec

\* When pool_destroy frees the pool no worker is left that could touch it: each
\* has been joined, and there are no others.
THEOREM DestroySafe == Spec => []NoUseAfterDestroy
<1>1. TypeOK /\ LoopInv => NoUseAfterDestroy
  BY DEF TypeOK, LoopInv, NoUseAfterDestroy, Born, Workers
<1> QED
  BY <1>1, TypeCorrect, LoopCorrect, PTL

-----------------------------------------------------------------------------
(* The wakeup.                                                             *)

LEMMA WaitInit == Init => WaitInv
  BY DEF Init, WaitInv

\* Only the owner of the mutex changes the array, so what a worker between its
\* test and pthread_cond_wait has seen stays true.
LEMMA WaitNext == TypeOK /\ LockInv /\ WaitInv /\ [Next]_vars => WaitInv'
<1> SUFFICES ASSUME TypeOK, LockInv, WaitInv, [Next]_vars PROVE WaitInv'
  OBVIOUS
<1> USE NamesAssumption DEF TypeOK, LockInv, WaitInv, pool, Serving, Holding
<1>1. CASE Create
  BY <1>1 DEF Create, CreateThread, CreateReturns
<1>2. CASE AddTask
  <2>1. CASE AddLock
    BY <2>1 DEF AddLock
  <2>2. CASE AddEnqueue
    BY <2>2 DEF AddEnqueue
  <2>3. CASE AddSignal
    BY <2>3 DEF AddSignal, Sleepers
  <2>4. CASE AddUnlock
    BY <2>4 DEF AddUnlock
  <2> QED
    BY <1>2, <2>1, <2>2, <2>3, <2>4 DEF AddTask
<1>3. CASE Destroy
  BY <1>3 DEF Destroy, SetFlag, Broadcast, Join, JoinsReturn, Free, UnloadAndExit, Sleepers
<1>4. CASE SigintBeforePool \/ Sigint
  BY <1>4 DEF SigintBeforePool, Sigint
<1>5. CASE \E c \in Conns : Connect(c) \/ Accept(c)
  BY <1>5 DEF Connect, Accept
<1>6. ASSUME NEW w \in Workers, Worker(w) PROVE WaitInv'
  <2>1. CASE WorkerLock(w)
    BY <2>1 DEF WorkerLock
  <2>2. CASE WorkerWait(w)
    BY <2>2 DEF WorkerWait
  <2>3. CASE WorkerSleep(w)
    BY <2>3 DEF WorkerSleep
  <2>4. CASE WorkerExit(w)
    BY <2>4 DEF WorkerExit
  <2>5. CASE WorkerTake(w)
    BY <2>5 DEF WorkerTake
  <2>6. CASE WorkerFinish(w)
    BY <2>6 DEF WorkerFinish
  <2>7. CASE WorkerUnlock(w)
    BY <2>7 DEF WorkerUnlock
  <2> QED
    BY <1>6, <2>1, <2>2, <2>3, <2>4, <2>5, <2>6, <2>7 DEF Worker
<1>7. CASE \E w \in Workers : SpuriousWake(w)
  BY <1>7 DEF SpuriousWake
<1>8. CASE UNCHANGED vars
  BY <1>8 DEF vars, pool
<1> QED
  BY <1>1, <1>2, <1>3, <1>4, <1>5, <1>6, <1>7, <1>8 DEF Next

LEMMA WaitCorrect == Spec => []WaitInv
  BY TypeInit, TypeNext, LockInit, LockNext, WaitInit, WaitNext, PTL DEF Spec

LEMMA WakeupInit == Init => NoLostWakeup
  BY DEF Init, NoLostWakeup

\* The hard steps are the signal that finds nobody asleep (then worker 1, which
\* exists and has not exited, is awake) and the step that makes a worker sleep
\* (which WaitInv allows only when the array is empty).
LEMMA WakeupNext ==
    TypeOK /\ LockInv /\ LoopInv /\ WaitInv /\ NoLostWakeup /\ [Next]_vars => NoLostWakeup'
<1> SUFFICES ASSUME TypeOK, LockInv, LoopInv, WaitInv, NoLostWakeup, [Next]_vars
             PROVE  NoLostWakeup'
  OBVIOUS
<1> DEFINE Awake(w) == pc[w] \in Holding \cup {"lock"}
<1> USE NamesAssumption DEF TypeOK, NoLostWakeup, pool, Serving
<1>1. CASE Create
  BY <1>1 DEF Create, CreateThread, CreateReturns, WaitInv
<1>2. CASE AddTask
  <2>1. CASE AddLock \/ AddEnqueue
    BY <2>1 DEF AddLock, AddEnqueue
  <2>2. CASE AddSignal /\ Sleepers = {}
    <3>1. 1 \in Workers /\ 1 <= thread_count
      BY ThreadsAssumption DEF Workers
    <3>2. pc[1] \in WorkerPC /\ pc[1] # "unborn" /\ pc[1] # "exited"
      BY <2>2, <3>1 DEF AddSignal, LoopInv, Born
    <3>3. pc[1] # "sleep"
      BY <2>2, <3>1 DEF Sleepers
    <3> QED
      BY <2>2, <3>1, <3>2, <3>3 DEF AddSignal, WorkerPC
  <2>3. CASE AddSignal /\ Sleepers # {}
    BY <2>3 DEF AddSignal, Sleepers
  <2>4. CASE AddUnlock
    BY <2>4 DEF AddUnlock
  <2> QED
    BY <1>2, <2>1, <2>2, <2>3, <2>4 DEF AddTask
<1>3. CASE Destroy \/ SigintBeforePool \/ Sigint
  BY <1>3 DEF Destroy, SetFlag, Broadcast, Join, JoinsReturn, Free, UnloadAndExit,
              SigintBeforePool, Sigint
<1>4. CASE \E c \in Conns : Connect(c) \/ Accept(c)
  BY <1>4 DEF Connect, Accept
<1>5. ASSUME NEW w \in Workers, Worker(w) PROVE NoLostWakeup'
  <2>1. CASE WorkerSleep(w)
    BY <2>1 DEF WorkerSleep, WaitInv
  <2>2. CASE WorkerExit(w)
    BY <2>2 DEF WorkerExit, LoopInv
  <2>3. CASE Awake(w)' /\ ~WorkerSleep(w) /\ ~WorkerExit(w)
    BY <2>3
  <2>4. ~WorkerSleep(w) /\ ~WorkerExit(w) => Awake(w)'
    BY <1>5 DEF Worker, WorkerLock, WorkerWait, WorkerTake, WorkerFinish, WorkerUnlock, Holding
  <2> QED
    BY <2>1, <2>2, <2>3, <2>4
<1>6. CASE \E w \in Workers : SpuriousWake(w)
  BY <1>6 DEF SpuriousWake
<1>7. CASE UNCHANGED vars
  BY <1>7 DEF vars
<1> QED
  BY <1>1, <1>2, <1>3, <1>4, <1>5, <1>6, <1>7 DEF Next

\* While the server serves, a connection in the array always has a worker awake
\* for it or a signal on its way: pthread_cond_signal is called with the mutex
\* held, so none of its calls falls between a worker's test and its sleep.
THEOREM WakeupKept == Spec => []NoLostWakeup
  BY TypeInit, TypeNext, LockInit, LockNext, LoopInit, LoopNext, WaitInit, WaitNext,
     WakeupInit, WakeupNext, PTL DEF Spec

-----------------------------------------------------------------------------
(* Indices of the circular array.                                          *)

\* An index below the size stays, one beyond it wraps once.
LEMMA Wrapped ==
    ASSUME NEW a \in Nat, a < 2 * QueueSize
    PROVE  a % QueueSize = IF a < QueueSize THEN a ELSE a - QueueSize
<1>1. CASE a < QueueSize
  BY <1>1, QueueAssumption
<1>2. CASE ~(a < QueueSize)
  BY <1>2, QueueAssumption
<1> QED
  BY <1>1, <1>2, QueueAssumption

\* The slot of the n-th task of a queue that starts at slot s.
SlotOf(s, n) == (s + n - 1) % QueueSize

\* It is a slot: the n-th from s on, counted around the array.
LEMMA SlotValue ==
    \A s \in Slots, n \in 1..QueueSize :
        /\ SlotOf(s, n) = IF s + n - 1 < QueueSize THEN s + n - 1 ELSE s + n - 1 - QueueSize
        /\ SlotOf(s, n) \in Slots
<1> SUFFICES ASSUME NEW s \in Slots, NEW n \in 1..QueueSize
             PROVE  /\ SlotOf(s, n) = IF s + n - 1 < QueueSize THEN s + n - 1 ELSE s + n - 1 - QueueSize
                    /\ SlotOf(s, n) \in Slots
  OBVIOUS
<1> DEFINE a == s + n - 1
<1>1. a \in Nat /\ a < 2 * QueueSize
  BY QueueAssumption DEF Slots
<1> HIDE DEF a
<1>2. a % QueueSize = IF a < QueueSize THEN a ELSE a - QueueSize
  BY <1>1, Wrapped
<1> QED
  BY <1>1, <1>2, QueueAssumption DEF a, SlotOf, Slots

\* Succ is the slot of the second task, and the first is where the queue starts.
LEMMA SuccValue ==
    \A s \in Slots : /\ Succ(s) = IF s + 1 < QueueSize THEN s + 1 ELSE s + 1 - QueueSize
                     /\ SlotOf(s, 1) = s
<1> SUFFICES ASSUME NEW s \in Slots
             PROVE  /\ Succ(s) = IF s + 1 < QueueSize THEN s + 1 ELSE s + 1 - QueueSize
                    /\ SlotOf(s, 1) = s
  OBVIOUS
<1>1. s \in Nat /\ s < QueueSize /\ 1 \in 1..QueueSize /\ s + 1 - 1 = s
  BY QueueAssumption DEF Slots
<1>2. SlotOf(s, 1) = s
  BY <1>1, SlotValue
<1>3. Succ(s) = IF s + 1 < QueueSize THEN s + 1 ELSE s + 1 - QueueSize
  <2> DEFINE a == s + 1
  <2>1. CASE a < 2 * QueueSize
    <3>1. a \in Nat
      BY <1>1
    <3> HIDE DEF a
    <3>2. a % QueueSize = IF a < QueueSize THEN a ELSE a - QueueSize
      BY <2>1, <3>1, Wrapped
    <3> QED
      BY <1>1, <3>2, QueueAssumption DEF a, Succ
  <2>2. CASE a = 2 * QueueSize
    BY <1>1, <2>2, QueueAssumption
  <2> QED
    BY <1>1, <2>1, <2>2, QueueAssumption
<1> QED
  BY <1>2, <1>3

\* Two positions of the queue are two slots.
LEMMA SlotsDiffer ==
    \A s \in Slots : \A m, n \in 1..QueueSize : SlotOf(s, m) = SlotOf(s, n) => m = n
<1> SUFFICES ASSUME NEW s \in Slots, NEW m \in 1..QueueSize, NEW n \in 1..QueueSize
             PROVE  SlotOf(s, m) = SlotOf(s, n) => m = n
  OBVIOUS
<1>1. /\ SlotOf(s, m) = IF s + m - 1 < QueueSize THEN s + m - 1 ELSE s + m - 1 - QueueSize
      /\ SlotOf(s, n) = IF s + n - 1 < QueueSize THEN s + n - 1 ELSE s + n - 1 - QueueSize
  BY SlotValue
<1>2. s \in Nat /\ m \in Nat /\ n \in Nat /\ m <= QueueSize /\ n <= QueueSize /\ m > 0 /\ n > 0
  BY QueueAssumption DEF Slots
<1> QED
  BY <1>1, <1>2, QueueAssumption

\* The n-th task of the queue is the one before it after the first is taken.
LEMMA SlotShift ==
    \A s \in Slots, n \in 1..(QueueSize - 1) : SlotOf(Succ(s), n) = SlotOf(s, n + 1)
<1> SUFFICES ASSUME NEW s \in Slots, NEW n \in 1..(QueueSize - 1)
             PROVE  SlotOf(Succ(s), n) = SlotOf(s, n + 1)
  OBVIOUS
<1>1. n \in 1..QueueSize /\ n + 1 \in 1..QueueSize /\ Succ(s) \in Slots
  BY SuccIsSlot, QueueAssumption
<1> DEFINE m == n + 1
<1>2. SlotOf(s, m) = IF s + m - 1 < QueueSize THEN s + m - 1 ELSE s + m - 1 - QueueSize
  <2> HIDE DEF m
  <2> QED
    BY <1>1, SlotValue DEF m
<1>3. SlotOf(Succ(s), n) = IF Succ(s) + n - 1 < QueueSize THEN Succ(s) + n - 1 ELSE Succ(s) + n - 1 - QueueSize
  BY <1>1, SlotValue
<1> QED
  BY <1>1, <1>2, <1>3, SuccValue, QueueAssumption DEF Slots

\* There are fewer waiting tasks than slots, and q_end is where the next one goes.
LEMMA PendingRange ==
    ASSUME TypeOK
    PROVE  Pending \in 0..(QueueSize - 1) /\ SlotOf(q_start, Pending + 1) = q_end
<1>1. Pending \in 0..(QueueSize - 1)
  BY QueueAssumption DEF TypeOK, Slots, Pending
<1> DEFINE n == Pending + 1
<1>2. n \in 1..QueueSize
  BY <1>1, QueueAssumption
<1>3. SlotOf(q_start, n) = IF q_start + n - 1 < QueueSize THEN q_start + n - 1 ELSE q_start + n - 1 - QueueSize
  <2> HIDE DEF n
  <2> QED
    BY <1>2, SlotValue DEF TypeOK
<1> QED
  BY <1>1, <1>3, QueueAssumption DEF TypeOK, Slots, Pending

\* Fifo is a sequence of what the slots from q_start on hold.
LEMMA FifoIsSeq ==
    ASSUME TypeOK
    PROVE  /\ Len(Fifo) = Pending /\ Fifo \in Seq(Conns \cup {NoConn})
           /\ Fifo = [n \in 1..Pending |-> queue[SlotOf(q_start, n)]]
<1>1. Pending \in Nat /\ Pending < QueueSize
  BY PendingRange, QueueAssumption
<1>2. \A n \in 1..Pending : queue[SlotOf(q_start, n)] \in Conns \cup {NoConn}
  BY <1>1, SlotValue, QueueAssumption DEF TypeOK
<1>3. Fifo = [n \in 1..Pending |-> queue[SlotOf(q_start, n)]]
  BY DEF Fifo, SlotOf
<1>4. Fifo \in [1..Pending -> Conns \cup {NoConn}]
  BY <1>2, <1>3
<1> QED
  BY <1>1, <1>3, <1>4

\* pool_add_task appends, as long as the array does not become full.
LEMMA FifoAppend ==
    ASSUME TypeOK, AddEnqueue, Pending < QueueSize - 1
    PROVE  Fifo' = Append(Fifo, marg)
<1> DEFINE S == Conns \cup {NoConn}
<1>1. q_start' = q_start /\ q_end' = Succ(q_end) /\ queue' = [queue EXCEPT ![q_end] = marg]
  BY DEF AddEnqueue
<1>2. q_start \in Slots /\ q_end \in Slots /\ queue \in [Slots -> Conns \cup {NoConn}]
  BY DEF TypeOK
<1>3. Pending' = Pending + 1
  BY <1>1, <1>2, SuccValue, QueueAssumption DEF Slots, Pending
<1>4. Pending \in Nat /\ Pending + 1 \in 1..QueueSize
  BY PendingRange, QueueAssumption
<1>5. Fifo' = [n \in 1..(Pending + 1) |-> queue'[SlotOf(q_start, n)]]
  BY <1>1, <1>3 DEF Fifo, SlotOf
<1>6. ASSUME NEW n \in 1..(Pending + 1)
      PROVE  queue'[SlotOf(q_start, n)] = IF n <= Pending THEN Fifo[n] ELSE marg
  <2>1. CASE n <= Pending
    <3>1. n \in 1..QueueSize /\ n # Pending + 1 /\ n \in 1..Pending
      BY <1>4, <2>1, QueueAssumption
    <3>2. SlotOf(q_start, n) # q_end
      BY <1>2, <1>4, <3>1, SlotsDiffer, PendingRange
    <3> QED
      BY <1>1, <1>2, <2>1, <3>1, <3>2, SlotValue, FifoIsSeq
  <2>2. CASE n = Pending + 1
    BY <1>1, <1>2, <1>4, <2>2, PendingRange
  <2> QED
    BY <1>4, <2>1, <2>2
<1>7. marg \in S /\ Fifo \in Seq(S) /\ Len(Fifo) = Pending
  BY FifoIsSeq DEF TypeOK
<1>8. /\ Append(Fifo, marg) \in Seq(S) /\ Len(Append(Fifo, marg)) = Pending + 1
      /\ \A n \in 1..(Pending + 1) : Append(Fifo, marg)[n] = IF n <= Pending THEN Fifo[n] ELSE marg
  BY <1>7, AppendProperties
<1>9. Fifo' \in Seq(S) /\ Len(Fifo') = Pending + 1
  <2>1. \A n \in 1..(Pending + 1) : queue'[SlotOf(q_start, n)] \in S
    BY <1>4, <1>6, <1>7
  <2> QED
    BY <1>4, <1>5, <2>1
<1>10. \A n \in 1..Len(Fifo') : Fifo'[n] = Append(Fifo, marg)[n]
  BY <1>5, <1>6, <1>8, <1>9
<1> HIDE DEF S
<1> QED
  BY <1>8, <1>9, <1>10, SeqEqual

\* A worker that finds the array non-empty takes the oldest task.
LEMMA FifoTail ==
    ASSUME TypeOK, NEW w \in Workers, WorkerTake(w)
    PROVE  /\ Fifo # <<>> /\ queue[q_start] = Head(Fifo) /\ Head(Fifo) = Fifo[1]
           /\ Fifo' = Tail(Fifo)
<1> DEFINE S == Conns \cup {NoConn}
<1>1. q_start' = Succ(q_start) /\ q_end' = q_end /\ queue' = queue /\ q_start # q_end
  BY DEF WorkerTake
<1>2. q_start \in Slots /\ q_end \in Slots
  BY DEF TypeOK
<1>3. Pending \in Nat /\ Pending > 0 /\ Pending < QueueSize /\ Pending' = Pending - 1
  BY <1>1, <1>2, SuccValue, QueueAssumption DEF Slots, Pending
<1>4. Fifo # <<>> /\ 1 \in 1..Pending
  BY <1>3, FifoIsSeq
<1>5. queue[q_start] = Fifo[1]
  BY <1>2, <1>4, FifoIsSeq, SuccValue
<1>6. Fifo' = [n \in 1..(Pending - 1) |-> queue[SlotOf(Succ(q_start), n)]]
  BY <1>1, <1>3 DEF Fifo, SlotOf
<1>7. ASSUME NEW n \in 1..(Pending - 1)
      PROVE  queue[SlotOf(Succ(q_start), n)] = Fifo[n + 1]
  <2>1. n \in 1..(QueueSize - 1) /\ n + 1 \in 1..Pending
    BY <1>3, QueueAssumption
  <2>2. SlotOf(Succ(q_start), n) = SlotOf(q_start, n + 1)
    BY <1>2, <2>1, SlotShift
  <2> QED
    BY <2>1, <2>2, FifoIsSeq
<1>8. Fifo \in Seq(S) /\ Len(Fifo) = Pending
  BY FifoIsSeq
<1>9. /\ Tail(Fifo) \in Seq(S) /\ Len(Tail(Fifo)) = Pending - 1
      /\ \A n \in 1..(Pending - 1) : Tail(Fifo)[n] = Fifo[n + 1]
      /\ Head(Fifo) = Fifo[1]
  BY <1>4, <1>8, HeadTailProperties
<1>10. Fifo' \in Seq(S) /\ Len(Fifo') = Pending - 1
  <2>1. \A n \in 1..(Pending - 1) : queue[SlotOf(Succ(q_start), n)] \in S
    BY <1>3, <1>7, <1>8
  <2> QED
    BY <1>3, <1>6, <2>1
<1>11. \A n \in 1..Len(Fifo') : Fifo'[n] = Tail(Fifo)[n]
  BY <1>6, <1>7, <1>9, <1>10
<1>12. Fifo' = Tail(Fifo)
  <2> HIDE DEF S
  <2> QED
    BY <1>9, <1>10, <1>11, SeqEqual
<1> QED
  BY <1>4, <1>5, <1>9, <1>12

-----------------------------------------------------------------------------
(* No task is lost.                                                        *)

\* The array has room for the connection that is about to be added: the waiting
\* ones are others, and there are fewer connections than slots.
LEMMA RoomForOne ==
    ASSUME FewerConnsThanSlots, TypeOK, TaskInv, mpc = "enqueue"
    PROVE  Pending < QueueSize - 1
<1> DEFINE Others == Conns \ {marg}
           Positions == 1..Pending
<1>1. marg \in Conns /\ conn[marg] = "held"
  BY DEF TaskInv, HandsInv
<1>2. IsFiniteSet(Others) /\ Cardinality(Others) = Cardinality(Conns) - 1
  BY <1>1, FS_RemoveElement DEF FewerConnsThanSlots
<1>3. Pending \in Nat /\ Fifo = [n \in 1..Pending |-> Fifo[n]]
  BY PendingRange, FifoIsSeq, QueueAssumption
<1>4. \A n \in 1..Pending : Fifo[n] \in Others
  BY <1>1, <1>3 DEF TaskInv, FilledInv, NoTaskLost
<1>5. Fifo \in [Positions -> Others]
  BY <1>3, <1>4
<1>6. \A m, n \in Positions : Fifo[m] = Fifo[n] => m = n
  BY <1>3 DEF TaskInv, NoTaskLost
<1>7. IsFiniteSet(Positions) /\ Cardinality(Positions) = Pending
  BY <1>3, FS_Interval
<1>8. ~(Cardinality(Others) < Cardinality(Positions))
  <2> HIDE DEF Others, Positions
  <2> SUFFICES ASSUME Cardinality(Others) < Cardinality(Positions) PROVE FALSE
    OBVIOUS
  <2>1. \E m, n \in Positions : m # n /\ Fifo[m] = Fifo[n]
    BY <1>2, <1>5, <1>7, FS_PigeonHole
  <2> QED
    BY <1>6, <2>1
<1>9. Cardinality(Conns) \in Nat /\ Cardinality(Conns) < QueueSize
  BY FS_CardinalityType DEF FewerConnsThanSlots
<1> QED
  BY <1>2, <1>3, <1>7, <1>8, <1>9, QueueAssumption

LEMMA TaskInit == Init => TaskInv
<1> SUFFICES ASSUME Init PROVE TaskInv
  OBVIOUS
<1>1. Pending = 0
  BY DEF Init, Pending
<1>2. DOMAIN Fifo = {}
  BY <1>1 DEF Fifo
<1> QED
  BY <1>2 DEF Init, TaskInv, HandsInv, FilledInv, NoTaskLost

\* A connection changes hands in the step of the one who has it.
LEMMA HandsNext ==
    ASSUME TypeOK, LockInv, TaskInv, [Next]_vars
    PROVE  HandsInv'
<1> USE NamesAssumption DEF TypeOK, TaskInv, HandsInv, pool
<1>1. CASE Create
  BY <1>1 DEF Create, CreateThread, CreateReturns
<1>2. CASE AddTask
  <2>1. CASE AddLock
    BY <2>1 DEF AddLock
  <2>2. CASE AddEnqueue
    BY <2>2 DEF AddEnqueue
  <2>3. CASE AddSignal
    BY <2>3 DEF AddSignal, Sleepers
  <2>4. CASE AddUnlock
    BY <2>4 DEF AddUnlock
  <2> QED
    BY <1>2, <2>1, <2>2, <2>3, <2>4 DEF AddTask
<1>3. CASE Destroy
  BY <1>3 DEF Destroy, SetFlag, Broadcast, Join, JoinsReturn, Free, UnloadAndExit, Sleepers
<1>4. CASE SigintBeforePool \/ Sigint
  BY <1>4 DEF SigintBeforePool, Sigint, Serving
<1>5. CASE \E c \in Conns : Connect(c) \/ Accept(c)
  BY <1>5 DEF Connect, Accept
<1>6. ASSUME NEW w \in Workers, Worker(w) PROVE HandsInv'
  <2>1. CASE WorkerLock(w) \/ WorkerWait(w) \/ WorkerSleep(w) \/ WorkerExit(w) \/ WorkerUnlock(w)
    BY <2>1 DEF WorkerLock, WorkerWait, WorkerSleep, WorkerExit, WorkerUnlock
  <2>2. CASE WorkerTake(w)
    <3>1. queue[q_start] \in Conns /\ conn[queue[q_start]] = "queued"
      <4>1. Fifo # <<>> /\ queue[q_start] = Fifo[1]
        BY <2>2, FifoTail
      <4>2. 1 \in DOMAIN Fifo
        BY <4>1, FifoIsSeq, PendingRange, QueueAssumption
      <4> QED
        BY <4>1, <4>2 DEF FilledInv, NoTaskLost
    <3> QED
      BY <2>2, <3>1 DEF WorkerTake
  <2>3. CASE WorkerFinish(w)
    <3>1. \A v \in Workers : pc[v] = "run" => v = w
      BY <2>3 DEF WorkerFinish, LockInv, Holding
    <3> QED
      BY <2>3, <3>1 DEF WorkerFinish
  <2> QED
    BY <1>6, <2>1, <2>2, <2>3 DEF Worker
<1>7. CASE \E w \in Workers : SpuriousWake(w)
  BY <1>7 DEF SpuriousWake
<1>8. CASE UNCHANGED vars
  BY <1>8 DEF vars
<1> QED
  BY <1>1, <1>2, <1>3, <1>4, <1>5, <1>6, <1>7, <1>8 DEF Next

\* Only pool_add_task and a worker that takes a task change the array, and no
\* other step queues a connection or takes one out.
LEMMA OthersLeaveTheArray ==
    ASSUME TypeOK, TaskInv, [Next]_vars,
           ~AddEnqueue, \A w \in Workers : ~WorkerTake(w)
    PROVE  /\ Fifo' = Fifo
           /\ \A c \in Conns : conn'[c] = "queued" <=> conn[c] = "queued"
<1>1. UNCHANGED <<queue, q_start, q_end>>
  BY DEF Next, vars, pool, Create, CreateThread, CreateReturns, AddTask, AddLock, AddSignal, AddUnlock,
         Destroy, SetFlag, Broadcast, Join, JoinsReturn, Free, UnloadAndExit, SigintBeforePool, Sigint,
         Connect, Accept, Worker, WorkerLock, WorkerWait, WorkerSleep, WorkerExit, WorkerFinish,
         WorkerUnlock, SpuriousWake
<1>2. Fifo' = Fifo
  BY <1>1 DEF Fifo, Pending
<1>3. \/ UNCHANGED conn
      \/ \E c \in Conns : Connect(c) \/ Accept(c)
      \/ \E w \in Workers : WorkerFinish(w)
  BY DEF Next, vars, pool, Create, CreateThread, CreateReturns, AddTask, AddLock, AddSignal, AddUnlock,
         Destroy, SetFlag, Broadcast, Join, JoinsReturn, Free, UnloadAndExit, SigintBeforePool, Sigint,
         Worker, WorkerLock, WorkerWait, WorkerSleep, WorkerExit, WorkerUnlock, SpuriousWake
<1>4. \A c \in Conns : conn'[c] = "queued" <=> conn[c] = "queued"
  BY <1>3 DEF Connect, Accept, WorkerFinish, TypeOK, TaskInv, HandsInv
<1> QED
  BY <1>2, <1>4

LEMMA TaskNext == FewerConnsThanSlots /\ TypeOK /\ LockInv /\ TaskInv /\ [Next]_vars => TaskInv'
<1> SUFFICES ASSUME FewerConnsThanSlots, TypeOK, LockInv, TaskInv, [Next]_vars
             PROVE  FilledInv' /\ NoTaskLost'
  BY HandsNext DEF TaskInv
<1>1. Pending \in Nat /\ Len(Fifo) = Pending /\ DOMAIN Fifo = 1..Pending
      /\ Fifo \in Seq(Conns \cup {NoConn})
  BY FifoIsSeq, PendingRange, QueueAssumption
<1>2. /\ \A n \in 1..Pending : Fifo[n] \in Conns
      /\ \A c \in Conns : conn[c] = "queued" <=> \E n \in 1..Pending : Fifo[n] = c
      /\ \A m, n \in 1..Pending : Fifo[m] = Fifo[n] => m = n
  BY <1>1 DEF TaskInv, FilledInv, NoTaskLost
<1>3. CASE AddEnqueue
  <2>1. marg \in Conns /\ conn[marg] = "held"
    BY <1>3 DEF AddEnqueue, TaskInv, HandsInv
  <2>2. Fifo' = Append(Fifo, marg)
    BY <1>3, FifoAppend, RoomForOne DEF AddEnqueue
  <2>3. DOMAIN Fifo' = 1..(Pending + 1) /\ \A n \in 1..(Pending + 1) :
            Fifo'[n] = IF n <= Pending THEN Fifo[n] ELSE marg
    BY <1>1, <2>1, <2>2, AppendProperties
  <2>4. \A c \in Conns : conn'[c] = IF c = marg THEN "queued" ELSE conn[c]
    BY <1>3, <2>1 DEF AddEnqueue, TypeOK
  <2>5. \A c \in Conns : conn'[c] = "queued" <=> \E n \in 1..(Pending + 1) : Fifo'[n] = c
    <3> SUFFICES ASSUME NEW c \in Conns
                 PROVE  conn'[c] = "queued" <=> \E n \in 1..(Pending + 1) : Fifo'[n] = c
      OBVIOUS
    <3>1. CASE c = marg
      <4>1. Pending + 1 \in 1..(Pending + 1) /\ Fifo'[Pending + 1] = marg
        BY <1>1, <2>3
      <4> QED
        BY <2>4, <3>1, <4>1
    <3>2. CASE c # marg
      <4>1. (\E n \in 1..(Pending + 1) : Fifo'[n] = c) <=> \E n \in 1..Pending : Fifo[n] = c
        BY <1>1, <2>3, <3>2
      <4> QED
        BY <1>2, <2>4, <3>2, <4>1
    <3> QED
      BY <3>1, <3>2
  <2>6. \A n \in 1..Pending : Fifo[n] # marg
    BY <1>2, <2>1
  <2>7. \A m, n \in 1..(Pending + 1) : Fifo'[m] = Fifo'[n] => m = n
    BY <1>1, <1>2, <2>3, <2>6
  <2>8. \A n \in 1..(Pending + 1) : Fifo'[n] \in Conns
    BY <1>1, <1>2, <2>1, <2>3
  <2> QED
    BY <2>3, <2>5, <2>7, <2>8 DEF FilledInv, NoTaskLost
<1>4. ASSUME NEW w \in Workers, WorkerTake(w) PROVE FilledInv' /\ NoTaskLost'
  <2>1. Fifo # <<>> /\ Fifo' = Tail(Fifo) /\ queue[q_start] = Fifo[1]
    BY <1>4, FifoTail
  <2>2. Pending > 0 /\ DOMAIN Fifo' = 1..(Pending - 1)
        /\ \A n \in 1..(Pending - 1) : Fifo'[n] = Fifo[n + 1]
    BY <1>1, <2>1, HeadTailProperties
  <2>3. Fifo[1] \in Conns /\ 1 \in 1..Pending
    BY <1>1, <1>2, <2>2
  <2>4. \A c \in Conns : conn'[c] = IF c = Fifo[1] THEN "served" ELSE conn[c]
    BY <1>4, <2>1, <2>3 DEF WorkerTake, TypeOK
  <2>5. \A c \in Conns : conn'[c] = "queued" <=> \E n \in 1..(Pending - 1) : Fifo'[n] = c
    <3> SUFFICES ASSUME NEW c \in Conns
                 PROVE  conn'[c] = "queued" <=> \E n \in 1..(Pending - 1) : Fifo'[n] = c
      OBVIOUS
    <3>1. ASSUME NEW n \in 1..(Pending - 1) PROVE n + 1 \in 1..Pending /\ n + 1 # 1
      BY <1>1
    <3>2. CASE c = Fifo[1]
      BY <1>2, <2>2, <2>3, <2>4, <3>1, <3>2
    <3>3. CASE c # Fifo[1]
      <4>1. ASSUME NEW n \in 1..Pending, Fifo[n] = c
            PROVE  n - 1 \in 1..(Pending - 1) /\ Fifo'[n - 1] = c
        <5>1. n # 1
          BY <3>3, <4>1
        <5>2. n - 1 \in 1..(Pending - 1) /\ (n - 1) + 1 = n
          BY <1>1, <5>1
        <5> QED
          BY <2>2, <4>1, <5>2
      <4> QED
        BY <1>2, <2>2, <2>4, <3>1, <3>3, <4>1
    <3> QED
      BY <3>2, <3>3
  <2>6. \A m, n \in 1..(Pending - 1) : Fifo'[m] = Fifo'[n] => m = n
    <3> SUFFICES ASSUME NEW m \in 1..(Pending - 1), NEW n \in 1..(Pending - 1), Fifo'[m] = Fifo'[n]
                 PROVE  m = n
      OBVIOUS
    <3>1. m + 1 \in 1..Pending /\ n + 1 \in 1..Pending
      BY <1>1
    <3>2. Fifo[m + 1] = Fifo[n + 1]
      BY <2>2
    <3>3. m + 1 = n + 1
      BY <1>2, <3>1, <3>2
    <3> QED
      BY <1>1, <3>3
  <2>7. \A n \in 1..(Pending - 1) : Fifo'[n] \in Conns
    <3> SUFFICES ASSUME NEW n \in 1..(Pending - 1) PROVE Fifo'[n] \in Conns
      OBVIOUS
    <3>1. n + 1 \in 1..Pending
      BY <1>1
    <3> QED
      BY <1>2, <2>2, <3>1
  <2> QED
    BY <2>2, <2>5, <2>6, <2>7 DEF FilledInv, NoTaskLost
<1>5. CASE ~AddEnqueue /\ \A w \in Workers : ~WorkerTake(w)
  BY <1>5, OthersLeaveTheArray DEF TaskInv, FilledInv, NoTaskLost
<1> QED
  BY <1>3, <1>4, <1>5

LEMMA TaskCorrect == FewerConnsThanSlots => (Spec => []TaskInv)
<1> SUFFICES ASSUME FewerConnsThanSlots PROVE Spec => []TaskInv
  OBVIOUS
<1>1. TypeOK /\ LockInv /\ TaskInv /\ [Next]_vars => TaskInv'
  BY TaskNext
<1> QED
  BY <1>1, TypeCorrect, LockCorrect, TaskInit, PTL DEF Spec

\* With fewer connections than slots, a connection that pool_add_task has put in
\* the array is there, once, until a worker takes it.  (The hypothesis is what the
\* code relies on: it has no test for a full array, and the overflow run shows
\* what happens without it.)
THEOREM TasksKept == FewerConnsThanSlots => (Spec => []NoTaskLost)
<1> SUFFICES ASSUME FewerConnsThanSlots PROVE Spec => []NoTaskLost
  OBVIOUS
<1>1. TaskInv => NoTaskLost
  BY DEF TaskInv
<1>2. Spec => []TaskInv
  BY TaskCorrect
<1> QED
  BY <1>1, <1>2, PTL

-----------------------------------------------------------------------------
(* The pool implements Executor.                                           *)

LEMMA ExecutorInit == Init => Abstract!Init
<1> SUFFICES ASSUME Init PROVE Abstract!Init
  OBVIOUS
<1>1. Pending = 0
  BY DEF Init, Pending
<1>2. Fifo = <<>>
  BY <1>1 DEF Fifo
<1>3. Running = NoConn
  BY NamesAssumption DEF Init, Running
<1> QED
  BY <1>2, <1>3 DEF Abstract!Init

\* The owner of the mutex and what it runs change only when a worker takes a task
\* or has finished it.
LEMMA OthersRunNothing ==
    ASSUME TypeOK, LockInv, LoopInv, [Next]_vars,
           \A w \in Workers : ~WorkerTake(w) /\ ~WorkerFinish(w)
    PROVE  Running' = Running
<1> USE NamesAssumption DEF TypeOK, LockInv, Holding, Running, pool
<1>1. CASE Create
  <2>1. CASE CreateThread
    <3>1. i \in Workers /\ pc[i] = "unborn"
      BY <2>1, ThreadsAssumption DEF CreateThread, LoopInv, Born, Workers
    <3> QED
      BY <2>1, <3>1 DEF CreateThread
  <2>2. CASE CreateReturns
    BY <2>2 DEF CreateReturns
  <2> QED
    BY <1>1, <2>1, <2>2 DEF Create
<1>2. CASE AddTask
  BY <1>2 DEF AddTask, AddLock, AddEnqueue, AddSignal, AddUnlock, Sleepers
<1>3. CASE Destroy
  BY <1>3 DEF Destroy, SetFlag, Broadcast, Join, JoinsReturn, Free, UnloadAndExit, Sleepers
<1>4. CASE SigintBeforePool \/ Sigint
  BY <1>4 DEF SigintBeforePool, Sigint
<1>5. CASE \E c \in Conns : Connect(c) \/ Accept(c)
  BY <1>5 DEF Connect, Accept
<1>6. ASSUME NEW w \in Workers, Worker(w) PROVE Running' = Running
  BY <1>6 DEF Worker, WorkerLock, WorkerWait, WorkerSleep, WorkerExit, WorkerUnlock
<1>7. CASE \E w \in Workers : SpuriousWake(w)
  BY <1>7 DEF SpuriousWake
<1>8. CASE UNCHANGED vars
  BY <1>8 DEF vars
<1> QED
  BY <1>1, <1>2, <1>3, <1>4, <1>5, <1>6, <1>7, <1>8 DEF Next

LEMMA ExecutorNext ==
    FewerConnsThanSlots /\ TypeOK /\ LockInv /\ LoopInv /\ TaskInv /\ [Next]_vars
        => [Abstract!Next]_(Abstract!vars)
<1> SUFFICES ASSUME FewerConnsThanSlots, TypeOK, LockInv, LoopInv, TaskInv, [Next]_vars
             PROVE  Abstract!Next \/ UNCHANGED Abstract!vars
  OBVIOUS
<1>1. CASE AddEnqueue
  <2>1. marg \in Conns
    BY <1>1 DEF AddEnqueue, TaskInv, HandsInv
  <2>2. Fifo' = Append(Fifo, marg)
    BY <1>1, FifoAppend, RoomForOne DEF AddEnqueue
  <2>3. Running' = Running
    BY <1>1 DEF AddEnqueue, Running
  <2>4. Abstract!Submit(marg)
    BY <2>2, <2>3 DEF Abstract!Submit
  <2> QED
    BY <2>1, <2>4 DEF Abstract!Next
<1>2. ASSUME NEW w \in Workers, WorkerTake(w) PROVE Abstract!Next
  <2>1. Fifo # <<>> /\ queue[q_start] = Head(Fifo) /\ Fifo' = Tail(Fifo)
    BY <1>2, FifoTail
  <2>2. lock = w /\ Running = NoConn
    BY <1>2 DEF WorkerTake, LockInv, Holding, Running
  <2>3. Running' = queue[q_start]
    BY <1>2, <2>2 DEF WorkerTake, Running, TypeOK
  <2>4. Abstract!Start
    BY <2>1, <2>2, <2>3 DEF Abstract!Start
  <2> QED
    BY <2>4 DEF Abstract!Next
<1>3. ASSUME NEW w \in Workers, WorkerFinish(w) PROVE Abstract!Next
  <2>1. lock = w /\ Running = arg[w] /\ arg[w] # NoConn
    BY <1>3, NamesAssumption DEF WorkerFinish, LockInv, Holding, Running, TaskInv, HandsInv
  <2>2. Running' = NoConn
    BY <1>3, <2>1 DEF WorkerFinish, Running, TypeOK
  <2>3. Fifo' = Fifo
    BY <1>3 DEF WorkerFinish, Fifo, Pending, pool
  <2>4. Abstract!Finish
    BY <2>1, <2>2, <2>3 DEF Abstract!Finish
  <2> QED
    BY <2>4 DEF Abstract!Next
<1>4. CASE ~AddEnqueue /\ \A w \in Workers : ~WorkerTake(w) /\ ~WorkerFinish(w)
  BY <1>4, OthersLeaveTheArray, OthersRunNothing DEF Abstract!vars
<1> QED
  BY <1>1, <1>2, <1>3, <1>4

\* However the threads interleave, the pool is a queue served by one server in the
\* order of pool_add_task: its steps are submissions, starts and ends of tasks, or
\* nothing a caller could see.
THEOREM PoolIsExecutor == FewerConnsThanSlots => (Spec => ImplementsExecutor)
<1> SUFFICES ASSUME FewerConnsThanSlots PROVE Spec => ImplementsExecutor
  OBVIOUS
<1>1. Spec => []TaskInv
  BY TaskCorrect
<1>2. TypeOK /\ LockInv /\ LoopInv /\ TaskInv /\ [Next]_vars => [Abstract!Next]_(Abstract!vars)
  BY ExecutorNext
<1> QED
  BY <1>1, <1>2, TypeCorrect, LockCorrect, LoopCorrect, ExecutorInit, PTL
  DEF Spec, ImplementsExecutor, Abstract!Spec
=============================================================================
