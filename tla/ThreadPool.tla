----------------------------- MODULE ThreadPool -----------------------------
(***************************************************************************)
(* The thread pool of server/thread_pool.c together with its only caller,  *)
(* the accept loop and the SIGINT handler of server/http_server.c.         *)
(*                                                                         *)
(* The main thread creates the workers, then accepts connections and adds  *)
(* each to a circular array.  A worker takes a connection from the array   *)
(* and runs the handler WITHOUT releasing the pool's mutex.  SIGINT        *)
(* interrupts the main thread wherever it is and runs pool_destroy there.  *)
(***************************************************************************)
EXTENDS Integers, Sequences, FiniteSets

CONSTANTS
    MAX_THREADS,    \* the most workers a pool of this model has
    ThreadCounts,   \* the num_threads pool_create may be called with
    QueueSize,      \* queue_size: the slots of the circular array
    Conns,          \* the client connections
    NoConn,         \* "no connection": an empty slot or argument
    Main,           \* the main thread, as an owner of the mutex
    Nobody          \* the owner of a free mutex

Workers == 1..MAX_THREADS
Slots == 0..(QueueSize - 1)

ASSUME ThreadsAssumption == MAX_THREADS \in Nat /\ ThreadCounts \subseteq Workers
ASSUME QueueAssumption == QueueSize \in Nat \ {0}
ASSUME NamesAssumption == NoConn \notin Conns /\ Main # Nobody
                          /\ Main \notin Workers /\ Nobody \notin Workers

VARIABLES
    thread_count, queue, q_start, q_end, shutdown,   \* the fields of pool_t
    lock,     \* who owns pool->lock
    freed,    \* pool_destroy has freed the pool
    pc,       \* where each worker is in thread_do_work
    arg,      \* each worker's local "argument"
    mpc,      \* where the main thread is
    marg,     \* the connection the main thread has accepted and not yet added
    i,        \* the index of the creating and of the joining loop
    conn      \* the state of each connection, as its client could tell it

pool == <<thread_count, queue, q_start, q_end, shutdown>>
vars == <<thread_count, queue, q_start, q_end, shutdown,
          lock, freed, pc, arg, mpc, marg, i, conn>>

\* Mutant: an index that never wraps.
Succ_noWrap(slot) == slot + 1

Succ(slot) == (slot + 1) % QueueSize

\* What the main loop does when SIGINT does not interrupt it, and what
\* pool_destroy and the rest of shutdown_server do.
Serving == {"accept", "lock", "enqueue", "signal", "unlock"}
Destroying == {"setflag", "broadcast", "join", "free", "unload"}

\* A worker at one of these places owns the mutex.
Holding == {"check", "wait", "run", "unlock"}
WorkerPC == Holding \cup {"unborn", "lock", "sleep", "exited"}

TypeOK ==
    /\ thread_count \in ThreadCounts
    /\ queue \in [Slots -> Conns \cup {NoConn}]
    /\ q_start \in Slots /\ q_end \in Slots
    /\ shutdown \in BOOLEAN /\ freed \in BOOLEAN
    /\ lock \in Workers \cup {Main, Nobody}
    /\ pc \in [Workers -> WorkerPC]
    /\ arg \in [Workers -> Conns \cup {NoConn}]
    /\ mpc \in Serving \cup Destroying \cup {"create", "exited", "crashed"}
    /\ marg \in Conns \cup {NoConn}
    /\ i \in 1..(MAX_THREADS + 1)
    /\ conn \in [Conns -> {"none", "pending", "held", "queued", "served"}]

Init ==
    /\ thread_count \in ThreadCounts
    /\ queue = [s \in Slots |-> NoConn]
    /\ q_start = 0 /\ q_end = 0
    /\ shutdown = FALSE /\ freed = FALSE
    /\ lock = Nobody
    /\ pc = [w \in Workers |-> "unborn"]
    /\ arg = [w \in Workers |-> NoConn]
    /\ mpc = "create" /\ marg = NoConn /\ i = 1
    /\ conn = [c \in Conns |-> "none"]

-----------------------------------------------------------------------------
(* The main thread: pool_create, then the accept loop and pool_add_task.   *)

CreateThread ==
    /\ mpc = "create" /\ i <= thread_count
    /\ pc' = [pc EXCEPT ![i] = "lock"]
    /\ i' = i + 1
    /\ UNCHANGED <<pool, lock, freed, arg, mpc, marg, conn>>

CreateReturns ==
    /\ mpc = "create" /\ i > thread_count
    /\ mpc' = "accept"
    /\ UNCHANGED <<pool, lock, freed, pc, arg, marg, i, conn>>

Accept(c) ==
    /\ mpc = "accept" /\ conn[c] = "pending"
    /\ conn' = [conn EXCEPT ![c] = "held"]
    /\ marg' = c
    /\ mpc' = "lock"
    /\ UNCHANGED <<pool, lock, freed, pc, arg, i>>

AddLock ==
    /\ mpc = "lock" /\ lock = Nobody
    /\ lock' = Main
    /\ mpc' = "enqueue"
    /\ UNCHANGED <<pool, freed, pc, arg, marg, i, conn>>

\* Mutant: the task is written to the slot after the one that becomes visible.
AddEnqueue_swapped ==
    /\ mpc = "enqueue"
    /\ queue' = [queue EXCEPT ![Succ(q_end)] = marg]
    /\ q_end' = Succ(q_end)
    /\ conn' = [conn EXCEPT ![marg] = "queued"]
    /\ marg' = NoConn
    /\ mpc' = "signal"
    /\ UNCHANGED <<thread_count, q_start, shutdown, lock, freed, pc, arg, i>>

\* Nothing compares q_end with q_start: the code has no "queue full".
AddEnqueue ==
    /\ mpc = "enqueue"
    /\ queue' = [queue EXCEPT ![q_end] = marg]
    /\ q_end' = Succ(q_end)
    /\ conn' = [conn EXCEPT ![marg] = "queued"]
    /\ marg' = NoConn
    /\ mpc' = "signal"
    /\ UNCHANGED <<thread_count, q_start, shutdown, lock, freed, pc, arg, i>>

Sleepers == {w \in Workers : pc[w] = "sleep"}

\* Mutant: no pthread_cond_signal.
AddSignal_dropped ==
    /\ mpc = "signal"
    /\ mpc' = "unlock"
    /\ UNCHANGED <<pool, lock, freed, pc, arg, marg, i, conn>>

\* pthread_cond_signal wakes one sleeper, if there is one; the sleeper still
\* has to get the mutex back.
AddSignal ==
    /\ mpc = "signal"
    /\ IF Sleepers = {} THEN UNCHANGED pc
       ELSE \E w \in Sleepers : pc' = [pc EXCEPT ![w] = "lock"]
    /\ mpc' = "unlock"
    /\ UNCHANGED <<pool, lock, freed, arg, marg, i, conn>>

AddUnlock ==
    /\ mpc = "unlock"
    /\ lock' = Nobody
    /\ mpc' = "accept"
    /\ UNCHANGED <<pool, freed, pc, arg, marg, i, conn>>

-----------------------------------------------------------------------------
(* SIGINT: the handler runs on the main thread, on top of whatever that    *)
(* thread was doing, and never returns there.  It takes no mutex.          *)

\* Between the registration of the handler and the return of pool_create the
\* global "threadpool" is still NULL: pool_destroy writes through it.
SigintBeforePool ==
    /\ mpc = "create"
    /\ mpc' = "crashed"
    /\ UNCHANGED <<pool, lock, freed, pc, arg, marg, i, conn>>

Sigint ==
    /\ mpc \in Serving
    /\ mpc' = "setflag"
    /\ UNCHANGED <<pool, lock, freed, pc, arg, marg, i, conn>>

SetFlag ==
    /\ mpc = "setflag"
    /\ shutdown' = TRUE
    /\ mpc' = "broadcast"
    /\ UNCHANGED <<thread_count, queue, q_start, q_end, lock, freed, pc, arg,
                   marg, i, conn>>

Broadcast ==
    /\ mpc = "broadcast"
    /\ pc' = [w \in Workers |-> IF w \in Sleepers THEN "lock" ELSE pc[w]]
    /\ mpc' = "join" /\ i' = 1
    /\ UNCHANGED <<pool, lock, freed, arg, marg, conn>>

\* pthread_join(threads[i]): waits for that worker to exit.
Join ==
    /\ mpc = "join" /\ i <= thread_count
    /\ pc[i] = "exited"
    /\ i' = i + 1
    /\ UNCHANGED <<pool, lock, freed, pc, arg, mpc, marg, conn>>

\* Mutant: the joining loop stops one thread early.
JoinsReturn_early ==
    /\ mpc = "join" /\ i >= thread_count
    /\ mpc' = "free"
    /\ UNCHANGED <<pool, lock, freed, pc, arg, marg, i, conn>>

JoinsReturn ==
    /\ mpc = "join" /\ i > thread_count
    /\ mpc' = "free"
    /\ UNCHANGED <<pool, lock, freed, pc, arg, marg, i, conn>>

Free ==
    /\ mpc = "free"
    /\ freed' = TRUE
    /\ mpc' = "unload"
    /\ UNCHANGED <<pool, lock, pc, arg, marg, i, conn>>

UnloadAndExit ==
    /\ mpc = "unload"
    /\ mpc' = "exited"
    /\ UNCHANGED <<pool, lock, freed, pc, arg, marg, i, conn>>

-----------------------------------------------------------------------------
(* A worker: thread_do_work.                                               *)

Alive == mpc \notin {"exited", "crashed"}

\* Both pthread_mutex_lock at the head of the loop and the reacquisition
\* inside pthread_cond_wait: the code then tests the same condition.
WorkerLock(w) ==
    /\ pc[w] = "lock" /\ lock = Nobody
    /\ lock' = w
    /\ pc' = [pc EXCEPT ![w] = "check"]
    /\ UNCHANGED <<pool, freed, arg, mpc, marg, i, conn>>

\* The loop's condition held; the worker has not called pthread_cond_wait yet.
WorkerWait(w) ==
    /\ pc[w] = "check"
    /\ q_start = q_end /\ ~shutdown
    /\ pc' = [pc EXCEPT ![w] = "wait"]
    /\ UNCHANGED <<pool, lock, freed, arg, mpc, marg, i, conn>>

WorkerSleep(w) ==
    /\ pc[w] = "wait"
    /\ pc' = [pc EXCEPT ![w] = "sleep"]
    /\ lock' = Nobody
    /\ UNCHANGED <<pool, freed, arg, mpc, marg, i, conn>>

\* "break", then pthread_exit: the mutex is still locked.
WorkerExit(w) ==
    /\ pc[w] = "check"
    /\ shutdown
    /\ pc' = [pc EXCEPT ![w] = "exited"]
    /\ UNCHANGED <<pool, lock, freed, arg, mpc, marg, i, conn>>

\* Mutant: the mutex is released before the handler is called.
WorkerTake_unlocked(w) ==
    /\ pc[w] = "check"
    /\ ~shutdown /\ q_start # q_end
    /\ arg' = [arg EXCEPT ![w] = queue[q_start]]
    /\ q_start' = Succ(q_start)
    /\ conn' = [conn EXCEPT ![queue[q_start]] = "served"]
    /\ pc' = [pc EXCEPT ![w] = "run"]
    /\ lock' = Nobody
    /\ UNCHANGED <<thread_count, queue, q_end, shutdown, freed, mpc, marg, i>>

\* Mutant: the newest task is taken instead of the oldest.
WorkerTake_newest(w) ==
    /\ pc[w] = "check"
    /\ ~shutdown /\ q_start # q_end
    /\ LET newest == (q_end + QueueSize - 1) % QueueSize
       IN  /\ arg' = [arg EXCEPT ![w] = queue[newest]]
           /\ conn' = [conn EXCEPT ![queue[newest]] = "served"]
           /\ q_end' = newest
    /\ pc' = [pc EXCEPT ![w] = "run"]
    /\ UNCHANGED <<thread_count, queue, q_start, shutdown, lock, freed, mpc, marg, i>>

WorkerTake(w) ==
    /\ pc[w] = "check"
    /\ ~shutdown /\ q_start # q_end
    /\ arg' = [arg EXCEPT ![w] = queue[q_start]]
    /\ q_start' = Succ(q_start)
    /\ conn' = [conn EXCEPT ![queue[q_start]] = "served"]
    /\ pc' = [pc EXCEPT ![w] = "run"]
    /\ UNCHANGED <<thread_count, queue, q_end, shutdown, lock, freed, mpc, marg, i>>

\* handle_connection returns; on every path it has closed the connection.
WorkerFinish(w) ==
    /\ pc[w] = "run"
    /\ conn' = [conn EXCEPT ![arg[w]] = "none"]
    /\ arg' = [arg EXCEPT ![w] = NoConn]
    /\ pc' = [pc EXCEPT ![w] = "unlock"]
    /\ UNCHANGED <<pool, lock, freed, mpc, marg, i>>

WorkerUnlock(w) ==
    /\ pc[w] = "unlock"
    /\ lock' = Nobody
    /\ pc' = [pc EXCEPT ![w] = "lock"]
    /\ UNCHANGED <<pool, freed, arg, mpc, marg, i, conn>>

Worker(w) ==
    /\ Alive
    /\ \/ WorkerLock(w) \/ WorkerWait(w) \/ WorkerSleep(w) \/ WorkerExit(w)
       \/ WorkerTake(w) \/ WorkerFinish(w) \/ WorkerUnlock(w)

-----------------------------------------------------------------------------
(* The environment: POSIX lets pthread_cond_wait return without a signal,  *)
(* and a client may connect (again) whenever it has no open connection.    *)

SpuriousWake(w) ==
    /\ Alive /\ pc[w] = "sleep"
    /\ pc' = [pc EXCEPT ![w] = "lock"]
    /\ UNCHANGED <<pool, lock, freed, arg, mpc, marg, i, conn>>

Connect(c) ==
    /\ Alive /\ conn[c] = "none"
    /\ conn' = [conn EXCEPT ![c] = "pending"]
    /\ UNCHANGED <<pool, lock, freed, pc, arg, mpc, marg, i>>

AddTask == AddLock \/ AddEnqueue \/ AddSignal \/ AddUnlock
Create == CreateThread \/ CreateReturns
Destroy == SetFlag \/ Broadcast \/ Join \/ JoinsReturn \/ Free \/ UnloadAndExit

Next ==
    \/ Create \/ AddTask \/ Destroy
    \/ SigintBeforePool \/ Sigint
    \/ \E c \in Conns : Connect(c) \/ Accept(c)
    \/ \E w \in Workers : Worker(w) \/ SpuriousWake(w)

Spec == Init /\ [][Next]_vars

\* Every thread that can run does, and a mutex that stays free is taken in the
\* end; nothing says which contender gets it, when a client connects, when
\* SIGINT comes, or that a sleeper wakes without a signal.
Fairness ==
    /\ WF_vars(Create \/ AddTask \/ Destroy)
    /\ \A w \in Workers : WF_vars(Worker(w))

FairSpec == Spec /\ Fairness

-----------------------------------------------------------------------------
(* What the pool promises.                                                 *)

\* The tasks between q_start and q_end, oldest first.
Pending == IF q_start <= q_end THEN q_end - q_start
           ELSE q_end - q_start + QueueSize
Fifo == [n \in 1..Pending |-> queue[(q_start + n - 1) % QueueSize]]

\* At most one worker is in the handler: thread_do_work calls it with the mutex
\* held, and the code of seats.c that takes no lock of its own relies on that.
HandlersSerialized ==
    \A v, w \in Workers : pc[v] = "run" /\ pc[w] = "run" => v = w

\* A connection pool_add_task has put in the array stays between q_start and
\* q_end, exactly once, until a worker takes it; and nothing else is there.
\* (True when there are fewer connections than slots: see the overflow run.)
NoTaskLost ==
    /\ \A c \in Conns : conn[c] = "queued"
                          <=> \E n \in DOMAIN Fifo : Fifo[n] = c
    /\ \A m, n \in DOMAIN Fifo : Fifo[m] = Fifo[n] => m = n

\* While the server serves, a task in the array means a worker that is awake or
\* a signal on its way: the wakeup of pool_add_task is never lost.
NoLostWakeup ==
    mpc \in Serving /\ q_start # q_end
        => mpc = "signal" \/ \E w \in Workers : pc[w] \in Holding \cup {"lock"}

\* pool_destroy frees the pool only when no worker will touch it again.
NoUseAfterDestroy ==
    freed => \A w \in Workers : pc[w] \in {"unborn", "exited"}

\* The one connection whose handler runs, as the owner of the mutex shows it.
Running == IF lock \in Workers /\ pc[lock] = "run" THEN arg[lock] ELSE NoConn

Abstract == INSTANCE Executor WITH Tasks <- Conns, NoTask <- NoConn,
                                   waiting <- Fifo, running <- Running

\* However the threads interleave, connections are handled one at a time and
\* in the order pool_add_task added them.
ImplementsExecutor == Abstract!Spec

\* A connection in the array is handled in the end, unless the server is told
\* to shut down.
TasksServed ==
    \A c \in Conns : conn[c] = "queued" ~> (conn[c] = "served" \/ mpc \notin Serving)

\* SIGINT ends the process: pool_destroy joins every worker and returns.
ShutdownCompletes == mpc = "setflag" ~> mpc = "exited"

-----------------------------------------------------------------------------
(* The strengthenings that make the safety properties inductive; they are  *)
(* used by ThreadPoolProofs.                                               *)

\* Who is between a lock and its unlock owns the mutex.  (Nothing is said of an
\* owner that has exited, or that SIGINT took away from pool_add_task.)
LockInv ==
    /\ \A w \in Workers : pc[w] \in Holding => lock = w
    /\ mpc \in {"enqueue", "signal", "unlock"} => lock = Main

\* The workers before i are created, or joined, and no other has been; a worker
\* exits only after pool_destroy has set the flag.
Born(w) == pc[w] # "unborn"
LoopInv ==
    /\ mpc = "create" => i <= thread_count + 1
    /\ \A w \in Workers : Born(w) <=> (IF mpc \in {"create", "crashed"} THEN w < i ELSE w <= thread_count)
    /\ mpc = "join" => i <= thread_count + 1 /\ \A w \in Workers : w < i => pc[w] = "exited"
    /\ mpc \in {"free", "unload", "exited"} =>
           \A w \in Workers : w <= thread_count => pc[w] = "exited"
    /\ freed => mpc \in {"unload", "exited"}
    /\ mpc \in Serving \cup {"create", "setflag"} => ~shutdown
    /\ \A w \in Workers : pc[w] = "exited" => shutdown

\* A worker about to sleep has seen an empty array, which is still empty: the
\* worker owns the mutex.  Nothing is added before the accept loop begins.
WaitInv ==
    /\ \A w \in Workers : pc[w] = "wait" => q_start = q_end
    /\ mpc = "create" => q_start = q_end

IInv == TypeOK /\ LockInv /\ LoopInv /\ WaitInv /\ NoLostWakeup

\* A connection is accepted by the main thread, or run by a worker, or in the
\* array: it is in one hand at a time.
HandsInv ==
    /\ mpc \in {"lock", "enqueue"} => marg \in Conns /\ conn[marg] = "held"
    /\ \A w \in Workers : pc[w] = "run" => arg[w] \in Conns /\ conn[arg[w]] = "served"

\* Every slot between q_start and q_end has a connection in it.
FilledInv == \A n \in DOMAIN Fifo : Fifo[n] \in Conns

TaskInv == HandsInv /\ FilledInv /\ NoTaskLost

\* What the code relies on in place of a test for a full array.
FewerConnsThanSlots == IsFiniteSet(Conns) /\ Cardinality(Conns) < QueueSize
=============================================================================
