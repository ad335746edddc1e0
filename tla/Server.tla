------------------------------- MODULE Server -------------------------------
(***************************************************************************)
(* The reservation server: the thread pool and the reservations together.  *)
(* A worker that takes a connection (ThreadPool) runs handle_connection on *)
(* it (Seats) and comes back to the pool when the handler has returned.    *)
(***************************************************************************)
EXTENDS ThreadPool, Seats

ASSUME ThreadsAreWorkers == Threads = Workers

serverVars == <<vars, allSeatVars>>

ServerTypeOK == TypeOK /\ SeatsTypeOK

ServerInit == Init /\ SeatsInit

\* The worker calls the pool's function on the connection it took, and the
\* function returns to it.
Handle(w) ==
    \/ WorkerTake(w) /\ \E r \in Request : Call(w, r)
    \/ WorkerFinish(w) /\ Return(w)

InHandler(w) == pc[w] = "run" /\ SeatStep(w) /\ UNCHANGED vars

Elsewhere(w) ==
    /\ \/ WorkerLock(w) \/ WorkerWait(w) \/ WorkerSleep(w)
       \/ WorkerExit(w) \/ WorkerUnlock(w) \/ SpuriousWake(w)
    /\ UNCHANGED allSeatVars

WorkerStep(w) == Alive /\ (Handle(w) \/ InHandler(w) \/ Elsewhere(w))

MainStep ==
    /\ \/ Create \/ AddTask \/ Destroy \/ SigintBeforePool \/ Sigint
       \/ \E c \in Conns : Connect(c) \/ Accept(c)
    /\ UNCHANGED allSeatVars

ServerNext == MainStep \/ \E w \in Workers : WorkerStep(w)

ServerSpec == ServerInit /\ [][ServerNext]_serverVars

-----------------------------------------------------------------------------
(* The strengthenings that make the safety properties inductive; they are  *)
(* used by ServerProofs.                                                   *)

\* A request is under way only while its worker runs the handler, that is, while
\* the worker owns the pool's mutex.
ServeInv == \A t \in Threads : op[t] # "idle" => pc[t] = "run"

\* The places between a wait and the post of the semaphore.
Inside == {"append", "append_count", "append_post", "hand_over", "hand_over_count", "hand_over_post"}

\* The places where t knows of a seat, has told its customer that it is taken, and
\* is about to give it to the head of the standby list.
OnSeat == {"find", "grant", "refuse", "append_wait", "lock", "decide", "unlock", "hand_over_wait"} \cup Inside
Refusing == {"refuse", "append_wait", "append", "append_count", "append_post"}
HandingOver == {"hand_over_wait", "hand_over", "hand_over_count", "hand_over_post"}

\* What t has read of its seat, and replied, is still so: nobody else moves.
RequestInv(t) ==
    LET s == req[t].seat  c == req[t].customer
    IN  /\ op[t] \in OnSeat => s \in Seats /\ c \in Customers
        /\ op[t] \in {"idle", "list", "find", "lock", "decide"} => reply[t] = "none"
        /\ op[t] = "grant" => reply[t] = "confirm?" /\ (state[s] = "A" \/ Mine(t))
        /\ op[t] \in Refusing => reply[t] = "unavailable" /\ state[s] # "A" /\ ~Mine(t)
        /\ op[t] \in HandingOver => reply[t] = "cancelled" /\ req[t].kind = "cancel"
        /\ op[t] \in {"hand_over_wait", "hand_over"} => Mine(t)
        /\ op[t] = "unlock" => reply[t] \notin {"list", "confirm?", "unavailable"}
        /\ op[t] = "unlock" => ReplyTrue(t)
        /\ op[t] \in {"hand_over_count", "hand_over_post"} => state[s] # "P"

\* What list_seats has read so far is still so; a list is told when it is complete.
ListInv(t) ==
    /\ op[t] \in {"idle", "list"} => /\ Len(listing[t]) <= NumSeats
                                    /\ \A n \in 1..Len(listing[t]) : listing[t][n] = state[n - 1]
    /\ op[t] = "idle" => listing[t] = <<>>
    /\ reply[t] = "list" => op[t] = "done"

\* The customer t has put on the standby list is its last; t has room for one
\* more, or a first one to take; and where the length is behind the list.
StandbyInv(t) ==
    /\ op[t] \in {"append_count", "append_post"} => standby # <<>> /\ standby[Len(standby)] = req[t].customer
    /\ op[t] \in {"append_wait", "append", "append_count"} => standby_length < STANDBY_SIZE
    /\ op[t] \in {"hand_over_wait", "hand_over", "hand_over_count"} => standby_length > 0
    /\ op[t] = "append_count" => Len(standby) = standby_length + 1
    /\ op[t] = "hand_over_count" => Len(standby) = standby_length - 1

\* A seat that is pending or occupied has a customer.
HolderInv == \A s \in Seats : state[s] # "A" => customer_id[s] \in Customers

LengthInv ==
    /\ sem = IF \E t \in Threads : op[t] \in Inside THEN 0 ELSE 1
    /\ 0 <= standby_length /\ standby_length <= STANDBY_SIZE
    /\ (\A t \in Threads : op[t] \notin {"append_count", "hand_over_count"}) => standby_length = Len(standby)

SeatsInv == /\ \A t \in Threads : RequestInv(t) /\ ListInv(t) /\ StandbyInv(t)
            /\ HolderInv /\ LengthInv /\ TruthfulReply /\ ListingIsSnapshot

ServerIInv == ServerTypeOK /\ LockInv /\ LoopInv /\ ServeInv /\ SeatsInv

\* A handler that comes to the semaphore or to a seat's mutex never waits there, so
\* the worker, which owns the pool's mutex all along, holds up nobody for good.
InnerLocksFree ==
    \A t \in Threads :
        /\ op[t] \in {"append_wait", "hand_over_wait"} => sem > 0
        /\ op[t] = "lock" => seat_mutex[req[t].seat] = NoThread

\* A seat's mutex is locked only by the request that is between its lock and unlock.
MutexInv ==
    \A s \in Seats : seat_mutex[s] # NoThread =>
        \E t \in Threads : op[t] \in {"decide", "unlock"} \cup HandingOver /\ req[t].seat = s
=============================================================================
