---------------------------- MODULE ServerProofs ----------------------------
(***************************************************************************)
(* The reservation server, for every number of workers, connections, seats *)
(* and customers and every size of the standby list.                       *)
(*                                                                         *)
(* The server moves the pool as ThreadPool says, so what ThreadPoolProofs  *)
(* proves of the pool holds of the server.  With it the worker that runs a *)
(* handler owns the pool's mutex, hence is alone in seats.c: what it has   *)
(* read of the seats, the standby list and its length is still so when it  *)
(* acts on it.  That is SeatsInv; every other property follows from it and *)
(* one step.                                                               *)
(***************************************************************************)
EXTENDS Server, ThreadPoolProofs, SequenceTheorems

-----------------------------------------------------------------------------
(* The server is a thread pool.                                            *)

LEMMA PoolStep == [ServerNext]_serverVars => [Next]_vars
<1> SUFFICES ASSUME [ServerNext]_serverVars PROVE [Next]_vars
  OBVIOUS
<1>1. CASE UNCHANGED serverVars
  BY <1>1 DEF serverVars
<1>2. CASE MainStep
  BY <1>2 DEF MainStep, Next
<1>3. ASSUME NEW w \in Workers, WorkerStep(w) PROVE [Next]_vars
  BY <1>3 DEF WorkerStep, Handle, InHandler, Elsewhere, Next, Worker
<1> QED
  BY <1>1, <1>2, <1>3 DEF ServerNext

\* Every behaviour of the server is one of the thread pool: whatever handler the
\* pool runs, the pool's promises stand.
THEOREM ServerIsPool == ServerSpec => Spec
<1>1. ServerInit => Init
  BY DEF ServerInit
<1> QED
  BY <1>1, PoolStep, PTL DEF ServerSpec, Spec

\* A step of the server that is not a handler's, and neither starts nor ends one,
\* leaves the seats alone and no handler stops running.
PoolOnly == UNCHANGED allSeatVars /\ \A w \in Workers : pc[w] = "run" => pc'[w] = "run"

LEMMA ServerCases ==
    ASSUME TypeOK, LoopInv, [ServerNext]_serverVars
    PROVE  \/ PoolOnly
           \/ \E w \in Workers : WorkerTake(w) /\ \E r \in Request : Call(w, r)
           \/ \E w \in Workers : WorkerFinish(w) /\ Return(w)
           \/ \E w \in Workers : InHandler(w)
<1> USE DEF PoolOnly, TypeOK
<1>1. CASE UNCHANGED serverVars
  BY <1>1 DEF serverVars, vars
<1>2. CASE MainStep
  <2>1. CASE CreateThread
    <3>1. i \in Workers /\ pc[i] = "unborn"
      BY <2>1, ThreadsAssumption DEF CreateThread, LoopInv, Born, Workers
    <3> QED
      BY <1>2, <2>1, <3>1 DEF MainStep, CreateThread
  <2>2. CASE CreateReturns \/ SigintBeforePool \/ Sigint
    BY <1>2, <2>2 DEF MainStep, CreateReturns, SigintBeforePool, Sigint
  <2>3. CASE AddTask
    BY <1>2, <2>3 DEF MainStep, AddTask, AddLock, AddEnqueue, AddSignal, AddUnlock, Sleepers
  <2>4. CASE Destroy
    BY <1>2, <2>4 DEF MainStep, Destroy, SetFlag, Broadcast, Join, JoinsReturn, Free, UnloadAndExit, Sleepers
  <2>5. CASE \E c \in Conns : Connect(c) \/ Accept(c)
    BY <1>2, <2>5 DEF MainStep, Connect, Accept
  <2> QED
    BY <1>2, <2>1, <2>2, <2>3, <2>4, <2>5 DEF MainStep, Create
<1>3. ASSUME NEW w \in Workers, Elsewhere(w) PROVE PoolOnly
  BY <1>3 DEF Elsewhere, WorkerLock, WorkerWait, WorkerSleep, WorkerExit, WorkerUnlock, SpuriousWake
<1> QED
  BY <1>1, <1>2, <1>3 DEF ServerNext, WorkerStep, Handle

-----------------------------------------------------------------------------
(* The worker that runs a handler is alone.                                *)

\* What a reply says of the seats when its request is about to return
\* (TruthfulReply and ListingIsSnapshot, of one thread).
ReplyHolds(t) ==
    op[t] = "done" =>
        /\ ReplyTrue(t)
        /\ reply[t] = "list" => listing[t] = [n \in 1..NumSeats |-> state[n - 1]]

\* LengthInv, as the thread that is alone sees it.
Counts(t) ==
    /\ sem = IF op[t] \in Inside THEN 0 ELSE 1
    /\ 0 <= standby_length /\ standby_length <= STANDBY_SIZE
    /\ op[t] \notin {"append_count", "hand_over_count"} => standby_length = Len(standby)

Knows(t) == RequestInv(t) /\ ListInv(t) /\ StandbyInv(t) /\ ReplyHolds(t) /\ Counts(t)

Idle(t) == op[t] = "idle" /\ reply[t] = "none" /\ listing[t] = <<>>

\* The others are idle when one may move.
LEMMA Alone ==
    ASSUME ServerIInv, NEW w \in Threads, pc[w] \in Holding
    PROVE  Knows(w) /\ \A t \in Threads : t # w => Idle(t)
<1>1. \A t \in Threads : t # w => op[t] = "idle"
  BY ThreadsAreWorkers DEF ServerIInv, LockInv, ServeInv, Holding
<1>2. \A t \in Threads : t # w => Idle(t)
  BY <1>1 DEF ServerIInv, SeatsInv, RequestInv, ListInv, Idle
<1>3. Counts(w)
  BY <1>1 DEF ServerIInv, SeatsInv, LengthInv, Counts, Inside
<1>4. ReplyHolds(w)
  BY DEF ServerIInv, SeatsInv, TruthfulReply, ListingIsSnapshot, ReplyHolds
<1> QED
  BY <1>2, <1>3, <1>4 DEF ServerIInv, SeatsInv, Knows

\* What the invariant says is what one thread knows and the others are idle.
LEMMA Together ==
    ASSUME NEW w \in Threads, Knows(w)', HolderInv', \A t \in Threads : t # w => Idle(t)'
    PROVE  SeatsInv'
<1>1. ASSUME NEW t \in Threads, Idle(t)' PROVE (RequestInv(t) /\ ListInv(t) /\ StandbyInv(t))'
  <2>1. RequestInv(t)'
    BY <1>1 DEF Idle, RequestInv, OnSeat, Inside, Refusing, HandingOver
  <2>2. ListInv(t)'
    BY <1>1, SeatsAssumption DEF Idle, ListInv
  <2> QED
    BY <1>1, <2>1, <2>2 DEF Idle, StandbyInv
<1>2. LengthInv'
  BY DEF Idle, Knows, Counts, LengthInv, Inside
<1>3. TruthfulReply'
  BY DEF Idle, Knows, ReplyHolds, TruthfulReply
<1>4. ListingIsSnapshot'
  BY DEF Idle, Knows, ListInv, ReplyHolds, ListingIsSnapshot
<1> QED
  BY <1>1, <1>2, <1>3, <1>4 DEF Knows, SeatsInv

-----------------------------------------------------------------------------
(* A handler's step, as the thread that takes it sees it.                  *)

\* The steps move nobody else, and no request changes its mind.
LEMMA SeatStepFrame ==
    ASSUME SeatsTypeOK, NEW w \in Threads, SeatStep(w)
    PROVE  /\ req' = req
           /\ \A t \in Threads : t # w => op'[t] = op[t] /\ reply'[t] = reply[t] /\ listing'[t] = listing[t]
<1> USE DEF SeatsTypeOK, Goto, Answer, seatVars
<1>1. CASE ListRead(w) \/ ListDone(w)
  BY <1>1 DEF ListRead, ListDone
<1>2. CASE Find(w) \/ Grant(w) \/ Refuse(w)
  BY <1>2 DEF Find, Grant, Refuse
<1>3. CASE AppendStandby(w) \/ CountStandby(w)
  BY <1>3 DEF AppendStandby, CountStandby
<1>4. CASE SemWait(w) \/ SemPost(w)
  BY <1>4 DEF SemWait, SemPost
<1>5. CASE LockSeat(w) \/ Reject(w) \/ ConfirmSeat(w) \/ CancelSeat(w)
  BY <1>5 DEF LockSeat, Reject, ConfirmSeat, CancelSeat
<1>6. CASE HandOver(w) \/ UnlockSeat(w)
  BY <1>6 DEF HandOver, UnlockSeat
<1> QED
  BY <1>1, <1>2, <1>3, <1>4, <1>5, <1>6 DEF SeatStep

\* list_seats: what is read is compared with the seats as they are.
LEMMA ListStep ==
    ASSUME SeatsTypeOK, NEW w \in Threads, Knows(w), ListRead(w) \/ ListDone(w)
    PROVE  Knows(w)'
<1> USE DEF Goto, Answer, seatVars
<1>1. listing[w] \in Seq({"A", "P", "O"}) /\ op[w] = "list"
  BY DEF SeatsTypeOK, ListRead, ListDone
<1>2. UNCHANGED seatVars /\ req' = req /\ op'[w] \in {"list", "done"}
  BY DEF SeatsTypeOK, ListRead, ListDone
<1>3. Len(listing[w]) <= NumSeats /\ \A n \in 1..Len(listing[w]) : listing[w][n] = state[n - 1]
  BY <1>1 DEF Knows, ListInv
<1>4. CASE ListRead(w)
  <2> DEFINE l == listing[w]
             e == state[Len(l)]
  <2>1. Len(l) \in Nat /\ Len(l) < NumSeats /\ op'[w] = "list" /\ reply'[w] = "none"
    BY <1>1, <1>4, LenProperties DEF ListRead, SeatsTypeOK, Knows, RequestInv
  <2>2. e \in {"A", "P", "O"}
    BY <2>1, SeatsAssumption DEF SeatsTypeOK, Seats
  <2>3. listing'[w] = Append(l, e)
    BY <1>4 DEF ListRead, SeatsTypeOK
  <2>4. /\ Len(listing'[w]) = Len(l) + 1 /\ listing'[w][Len(l) + 1] = e
        /\ \A n \in 1..Len(l) : listing'[w][n] = l[n]
    <3> DEFINE S == {"A", "P", "O"}
    <3>1. l \in Seq(S) /\ e \in S
      BY <1>1, <2>2
    <3> HIDE DEF l, e, S
    <3> QED
      BY <2>3, <3>1, AppendProperties
  <2>5. /\ Len(listing'[w]) <= NumSeats
        /\ \A n \in 1..Len(listing'[w]) : listing'[w][n] = state[n - 1]
    BY <1>3, <2>1, <2>4, SeatsAssumption
  <2> QED
    BY <1>1, <1>2, <2>1, <2>5
    DEF Knows, RequestInv, ListInv, StandbyInv, ReplyHolds, ReplyTrue, Counts, OnSeat, Inside, Refusing, HandingOver
<1>5. CASE ListDone(w)
  <2>1. Len(listing[w]) = NumSeats /\ listing' = listing /\ op'[w] = "done" /\ reply'[w] = "list"
    BY <1>5 DEF ListDone, SeatsTypeOK
  <2>2. listing[w] = [n \in 1..NumSeats |-> state[n - 1]]
    <3>1. PICK l : l = listing[w]
      OBVIOUS
    <3>2. l \in Seq({"A", "P", "O"}) /\ Len(l) = NumSeats
      BY <2>1, <3>1 DEF SeatsTypeOK
    <3>3. \A n \in 1..NumSeats : l[n] = state[n - 1]
      BY <1>1, <1>3, <2>1, <3>1
    <3>4. l = [n \in 1..NumSeats |-> l[n]]
      BY <3>2
    <3> QED
      BY <3>1, <3>3, <3>4
  <2> QED
    BY <1>1, <1>2, <2>1, <2>2
    DEF Knows, RequestInv, ListInv, StandbyInv, ReplyHolds, ReplyTrue, Counts, OnSeat, Inside, Refusing, HandingOver
<1> QED
  BY <1>4, <1>5

\* view_seat: what it found is still so when it grants the seat or stands by.
LEMMA ViewStep ==
    ASSUME SeatsTypeOK, NEW w \in Threads, Knows(w),
           Find(w) \/ Grant(w) \/ Refuse(w) \/ AppendStandby(w)
    PROVE  Knows(w)'
<1> DEFINE s == req[w].seat
           c == req[w].customer
<1> USE DEF Goto, Answer, seatVars
<1>1. s \in Seats /\ c \in Customers
  BY DEF Knows, RequestInv, OnSeat, Inside, Find, Grant, Refuse, AppendStandby
<1>2. CASE Find(w)
  <2>1. UNCHANGED <<seatVars, req, listing>> /\ op[w] = "find" /\ standby_length = Len(standby)
    BY <1>2 DEF Find, Knows, Counts
  <2>2. \/ op'[w] = "grant" /\ reply'[w] = "confirm?" /\ (state[s] = "A" \/ Mine(w))
        \/ op'[w] = "refuse" /\ reply'[w] = "unavailable" /\ state[s] # "A" /\ ~Mine(w)
    BY <1>2 DEF Find, SeatsTypeOK
  <2>3. Mine(w)' = Mine(w)
    BY <2>1 DEF Mine
  <2> QED
    BY <1>1, <2>1, <2>2, <2>3
    DEF Knows, RequestInv, ListInv, StandbyInv, ReplyHolds, ReplyTrue, Counts, OnSeat, Inside, Refusing, HandingOver
<1>3. CASE Grant(w)
  <2>1. /\ UNCHANGED <<standby, standby_length, sem, req, reply, listing>> /\ op[w] = "grant" /\ op'[w] = "done"
        /\ state'[s] = "P" /\ customer_id'[s] = c
    BY <1>1, <1>3 DEF Grant, SeatsTypeOK
  <2>2. reply[w] = "confirm?"
    BY <2>1 DEF Knows, RequestInv
  <2> QED
    BY <2>1, <2>2
    DEF Knows, RequestInv, ListInv, StandbyInv, ReplyHolds, ReplyTrue, Counts, OnSeat, Inside, Refusing, HandingOver
<1>4. CASE Refuse(w)
  <2>1. /\ UNCHANGED <<seatVars, req, reply, listing>> /\ op[w] = "refuse"
        /\ op'[w] = IF standby_length # STANDBY_SIZE THEN "append_wait" ELSE "done"
    BY <1>4 DEF Refuse, SeatsTypeOK
  <2>2. reply[w] = "unavailable" /\ state[s] # "A" /\ ~Mine(w) /\ standby_length <= STANDBY_SIZE
    BY <2>1 DEF Knows, RequestInv, Counts, Refusing
  <2>3. standby_length # STANDBY_SIZE => standby_length < STANDBY_SIZE
    BY <2>2, StandbyAssumption DEF SeatsTypeOK
  <2>4. Mine(w)' = Mine(w)
    BY <2>1 DEF Mine
  <2> QED
    BY <1>1, <2>1, <2>2, <2>3, <2>4
    DEF Knows, RequestInv, ListInv, StandbyInv, ReplyHolds, ReplyTrue, Counts, OnSeat, Inside, Refusing, HandingOver
<1>5. CASE AppendStandby(w)
  <2>1. /\ UNCHANGED <<state, customer_id, standby_length, sem, req, reply, listing>>
        /\ op[w] = "append" /\ op'[w] = "append_count"
    BY <1>5 DEF AppendStandby, SeatsTypeOK
  <2>2. /\ reply[w] = "unavailable" /\ state[s] # "A" /\ ~Mine(w) /\ standby_length < STANDBY_SIZE
        /\ standby_length = Len(standby)
    BY <2>1 DEF Knows, RequestInv, StandbyInv, Counts, Refusing
  <2>3. Len(standby') = standby_length + 1 /\ standby'[Len(standby')] = c
    <3>1. standby \in Seq(Customers) /\ c \in Customers
      BY <1>1 DEF SeatsTypeOK
    <3>2. CASE standby_length = 0
      BY <1>5, <3>2 DEF AppendStandby
    <3>3. CASE standby_length # 0
      <4>1. standby' = Append(standby, c)
        BY <1>5, <3>3 DEF AppendStandby
      <4> HIDE DEF c
      <4> QED
        BY <2>2, <3>1, <4>1, AppendProperties
    <3> QED
      BY <3>2, <3>3
  <2>4. standby' # <<>>
    BY <2>3 DEF SeatsTypeOK, Knows, Counts
  <2>5. Mine(w)' = Mine(w)
    BY <2>1 DEF Mine
  <2> QED
    BY <1>1, <2>1, <2>2, <2>3, <2>4, <2>5
    DEF Knows, RequestInv, ListInv, StandbyInv, ReplyHolds, ReplyTrue, Counts, OnSeat, Inside, Refusing, HandingOver
<1> QED
  BY <1>2, <1>3, <1>4, <1>5

\* The semaphore, and the length that follows the list.
LEMMA SemaphoreStep ==
    ASSUME SeatsTypeOK, NEW w \in Threads, Knows(w), CountStandby(w) \/ SemWait(w) \/ SemPost(w)
    PROVE  Knows(w)'
<1> USE DEF Goto
<1>1. /\ UNCHANGED <<state, customer_id, standby, req, reply, listing>>
      /\ op[w] \in OnSeat \ {"find", "grant", "refuse", "lock", "decide", "unlock"}
  BY DEF CountStandby, SemWait, SemPost, OnSeat, Inside
<1>2. Mine(w)' = Mine(w)
  BY <1>1 DEF Mine
<1>3. Len(standby) \in Nat /\ standby_length \in Int
  BY LenProperties DEF SeatsTypeOK
<1>4. CASE CountStandby(w)
  <2>1. \/ op[w] = "append_count" /\ standby_length' = standby_length + 1 /\ op'[w] = "append_post"
        \/ op[w] = "hand_over_count" /\ standby_length' = standby_length - 1 /\ op'[w] = "hand_over_post"
    BY <1>4 DEF CountStandby, SeatsTypeOK
  <2>2. UNCHANGED sem
    BY <1>4 DEF CountStandby
  <2>3. RequestInv(w)'
    BY <1>1, <1>2, <2>1 DEF Knows, RequestInv, OnSeat, Inside, Refusing, HandingOver
  <2>4. ListInv(w)' /\ StandbyInv(w)' /\ Counts(w)'
    BY <1>1, <1>3, <2>1, <2>2, StandbyAssumption DEF Knows, RequestInv, ListInv, StandbyInv, Counts, Inside, Refusing, HandingOver
  <2> QED
    BY <2>1, <2>3, <2>4 DEF Knows, ReplyHolds
<1>5. CASE SemWait(w)
  <2>1. \/ op[w] = "append_wait" /\ op'[w] = "append"
        \/ op[w] = "hand_over_wait" /\ op'[w] = "hand_over"
    BY <1>5 DEF SemWait, SeatsTypeOK
  <2>2. UNCHANGED standby_length /\ sem' = sem - 1
    BY <1>5 DEF SemWait
  <2>3. RequestInv(w)'
    BY <1>1, <1>2, <2>1 DEF Knows, RequestInv, OnSeat, Inside, Refusing, HandingOver
  <2>4. ListInv(w)' /\ StandbyInv(w)' /\ Counts(w)'
    BY <1>1, <1>3, <2>1, <2>2 DEF Knows, RequestInv, ListInv, StandbyInv, Counts, Inside, Refusing, HandingOver
  <2> QED
    BY <2>1, <2>3, <2>4 DEF Knows, ReplyHolds
<1>6. CASE SemPost(w)
  <2>1. \/ op[w] = "append_post" /\ op'[w] = "done"
        \/ op[w] = "hand_over_post" /\ op'[w] = "unlock"
    BY <1>6 DEF SemPost, SeatsTypeOK
  <2>2. UNCHANGED standby_length /\ sem' = sem + 1
    BY <1>6 DEF SemPost
  <2>3. RequestInv(w)'
    <3>1. op[w] = "hand_over_post" => ReplyTrue(w)'
      BY <1>1 DEF Knows, RequestInv, HandingOver, ReplyTrue
    <3> QED
      BY <1>1, <1>2, <2>1, <3>1 DEF Knows, RequestInv, OnSeat, Inside, Refusing, HandingOver
  <2>4. ListInv(w)' /\ StandbyInv(w)' /\ Counts(w)'
    BY <1>1, <1>3, <2>1, <2>2 DEF Knows, RequestInv, ListInv, StandbyInv, Counts, Inside, Refusing, HandingOver
  <2>5. ReplyHolds(w)'
    <3>1. CASE op[w] = "append_post"
      <4>1. reply'[w] = "unavailable" /\ state'[req'[w].seat] # "A"
        BY <1>1, <3>1 DEF Knows, RequestInv, Refusing
      <4>2. standby' # <<>> /\ standby'[Len(standby')] = req'[w].customer
        BY <1>1, <3>1 DEF Knows, StandbyInv
      <4> QED
        BY <4>1, <4>2 DEF ReplyHolds, ReplyTrue
    <3>2. CASE op[w] = "hand_over_post"
      BY <2>1, <3>2 DEF ReplyHolds
    <3> QED
      BY <2>1, <3>1, <3>2
  <2> QED
    BY <2>3, <2>4, <2>5 DEF Knows
<1> QED
  BY <1>4, <1>5, <1>6

\* confirm_seat and cancel: who cancels with a positive length in view finds the
\* head of the list it saw.
LEMMA ChangeStep ==
    ASSUME SeatsTypeOK, HolderInv, NEW w \in Threads, Knows(w),
           LockSeat(w) \/ Reject(w) \/ ConfirmSeat(w) \/ CancelSeat(w) \/ HandOver(w) \/ UnlockSeat(w)
    PROVE  Knows(w)'
<1> DEFINE s == req[w].seat
           c == req[w].customer
<1> USE DEF Goto, Answer, seatVars
<1>1. /\ s \in Seats /\ c \in Customers
      /\ UNCHANGED <<standby_length, sem, req, listing>>
  BY DEF Knows, RequestInv, OnSeat, Inside, LockSeat, Reject, ConfirmSeat, CancelSeat, HandOver, UnlockSeat
<1>2. Len(standby) \in Nat /\ standby_length \in Int
  BY LenProperties DEF SeatsTypeOK
<1>3. CASE LockSeat(w)
  <2>1. op[w] = "lock" /\ op'[w] = "decide" /\ UNCHANGED <<state, customer_id, standby, reply>>
    BY <1>3 DEF LockSeat, SeatsTypeOK
  <2> QED
    BY <1>1, <1>2, <2>1
    DEF Knows, RequestInv, ListInv, StandbyInv, ReplyHolds, ReplyTrue, Counts, OnSeat, Inside, Refusing, HandingOver
<1>4. CASE Reject(w)
  <2>1. op[w] = "decide" /\ op'[w] = "unlock" /\ UNCHANGED <<state, customer_id, standby>> /\ ~Mine(w)
    BY <1>4 DEF Reject, SeatsTypeOK
  <2>2. \/ reply'[w] = "denied" /\ customer_id[s] # c
        \/ reply'[w] = "not pending" /\ customer_id[s] = c
    BY <1>4 DEF Reject, SeatsTypeOK
  <2>3. reply'[w] = "denied" => state[s] = "A" \/ customer_id[s] \in Customers \ {c}
    BY <1>1, <2>2 DEF HolderInv
  <2>4. reply'[w] = "not pending" => state[s] # "P"
    BY <2>1, <2>2 DEF Mine
  <2> QED
    BY <1>1, <1>2, <2>1, <2>2, <2>3, <2>4
    DEF Knows, RequestInv, ListInv, StandbyInv, ReplyHolds, ReplyTrue, Counts, OnSeat, Inside, Refusing, HandingOver
<1>5. CASE ConfirmSeat(w)
  <2>1. /\ op[w] = "decide" /\ op'[w] = "unlock" /\ UNCHANGED <<customer_id, standby>>
        /\ reply'[w] = "confirmed" /\ state'[s] = "O" /\ customer_id[s] = c
    BY <1>1, <1>5 DEF ConfirmSeat, SeatsTypeOK, Mine
  <2> QED
    BY <1>1, <1>2, <2>1
    DEF Knows, RequestInv, ListInv, StandbyInv, ReplyHolds, ReplyTrue, Counts, OnSeat, Inside, Refusing, HandingOver
<1>6. CASE CancelSeat(w)
  <2>1. /\ op[w] = "decide" /\ UNCHANGED <<customer_id, standby>> /\ req[w].kind = "cancel"
        /\ reply'[w] = "cancelled" /\ Mine(w)
        /\ \/ op'[w] = "hand_over_wait" /\ state' = state /\ standby_length > 0
           \/ op'[w] = "unlock" /\ state'[s] = "A"
    BY <1>1, <1>6 DEF CancelSeat, SeatsTypeOK
  <2>2. state' = state => Mine(w)'
    BY <1>1, <2>1 DEF Mine
  <2> QED
    BY <1>1, <1>2, <2>1, <2>2
    DEF Knows, RequestInv, ListInv, StandbyInv, ReplyHolds, ReplyTrue, Counts, OnSeat, Inside, Refusing, HandingOver
<1>7. CASE HandOver(w)
  <2>1. op[w] = "hand_over" /\ op'[w] = "hand_over_count" /\ reply' = reply /\ state'[s] = "O"
    BY <1>1, <1>7 DEF HandOver, SeatsTypeOK
  <2>2. Len(standby') = Len(standby) - 1 /\ Len(standby) = standby_length /\ standby_length > 0
    <3>1. standby' = Tail(standby) /\ standby \in Seq(Customers) /\ standby # <<>>
      BY <1>7 DEF HandOver, SeatsTypeOK
    <3> QED
      BY <2>1, <3>1 DEF Knows, Counts, StandbyInv
  <2> QED
    BY <1>1, <1>2, <2>1, <2>2
    DEF Knows, RequestInv, ListInv, StandbyInv, ReplyHolds, ReplyTrue, Counts, OnSeat, Inside, Refusing, HandingOver
<1>8. CASE UnlockSeat(w)
  <2>1. op[w] = "unlock" /\ op'[w] = "done" /\ UNCHANGED <<state, customer_id, standby, reply>>
    BY <1>8 DEF UnlockSeat, SeatsTypeOK
  <2> QED
    BY <1>1, <1>2, <2>1
    DEF Knows, RequestInv, ListInv, StandbyInv, ReplyHolds, ReplyTrue, Counts, OnSeat, Inside, Refusing, HandingOver
<1> QED
  BY <1>3, <1>4, <1>5, <1>6, <1>7, <1>8

\* A seat is only ever given to a customer: of a request or of the standby list.
LEMMA HolderStep ==
    ASSUME SeatsTypeOK, HolderInv, NEW w \in Threads, Knows(w), SeatStep(w)
    PROVE  HolderInv'
<1> DEFINE s == req[w].seat
           c == req[w].customer
<1> USE DEF Goto, Answer, seatVars
<1>1. CASE Grant(w)
  <2>1. s \in Seats /\ c \in Customers
    BY <1>1 DEF Grant, Knows, RequestInv, OnSeat
  <2> QED
    BY <1>1, <2>1 DEF Grant, HolderInv, SeatsTypeOK
<1>2. CASE ConfirmSeat(w) \/ CancelSeat(w)
  BY <1>2 DEF ConfirmSeat, CancelSeat, HolderInv, Mine, SeatsTypeOK
<1>3. CASE HandOver(w)
  <2>1. Head(standby) \in Customers
    BY <1>3 DEF HandOver, SeatsTypeOK
  <2> QED
    BY <1>3, <2>1 DEF HandOver, HolderInv, SeatsTypeOK
<1>4. CASE UNCHANGED <<state, customer_id>>
  BY <1>4 DEF HolderInv
<1> QED
  BY <1>1, <1>2, <1>3, <1>4
  DEF SeatStep, ListRead, ListDone, Find, Refuse, AppendStandby, CountStandby, SemWait, SemPost, LockSeat, Reject, UnlockSeat

-----------------------------------------------------------------------------
(* Typing.                                                                 *)

\* A request names one of the seats unless it names an unknown one.
LEMMA RequestType ==
    ASSUME NEW r \in Request
    PROVE  /\ r.kind \in {"view", "confirm", "cancel", "list", "other"}
           /\ r.kind \in {"view", "confirm", "cancel"} /\ r.seat # UnknownSeat
                => r.seat \in Seats /\ r.customer \in Customers
  BY DEF Request, SeatRequest, PlainRequest

LEMMA SeatsTypeInit == SeatsInit => SeatsTypeOK
<1> SUFFICES ASSUME SeatsInit PROVE SeatsTypeOK
  OBVIOUS
<1>1. /\ state \in [Seats -> {"A", "P", "O"}]
      /\ customer_id \in [Seats -> Customers \cup {NoCustomer}]
      /\ seat_mutex \in [Seats -> Threads \cup {NoThread}]
  BY DEF SeatsInit
<1>2. standby \in Seq(Customers) /\ standby_length \in Int /\ sem \in Int
  BY DEF SeatsInit
<1>3. /\ op \in [Threads -> OpLabel]
      /\ req \in [Threads -> Request \cup {NoRequest}]
      /\ reply \in [Threads -> Reply]
      /\ listing \in [Threads -> Seq({"A", "P", "O"})]
  BY DEF SeatsInit, OpLabel, Reply
<1> QED
  BY <1>1, <1>2, <1>3 DEF SeatsTypeOK

LEMMA SeatsTypeStep ==
    ASSUME SeatsTypeOK, NEW w \in Threads, Knows(w), SeatStep(w)
    PROVE  SeatsTypeOK'
<1> USE DEF Goto, Answer, seatVars
<1> DEFINE s == req[w].seat
           c == req[w].customer
<1>1. CASE ListRead(w)
  <2> DEFINE l == listing[w]
             e == state[Len(l)]
             S == {"A", "P", "O"}
  <2>1. l \in Seq(S) /\ Len(l) \in Nat /\ Len(l) < NumSeats
    BY <1>1, LenProperties DEF ListRead, SeatsTypeOK
  <2>2. e \in S
    BY <2>1, SeatsAssumption DEF Seats, SeatsTypeOK
  <2>3. Append(l, e) \in Seq(S)
    <3> HIDE DEF l, e, S
    <3> QED
      BY <2>1, <2>2, AppendProperties
  <2> QED
    BY <1>1, <2>3 DEF ListRead, SeatsTypeOK
<1>2. CASE ListDone(w)
  BY <1>2 DEF ListDone, SeatsTypeOK, OpLabel, Reply
<1>3. CASE Find(w) \/ Refuse(w)
  <2>1. CASE Find(w)
    BY <2>1 DEF Find, SeatsTypeOK, OpLabel, Reply
  <2>2. CASE Refuse(w)
    BY <2>2 DEF Refuse, SeatsTypeOK, OpLabel, Reply
  <2> QED
    BY <1>3, <2>1, <2>2
<1>4. CASE Grant(w)
  <2>1. s \in Seats /\ c \in Customers
    BY <1>4 DEF Grant, Knows, RequestInv, OnSeat
  <2> QED
    BY <1>4, <2>1 DEF Grant, SeatsTypeOK, OpLabel
<1>5. CASE AppendStandby(w)
  <2>1. c \in Customers
    BY <1>5 DEF AppendStandby, Knows, RequestInv, OnSeat, Inside
  <2>2. <<c>> \in Seq(Customers) /\ Append(standby, c) \in Seq(Customers)
    <3>1. standby \in Seq(Customers)
      BY DEF SeatsTypeOK
    <3> HIDE DEF c
    <3> QED
      BY <2>1, <3>1
  <2> QED
    BY <1>5, <2>2 DEF AppendStandby, SeatsTypeOK, OpLabel
<1>6. CASE CountStandby(w)
  <2>1. PICK l \in OpLabel : op' = [op EXCEPT ![w] = l]
    BY <1>6 DEF CountStandby, OpLabel
  <2>2. standby_length' \in Int
    BY <1>6 DEF CountStandby, SeatsTypeOK
  <2> QED
    BY <1>6, <2>1, <2>2 DEF CountStandby, SeatsTypeOK
<1>7. CASE SemWait(w) \/ SemPost(w)
  <2>1. PICK l \in OpLabel : op' = [op EXCEPT ![w] = l]
    BY <1>7 DEF SemWait, SemPost, OpLabel
  <2>2. sem' \in Int
    BY <1>7 DEF SemWait, SemPost, SeatsTypeOK
  <2> QED
    BY <1>7, <2>1, <2>2 DEF SemWait, SemPost, SeatsTypeOK
<1>8. CASE LockSeat(w) \/ UnlockSeat(w)
  <2>1. PICK l \in OpLabel : op' = [op EXCEPT ![w] = l]
    BY <1>8 DEF LockSeat, UnlockSeat, OpLabel
  <2>2. PICK h \in Threads \cup {NoThread} : seat_mutex' = [seat_mutex EXCEPT ![s] = h]
    BY <1>8 DEF LockSeat, UnlockSeat
  <2> QED
    BY <1>8, <2>1, <2>2 DEF LockSeat, UnlockSeat, SeatsTypeOK
<1>9. CASE Reject(w) \/ ConfirmSeat(w) \/ CancelSeat(w)
  <2>1. CASE Reject(w)
    BY <2>1 DEF Reject, SeatsTypeOK, OpLabel, Reply
  <2>2. CASE ConfirmSeat(w)
    BY <2>2 DEF ConfirmSeat, SeatsTypeOK, OpLabel, Reply
  <2>3. CASE CancelSeat(w)
    BY <2>3 DEF CancelSeat, SeatsTypeOK, OpLabel, Reply
  <2> QED
    BY <1>9, <2>1, <2>2, <2>3
<1>10. CASE HandOver(w)
  <2>1. Tail(standby) \in Seq(Customers) /\ Head(standby) \in Customers
    <3>1. standby \in Seq(Customers) /\ standby # <<>>
      BY <1>10 DEF HandOver, SeatsTypeOK
    <3> QED
      BY <3>1
  <2> QED
    BY <1>10, <2>1 DEF HandOver, SeatsTypeOK, OpLabel
<1> QED
  BY <1>1, <1>2, <1>3, <1>4, <1>5, <1>6, <1>7, <1>8, <1>9, <1>10 DEF SeatStep

-----------------------------------------------------------------------------
(* The invariant of the server.                                            *)

LEMMA ServerIInvInit == ServerInit => ServerIInv
<1> SUFFICES ASSUME ServerInit PROVE ServerIInv
  OBVIOUS
<1>1. ServerTypeOK /\ LockInv /\ LoopInv
  BY TypeInit, LockInit, LoopInit, SeatsTypeInit DEF ServerInit, ServerTypeOK
<1>2. \A t \in Threads : Idle(t)
  BY DEF ServerInit, SeatsInit, Idle
<1>3. ServeInv
  BY <1>2 DEF ServeInv, Idle
<1>4. \A t \in Threads : RequestInv(t) /\ StandbyInv(t)
  BY <1>2 DEF Idle, RequestInv, StandbyInv, OnSeat, Inside, Refusing, HandingOver
<1>5. \A t \in Threads : ListInv(t)
  BY <1>2, SeatsAssumption DEF Idle, ListInv
<1>6. LengthInv
  BY <1>2, StandbyAssumption DEF Idle, LengthInv, ServerInit, SeatsInit, Inside
<1>7. TruthfulReply /\ ListingIsSnapshot
  BY <1>2 DEF Idle, TruthfulReply, ListingIsSnapshot
<1>8. HolderInv
  BY DEF ServerInit, SeatsInit, HolderInv
<1> QED
  BY <1>1, <1>3, <1>4, <1>5, <1>6, <1>7, <1>8 DEF ServerIInv, SeatsInv

LEMMA HandlerStep ==
    ASSUME ServerIInv, NEW w \in Workers, InHandler(w)
    PROVE  SeatsTypeOK' /\ ServeInv' /\ SeatsInv'
<1>1. /\ SeatStep(w) /\ pc[w] = "run" /\ UNCHANGED vars /\ w \in Threads /\ SeatsTypeOK
  BY ThreadsAreWorkers DEF InHandler, ServerIInv, ServerTypeOK
<1>2. Knows(w) /\ \A t \in Threads : t # w => Idle(t)
  BY <1>1, Alone DEF Holding
<1>3. Knows(w)'
  BY <1>1, <1>2, ListStep, ViewStep, SemaphoreStep, ChangeStep DEF SeatStep, ServerIInv, SeatsInv
<1>4. \A t \in Threads : t # w => Idle(t)'
  BY <1>1, <1>2, SeatStepFrame DEF Idle
<1>5. SeatsInv'
  <2>1. HolderInv'
    BY <1>1, <1>2, HolderStep DEF ServerIInv, SeatsInv
  <2> QED
    BY <1>1, <1>3, <1>4, <2>1, Together
<1>6. ServeInv'
  BY <1>1, <1>4 DEF ServeInv, Idle, vars
<1>7. SeatsTypeOK'
  BY <1>1, <1>2, SeatsTypeStep
<1> QED
  BY <1>5, <1>6, <1>7

\* handle_connection is called by a worker nobody else is beside, and returns.
LEMMA CallStep ==
    ASSUME ServerIInv, NEW w \in Workers, NEW r \in Request, WorkerTake(w), Call(w, r)
    PROVE  SeatsTypeOK' /\ ServeInv' /\ SeatsInv'
<1>1. /\ pc[w] = "check" /\ pc' = [pc EXCEPT ![w] = "run"] /\ w \in Threads /\ SeatsTypeOK /\ TypeOK
      /\ UNCHANGED <<seatVars, listing>> /\ op[w] = "idle" /\ req' = [req EXCEPT ![w] = r]
  BY ThreadsAreWorkers DEF WorkerTake, Call, ServerIInv, ServerTypeOK
<1>2. Knows(w) /\ \A t \in Threads : t # w => Idle(t)
  BY <1>1, Alone DEF Holding
<1>3. PICK l \in {"list", "find", "lock", "done"}, e \in {"none", "not found"} :
          /\ op' = [op EXCEPT ![w] = l] /\ reply' = [reply EXCEPT ![w] = e]
          /\ l # "done" => e = "none"
          /\ e = "not found" => r.seat \notin Seats
          /\ l \in {"find", "lock"} => r.seat \in Seats /\ r.customer \in Customers
  <2>1. reply[w] = "none" /\ reply = [reply EXCEPT ![w] = "none"]
    BY <1>1, <1>2 DEF Knows, RequestInv, SeatsTypeOK
  <2> DEFINE named == r.kind \in {"view", "confirm", "cancel"} /\ r.seat = UnknownSeat
  <2>2. CASE named
    <3>1. r.seat \notin Seats
      BY <2>2, SeatsAssumption DEF Seats, UnknownSeat
    <3> QED
      BY <1>1, <2>2, <3>1 DEF Call, Goto, Answer
  <2>3. CASE ~named
    <3>1. op' = [op EXCEPT ![w] = Dispatch(r.kind)] /\ reply' = reply
      BY <2>3 DEF Call, Goto
    <3>2. /\ Dispatch(r.kind) \in {"list", "find", "lock", "done"}
          /\ Dispatch(r.kind) \in {"find", "lock"} => r.kind \in {"view", "confirm", "cancel"}
      BY RequestType DEF Dispatch
    <3>3. Dispatch(r.kind) \in {"find", "lock"} => r.seat \in Seats /\ r.customer \in Customers
      BY <2>3, <3>2, RequestType
    <3> QED
      BY <2>1, <3>1, <3>2, <3>3
  <2> QED
    BY <2>2, <2>3
<1>4. SeatsTypeOK'
  <2>1. op' \in [Threads -> OpLabel] /\ reply' \in [Threads -> Reply]
    BY <1>1, <1>3 DEF SeatsTypeOK, OpLabel, Reply
  <2> QED
    BY <1>1, <2>1 DEF SeatsTypeOK, seatVars
<1>5. /\ op'[w] = l /\ reply'[w] = e /\ req'[w] = r /\ listing'[w] = listing[w]
      /\ \A t \in Threads : t # w => op'[t] = op[t] /\ reply'[t] = reply[t] /\ listing'[t] = listing[t]
  BY <1>1, <1>3 DEF SeatsTypeOK
<1>6. \A t \in Threads : t # w => Idle(t)'
  BY <1>2, <1>5 DEF Idle
<1>7. Knows(w)'
  <2>1. RequestInv(w)' /\ StandbyInv(w)'
    BY <1>3, <1>5 DEF RequestInv, StandbyInv, OnSeat, Inside, Refusing, HandingOver
  <2>2. ListInv(w)' /\ Counts(w)'
    BY <1>1, <1>2, <1>3, <1>5 DEF Knows, ListInv, Counts, Inside, seatVars
  <2>3. ReplyHolds(w)'
    BY <1>3, <1>5 DEF ReplyHolds, ReplyTrue
  <2> QED
    BY <2>1, <2>2, <2>3 DEF Knows
<1>8. SeatsInv'
  <2>1. HolderInv'
    BY <1>1 DEF ServerIInv, SeatsInv, HolderInv, seatVars
  <2> QED
    BY <1>1, <1>6, <1>7, <2>1, Together
<1>9. ServeInv'
  BY <1>1, <1>6, ThreadsAreWorkers DEF ServeInv, Idle, TypeOK
<1> QED
  BY <1>4, <1>8, <1>9

LEMMA ReturnStep ==
    ASSUME ServerIInv, NEW w \in Workers, WorkerFinish(w), Return(w)
    PROVE  SeatsTypeOK' /\ ServeInv' /\ SeatsInv'
<1>1. /\ pc[w] = "run" /\ w \in Threads /\ SeatsTypeOK
      /\ UNCHANGED seatVars /\ op[w] = "done"
  BY ThreadsAreWorkers DEF WorkerFinish, Return, ServerIInv, ServerTypeOK
<1>2. Knows(w) /\ \A t \in Threads : t # w => Idle(t)
  BY <1>1, Alone DEF Holding
<1>3. /\ op' = [op EXCEPT ![w] = "idle"] /\ reply' = [reply EXCEPT ![w] = "none"]
      /\ req' = [req EXCEPT ![w] = NoRequest] /\ listing' = [listing EXCEPT ![w] = <<>>]
  BY DEF Return, Goto, Answer
<1>4. \A t \in Threads : Idle(t)'
  BY <1>1, <1>2, <1>3 DEF Idle, SeatsTypeOK
<1>5. SeatsTypeOK'
  <2>1. op' \in [Threads -> OpLabel] /\ reply' \in [Threads -> Reply]
    BY <1>1, <1>3 DEF SeatsTypeOK, OpLabel, Reply
  <2>2. req' \in [Threads -> Request \cup {NoRequest}] /\ listing' \in [Threads -> Seq({"A", "P", "O"})]
    BY <1>1, <1>3 DEF SeatsTypeOK
  <2> QED
    BY <1>1, <2>1, <2>2 DEF SeatsTypeOK, seatVars
<1>6. Knows(w)'
  <2>1. RequestInv(w)' /\ StandbyInv(w)' /\ ReplyHolds(w)'
    BY <1>1, <1>4 DEF Idle, RequestInv, StandbyInv, ReplyHolds, OnSeat, Inside, Refusing, HandingOver
  <2>2. ListInv(w)' /\ Counts(w)'
    BY <1>1, <1>2, <1>4, SeatsAssumption DEF Idle, Knows, ListInv, Counts, Inside, seatVars
  <2> QED
    BY <2>1, <2>2 DEF Knows
<1>7. SeatsInv'
  <2>1. HolderInv'
    BY <1>1 DEF ServerIInv, SeatsInv, HolderInv, seatVars
  <2> QED
    BY <1>1, <1>4, <1>6, <2>1, Together
<1>8. ServeInv'
  BY <1>4 DEF ServeInv, Idle
<1> QED
  BY <1>5, <1>7, <1>8

LEMMA ServerIInvNext == ServerIInv /\ [ServerNext]_serverVars => ServerIInv'
<1> SUFFICES ASSUME ServerIInv, [ServerNext]_serverVars PROVE ServerIInv'
  OBVIOUS
<1>1. TypeOK' /\ LockInv' /\ LoopInv'
  BY PoolStep, TypeNext, LockNext, LoopNext DEF ServerIInv, ServerTypeOK
<1>2. CASE PoolOnly
  <2>1. SeatsTypeOK' /\ SeatsInv'
    <3>1. UNCHANGED allSeatVars /\ SeatsTypeOK /\ SeatsInv
      BY <1>2 DEF PoolOnly, ServerIInv, ServerTypeOK
    <3>2. ASSUME NEW t \in Threads PROVE RequestInv(t)'
      <4>1. ReplyTrue(t)' = ReplyTrue(t) /\ Mine(t)' = Mine(t)
        BY <3>1 DEF allSeatVars, ReplyTrue, Mine
      <4> QED
        BY <3>1, <4>1 DEF allSeatVars, SeatsInv, RequestInv
    <3>3. TruthfulReply'
      BY <3>1 DEF allSeatVars, SeatsInv, TruthfulReply, ReplyTrue
    <3>4. (\A t \in Threads : ListInv(t) /\ StandbyInv(t))' /\ HolderInv' /\ LengthInv' /\ ListingIsSnapshot'
      BY <3>1 DEF allSeatVars, SeatsInv, ListInv, StandbyInv, HolderInv, LengthInv, ListingIsSnapshot
    <3>5. SeatsTypeOK'
      BY <3>1 DEF allSeatVars, SeatsTypeOK
    <3> QED
      BY <3>2, <3>3, <3>4, <3>5 DEF SeatsInv
  <2>2. ServeInv'
    BY <1>2, ThreadsAreWorkers DEF PoolOnly, allSeatVars, ServerIInv, ServeInv
  <2> QED
    BY <1>1, <2>1, <2>2 DEF ServerIInv, ServerTypeOK
<1>3. ASSUME NEW w \in Workers, NEW r \in Request, WorkerTake(w), Call(w, r) PROVE ServerIInv'
  BY <1>1, <1>3, CallStep DEF ServerIInv, ServerTypeOK
<1>4. ASSUME NEW w \in Workers, WorkerFinish(w), Return(w) PROVE ServerIInv'
  BY <1>1, <1>4, ReturnStep DEF ServerIInv, ServerTypeOK
<1>5. ASSUME NEW w \in Workers, InHandler(w) PROVE ServerIInv'
  BY <1>1, <1>5, HandlerStep DEF ServerIInv, ServerTypeOK
<1>6. TypeOK /\ LoopInv
  BY DEF ServerIInv, ServerTypeOK
<1> QED
  BY <1>2, <1>3, <1>4, <1>5, <1>6, ServerCases

LEMMA ServerIInvCorrect == ServerSpec => []ServerIInv
  BY ServerIInvInit, ServerIInvNext, PTL DEF ServerSpec

-----------------------------------------------------------------------------
(* The properties.                                                         *)

\* Type correctness of the whole server, seats and pool.
THEOREM ServerTypeCorrect == ServerSpec => []ServerTypeOK
<1>1. ServerIInv => ServerTypeOK
  BY DEF ServerIInv
<1> QED
  BY <1>1, ServerIInvCorrect, PTL

\* A reply tells how the seat and the standby list are when the request returns,
\* although view_seat has looked at them under no lock of its own; only to be denied
\* an available seat, as held by another user, tells nothing of who holds it.
THEOREM RepliesTrue == ServerSpec => []TruthfulReply
<1>1. ServerIInv => TruthfulReply
  BY DEF ServerIInv, SeatsInv
<1> QED
  BY <1>1, ServerIInvCorrect, PTL

\* list_seats reads the seats one by one and still tells of one moment.
THEOREM ListingsCorrect == ServerSpec => []ListingIsSnapshot
<1>1. ServerIInv => ListingIsSnapshot
  BY DEF ServerIInv, SeatsInv
<1> QED
  BY <1>1, ServerIInvCorrect, PTL

\* The standby list and its length agree whenever nobody changes them, the limit is
\* kept though it is tested before the semaphore is taken, and cancel never takes
\* the head of an empty list.
THEOREM StandbyCorrect == ServerSpec => []StandbyConsistent
<1>1. ServerIInv => StandbyConsistent
  <2> SUFFICES ASSUME ServerIInv PROVE StandbyConsistent
    OBVIOUS
  <2>1. LengthInv /\ \A t \in Threads : StandbyInv(t)
    BY DEF ServerIInv, SeatsInv
  <2>2. sem = 1 => standby_length = Len(standby)
    BY <2>1 DEF LengthInv, Inside
  <2>3. ASSUME NEW t \in Threads, op[t] = "hand_over" PROVE standby # <<>>
    <3>1. pc[t] = "run"
      BY <2>3 DEF ServerIInv, ServeInv
    <3>2. Counts(t)
      BY <2>3, <3>1, Alone DEF Knows, Holding
    <3>3. Len(standby) > 0
      BY <2>1, <2>3, <3>2 DEF Counts, StandbyInv
    <3> QED
      BY <3>3
  <2> QED
    BY <2>1, <2>2, <2>3 DEF LengthInv, StandbyConsistent
<1> QED
  BY <1>1, ServerIInvCorrect, PTL

-----------------------------------------------------------------------------
(* What a step does to the reservations.                                   *)

\* Five steps of a handler change the seats, their customers or the standby list,
\* and the worker that takes one knows the seat.
LEMMA SeatsMove ==
    ASSUME ServerIInv, [ServerNext]_serverVars
    PROVE  \/ UNCHANGED <<state, customer_id, standby>>
           \/ \E w \in Threads : /\ Grant(w) \/ AppendStandby(w) \/ ConfirmSeat(w) \/ CancelSeat(w) \/ HandOver(w)
                                 /\ Knows(w) /\ req[w].seat \in Seats /\ req[w].customer \in Customers
<1>1. CASE PoolOnly
  BY <1>1 DEF PoolOnly, allSeatVars
<1>2. CASE \E w \in Workers : WorkerTake(w) /\ \E r \in Request : Call(w, r)
  BY <1>2 DEF Call, seatVars
<1>3. CASE \E w \in Workers : WorkerFinish(w) /\ Return(w)
  BY <1>3 DEF Return, seatVars
<1>4. ASSUME NEW w \in Workers, InHandler(w), ~(UNCHANGED <<state, customer_id, standby>>)
      PROVE  /\ Grant(w) \/ AppendStandby(w) \/ ConfirmSeat(w) \/ CancelSeat(w) \/ HandOver(w)
             /\ Knows(w) /\ req[w].seat \in Seats /\ req[w].customer \in Customers /\ w \in Threads
  <2>1. SeatStep(w) /\ pc[w] = "run" /\ w \in Threads
    BY <1>4, ThreadsAreWorkers DEF InHandler
  <2>2. Grant(w) \/ AppendStandby(w) \/ ConfirmSeat(w) \/ CancelSeat(w) \/ HandOver(w)
    BY <1>4, <2>1 DEF SeatStep, ListRead, ListDone, Find, Refuse, CountStandby, SemWait, SemPost, LockSeat, Reject,
                      UnlockSeat, seatVars
  <2>3. Knows(w)
    BY <2>1, Alone DEF Holding
  <2>4. op[w] \in OnSeat
    BY <2>2 DEF Grant, AppendStandby, ConfirmSeat, CancelSeat, HandOver, OnSeat, Inside
  <2> QED
    BY <2>1, <2>2, <2>3, <2>4 DEF Knows, RequestInv
<1> QED
  BY <1>1, <1>2, <1>3, <1>4, ServerCases DEF ServerIInv, ServerTypeOK

\* What each of them does to its seat.
LEMMA SeatEffect ==
    ASSUME SeatsTypeOK, NEW w \in Threads, Knows(w), req[w].seat \in Seats,
           Grant(w) \/ AppendStandby(w) \/ ConfirmSeat(w) \/ CancelSeat(w) \/ HandOver(w)
    PROVE  LET s == req[w].seat
           IN  /\ \A q \in Seats : q # s => state'[q] = state[q] /\ customer_id'[q] = customer_id[q]
               /\ state[s] = "O" => state'[s] = "O" /\ customer_id'[s] = customer_id[s]
               /\ state[s] = "P" /\ (state'[s] # "P" \/ customer_id'[s] # customer_id[s])
                    => customer_id[s] = req[w].customer /\ req[w].kind \in {"confirm", "cancel"}
<1> DEFINE s == req[w].seat
<1>1. CASE Grant(w)
  <2>1. state[s] = "A" \/ Mine(w)
    BY <1>1 DEF Grant, Knows, RequestInv
  <2> QED
    BY <1>1, <2>1 DEF Grant, Mine, SeatsTypeOK
<1>2. CASE AppendStandby(w)
  BY <1>2 DEF AppendStandby
<1>3. CASE ConfirmSeat(w) \/ CancelSeat(w)
  BY <1>3 DEF ConfirmSeat, CancelSeat, Mine, SeatsTypeOK
<1>4. CASE HandOver(w)
  <2>1. Mine(w) /\ req[w].kind = "cancel"
    BY <1>4 DEF HandOver, Knows, RequestInv, HandingOver
  <2> QED
    BY <1>4, <2>1 DEF HandOver, Mine, SeatsTypeOK
<1> QED
  BY <1>1, <1>2, <1>3, <1>4

\* No request leads out of OCCUPIED: a confirmed seat, or one that was handed over,
\* stays its customer's.
THEOREM OccupiedStays == ServerSpec => OccupiedIsFinal
<1>1. ASSUME ServerIInv, [ServerNext]_serverVars
      PROVE  \A s \in Seats : state[s] = "O" => state'[s] = "O" /\ customer_id'[s] = customer_id[s]
  BY <1>1, SeatsMove, SeatEffect DEF ServerIInv, ServerTypeOK
<1> QED
  BY <1>1, ServerIInvCorrect, PTL DEF ServerSpec, OccupiedIsFinal

\* A pending seat moves only for the customer it is pending for.
THEOREM HolderMoves == ServerSpec => OnlyHolderMoves
<1>1. ASSUME ServerIInv, [ServerNext]_serverVars
      PROVE  \A s \in Seats : state[s] = "P" /\ (state'[s] # "P" \/ customer_id'[s] # customer_id[s])
                 => \E t \in Threads : /\ req[t].seat = s /\ req[t].customer = customer_id[s]
                                       /\ req[t].kind \in {"confirm", "cancel"}
  BY <1>1, SeatsMove, SeatEffect DEF ServerIInv, ServerTypeOK
<1> QED
  BY <1>1, ServerIInvCorrect, PTL DEF ServerSpec, OnlyHolderMoves

-----------------------------------------------------------------------------
(* The reservations implement SeatBook.                                    *)

LEMMA BookInit == ServerInit => Book!Init
  BY DEF ServerInit, SeatsInit, Book!Init, Holder

LEMMA BookNext == ServerIInv /\ [ServerNext]_serverVars => [Book!Next]_(Book!vars)
<1> SUFFICES ASSUME ServerIInv, [ServerNext]_serverVars
             PROVE  Book!Next \/ UNCHANGED Book!vars
  OBVIOUS
<1>1. SeatsTypeOK
  BY DEF ServerIInv, ServerTypeOK
<1>2. CASE UNCHANGED <<state, customer_id, standby>>
  BY <1>2 DEF Book!vars, Holder
<1>3. ASSUME NEW w \in Threads, Knows(w), req[w].seat \in Seats, req[w].customer \in Customers,
             Grant(w) \/ AppendStandby(w) \/ ConfirmSeat(w) \/ CancelSeat(w) \/ HandOver(w)
      PROVE  Book!Next \/ UNCHANGED Book!vars
  <2> DEFINE s == req[w].seat
             c == req[w].customer
  <2>1. standby_length \in Int /\ Len(standby) \in Nat /\ standby \in Seq(Customers)
    BY <1>1, LenProperties DEF SeatsTypeOK
  <2>2. CASE Grant(w)
    <3>1. UNCHANGED standby /\ state' = [state EXCEPT ![s] = "P"] /\ customer_id' = [customer_id EXCEPT ![s] = c]
      BY <2>2 DEF Grant
    <3>2. state[s] = "A" \/ Mine(w)
      BY <1>3, <2>2 DEF Grant, Knows, RequestInv
    <3>3. CASE Mine(w)
      BY <1>1, <3>1, <3>3 DEF Mine, SeatsTypeOK, Book!vars, Holder
    <3>4. CASE state[s] = "A"
      <4>1. [q \in Seats |-> Holder(q)'] = [[q \in Seats |-> Holder(q)] EXCEPT ![s] = c]
        BY <1>1, <1>3, <3>1 DEF Holder, SeatsTypeOK
      <4>2. Book!Hold(s, c)
        BY <3>1, <3>4, <4>1 DEF Book!Hold
      <4> QED
        BY <1>3, <4>2 DEF Book!Next
    <3> QED
      BY <3>2, <3>3, <3>4
  <2>3. CASE AppendStandby(w)
    <3>1. /\ UNCHANGED <<state, customer_id>> /\ standby_length = Len(standby) /\ op[w] = "append"
          /\ standby' = IF standby_length = 0 THEN <<c>> ELSE Append(standby, c)
      BY <1>3, <2>3 DEF AppendStandby, Knows, Counts
    <3>2. state[s] # "A" /\ ~Mine(w) /\ Len(standby) < STANDBY_SIZE
      BY <1>3, <3>1 DEF Knows, RequestInv, StandbyInv, Refusing
    <3>3. standby' = Append(standby, c)
      <4>1. CASE standby_length = 0
        <5>1. standby = <<>>
          BY <2>1, <3>1, <4>1, EmptySeq
        <5> QED
          BY <3>1, <4>1, <5>1
      <4> QED
        BY <3>1, <4>1
    <3>4. ~Book!HeldBy(s, c)
      BY <1>3, <3>2 DEF Book!HeldBy, Mine, Holder
    <3>5. Book!StandBy(s, c)
      BY <3>1, <3>2, <3>3, <3>4 DEF Book!StandBy, Holder
    <3> QED
      BY <1>3, <3>5 DEF Book!Next
  <2>4. CASE ConfirmSeat(w)
    <3>1. Mine(w) /\ UNCHANGED <<standby, customer_id>> /\ state' = [state EXCEPT ![s] = "O"]
      BY <2>4 DEF ConfirmSeat
    <3>2. Book!HeldBy(s, c)
      BY <1>3, <3>1 DEF Book!HeldBy, Mine, Holder
    <3>3. [q \in Seats |-> Holder(q)'] = [q \in Seats |-> Holder(q)]
      BY <1>1, <3>1 DEF Holder, SeatsTypeOK, Mine
    <3>4. Book!Confirm(s, c)
      BY <3>1, <3>2, <3>3 DEF Book!Confirm
    <3> QED
      BY <1>3, <3>4 DEF Book!Next
  <2>5. CASE CancelSeat(w)
    <3>1. Mine(w) /\ UNCHANGED <<standby, customer_id>> /\ op[w] = "decide"
      BY <2>5 DEF CancelSeat
    <3>2. CASE standby_length > 0
      BY <2>5, <3>1, <3>2 DEF CancelSeat, Book!vars, Holder
    <3>3. CASE ~(standby_length > 0)
      <4>1. state' = [state EXCEPT ![s] = "A"]
        BY <2>5, <3>3 DEF CancelSeat
      <4>2. standby = <<>>
        BY <1>3, <2>1, <3>1, <3>3, EmptySeq DEF Knows, Counts
      <4>3. Book!HeldBy(s, c)
        BY <1>3, <3>1 DEF Book!HeldBy, Mine, Holder
      <4>4. [q \in Seats |-> Holder(q)'] = [[q \in Seats |-> Holder(q)] EXCEPT ![s] = NoCustomer]
        BY <1>1, <3>1, <4>1 DEF Holder, SeatsTypeOK
      <4>5. Book!GiveUp(s, c)
        BY <3>1, <4>1, <4>2, <4>3, <4>4 DEF Book!GiveUp
      <4> QED
        BY <1>3, <4>5 DEF Book!Next
    <3> QED
      BY <3>2, <3>3
  <2>6. CASE HandOver(w)
    <3>1. /\ standby # <<>> /\ standby' = Tail(standby) /\ op[w] = "hand_over"
          /\ state' = [state EXCEPT ![s] = "O"] /\ customer_id' = [customer_id EXCEPT ![s] = Head(standby)]
      BY <2>6 DEF HandOver
    <3>2. Mine(w)
      BY <1>3, <3>1 DEF Knows, RequestInv
    <3>3. Book!HeldBy(s, c)
      BY <1>3, <3>2 DEF Book!HeldBy, Mine, Holder
    <3>4. [q \in Seats |-> Holder(q)'] = [[q \in Seats |-> Holder(q)] EXCEPT ![s] = Head(standby)]
      BY <1>1, <1>3, <3>1 DEF Holder, SeatsTypeOK
    <3>5. Book!HandOver(s, c)
      BY <3>1, <3>3, <3>4 DEF Book!HandOver
    <3> QED
      BY <1>3, <3>5 DEF Book!Next
  <2> QED
    BY <1>3, <2>2, <2>3, <2>4, <2>5, <2>6
<1> QED
  BY <1>2, <1>3, SeatsMove

\* Every request acts on the seats at one instant, though view_seat, list_seats and
\* the tests of standby_length take no lock.
THEOREM ServerIsSeatBook == ServerSpec => ImplementsSeatBook
  BY BookInit, BookNext, ServerIInvCorrect, PTL DEF ServerSpec, ImplementsSeatBook, Book!Spec

-----------------------------------------------------------------------------
(* The locks inside the handler.                                           *)

LEMMA MutexNext == ServerIInv /\ MutexInv /\ [ServerNext]_serverVars => MutexInv'
<1> SUFFICES ASSUME ServerIInv, MutexInv, [ServerNext]_serverVars PROVE MutexInv'
  OBVIOUS
<1>1. SeatsTypeOK /\ TypeOK /\ LoopInv
  BY DEF ServerIInv, ServerTypeOK
<1> USE DEF MutexInv, HandingOver
<1>2. CASE PoolOnly
  BY <1>2 DEF PoolOnly, allSeatVars
<1>3. ASSUME NEW w \in Workers, NEW r \in Request, WorkerTake(w), Call(w, r) PROVE MutexInv'
  <2>1. /\ UNCHANGED seat_mutex /\ op[w] = "idle"
        /\ \A t \in Threads : t # w => op'[t] = op[t] /\ req'[t] = req[t]
    <3>1. seat_mutex' = seat_mutex /\ op[w] = "idle"
      BY <1>3 DEF Call, seatVars
    <3>2. \A t \in Threads : t # w => op'[t] = op[t]
      BY <1>1, <1>3 DEF Call, Goto, SeatsTypeOK
    <3>3. \A t \in Threads : t # w => req'[t] = req[t]
      BY <1>1, <1>3 DEF Call, SeatsTypeOK
    <3> QED BY <3>1, <3>2, <3>3
  <2> QED
    BY <2>1
<1>4. ASSUME NEW w \in Workers, WorkerFinish(w), Return(w) PROVE MutexInv'
  <2>1. /\ UNCHANGED seat_mutex /\ op[w] = "done"
        /\ \A t \in Threads : t # w => op'[t] = op[t] /\ req'[t] = req[t]
    <3>1. seat_mutex' = seat_mutex /\ op[w] = "done"
      BY <1>4 DEF Return, seatVars
    <3>2. \A t \in Threads : t # w => op'[t] = op[t]
      BY <1>1, <1>4 DEF Return, Goto, SeatsTypeOK
    <3>3. \A t \in Threads : t # w => req'[t] = req[t]
      BY <1>1, <1>4 DEF Return, SeatsTypeOK
    <3> QED BY <3>1, <3>2, <3>3
  <2> QED
    BY <2>1
<1>5. ASSUME NEW w \in Workers, InHandler(w) PROVE MutexInv'
  <2>1. SeatStep(w) /\ w \in Threads /\ pc[w] = "run"
    BY <1>5, ThreadsAreWorkers DEF InHandler
  <2>2. req' = req /\ \A t \in Threads : t # w => op'[t] = op[t]
    BY <1>1, <2>1, SeatStepFrame
  <2>3. CASE LockSeat(w)
    <3>1. op'[w] = "decide" /\ \A s \in Seats : s # req[w].seat => seat_mutex'[s] = seat_mutex[s]
      BY <1>1, <2>1, <2>3 DEF LockSeat, Goto, SeatsTypeOK
    <3> QED
      BY <2>1, <2>2, <2>3, <3>1 DEF LockSeat
  <2>4. CASE UnlockSeat(w)
    <3>1. \A s \in Seats : seat_mutex'[s] # NoThread => seat_mutex[s] # NoThread /\ s # req[w].seat
      BY <1>1, <2>4 DEF UnlockSeat, SeatsTypeOK
    <3> QED
      BY <2>2, <3>1
  <2>5. CASE ~LockSeat(w) /\ ~UnlockSeat(w)
    <3>1. UNCHANGED seat_mutex
      BY <2>1, <2>5 DEF SeatStep, ListRead, ListDone, Find, Grant, Refuse, AppendStandby, CountStandby, SemWait,
                        SemPost, Reject, ConfirmSeat, CancelSeat, HandOver, seatVars
    <3>2. op[w] \in {"decide"} \cup HandingOver => op'[w] \in {"unlock"} \cup HandingOver
      <4>1. ASSUME op[w] = "decide" PROVE op'[w] \in {"unlock", "hand_over_wait"}
        <5>1. Reject(w) \/ ConfirmSeat(w) \/ CancelSeat(w)
          BY <2>1, <2>5, <4>1 DEF SeatStep, ListRead, ListDone, Find, Grant, Refuse, AppendStandby, CountStandby,
                                  SemWait, SemPost, HandOver
        <5>2. PICK l \in {"unlock", "hand_over_wait"} : op' = [op EXCEPT ![w] = l]
          BY <5>1 DEF Reject, ConfirmSeat, CancelSeat, Goto
        <5> QED
          BY <1>1, <2>1, <5>2 DEF SeatsTypeOK
      <4>2. ASSUME op[w] \in HandingOver PROVE op'[w] \in {"unlock"} \cup HandingOver
        <5>1. CountStandby(w) \/ SemWait(w) \/ SemPost(w) \/ HandOver(w)
          BY <2>1, <2>5, <4>2 DEF SeatStep, ListRead, ListDone, Find, Grant, Refuse, AppendStandby, Reject,
                                  ConfirmSeat, CancelSeat
        <5> QED
          BY <1>1, <2>1, <4>2, <5>1 DEF CountStandby, SemWait, SemPost, HandOver, Goto, SeatsTypeOK
      <4> QED
        BY <4>1, <4>2
    <3>3. op[w] # "unlock"
      BY <2>1, <2>5 DEF SeatStep, ListRead, ListDone, Find, Grant, Refuse, AppendStandby, CountStandby, SemWait,
                        SemPost, Reject, ConfirmSeat, CancelSeat, HandOver
    <3> QED
      BY <2>2, <3>1, <3>2, <3>3
  <2> QED
    BY <2>3, <2>4, <2>5
<1> QED
  BY <1>1, <1>2, <1>3, <1>4, <1>5, ServerCases

\* A handler never waits for the semaphore or for a seat's mutex: nothing it needs
\* while it owns the pool's mutex is in another thread's hands.
THEOREM InnerLocksCorrect == ServerSpec => []InnerLocksFree
<1>1. ServerInit => MutexInv
  BY DEF ServerInit, SeatsInit, MutexInv
<1>2. ServerIInv /\ MutexInv => InnerLocksFree
  <2> SUFFICES ASSUME ServerIInv, MutexInv, NEW t \in Threads, op[t] # "idle"
               PROVE  /\ op[t] \in {"append_wait", "hand_over_wait"} => sem > 0
                      /\ op[t] = "lock" => seat_mutex[req[t].seat] = NoThread
    BY DEF InnerLocksFree
  <2>1. Knows(t) /\ \A u \in Threads : u # t => Idle(u)
    BY Alone DEF ServerIInv, ServeInv, Holding
  <2>2. op[t] \in {"append_wait", "hand_over_wait"} => sem > 0
    BY <2>1 DEF Knows, Counts, Inside
  <2>3. op[t] = "lock" => seat_mutex[req[t].seat] = NoThread
    <3>1. op[t] = "lock" => req[t].seat \in Seats
      BY <2>1 DEF Knows, RequestInv, OnSeat
    <3> QED
      BY <2>1, <3>1 DEF MutexInv, HandingOver, Idle
  <2> QED
    BY <2>2, <2>3
<1> QED
  BY <1>1, <1>2, MutexNext, ServerIInvCorrect, PTL DEF ServerSpec
=============================================================================
