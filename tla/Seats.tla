-------------------------------- MODULE Seats --------------------------------
(***************************************************************************)
(* The reservations of server/seats.c as handle_connection (server/util.c) *)
(* calls them.  Each step is one access to the shared seats or to the      *)
(* standby list between two places where another thread could come in:     *)
(* which of them can come in is up to the caller (module Server).          *)
(*                                                                         *)
(* view_seat tests and changes the seat with no lock; confirm_seat and     *)
(* cancel lock the seat; the standby list is changed inside the semaphore  *)
(* (module Semaphore, of which this module uses what CountingSemaphore     *)
(* promises), but its length is tested outside.                            *)
(***************************************************************************)
EXTENDS Integers, Sequences

CONSTANTS
    Threads,       \* the threads that may run the handler
    NumSeats,      \* number_of_seats
    Customers,
    NoCustomer,    \* the customer_id of a fresh seat: -1, which no URL yields
    STANDBY_SIZE,
    NoThread           \* the owner of a seat mutex nobody has locked

\* load_seats numbers the seats from 0 on; a request may name another number.
Seats == 0..(NumSeats - 1)
UnknownSeat == NumSeats

ASSUME SeatsAssumption == NumSeats \in Nat /\ NoCustomer \notin Customers
ASSUME StandbyAssumption == STANDBY_SIZE \in Nat
ASSUME NoThreadAssumption == NoThread \notin Threads

VARIABLES
    state,           \* seat->state
    customer_id,     \* seat->customer_id, which a seat keeps when it is freed
    seat_mutex,      \* who has locked seat->mutex
    standby,         \* the customers of the linked list from head on
    standby_length,
    sem,             \* what is left in the semaphore
    op,              \* where each thread is in its request
    req,             \* the request each thread handles
    reply,           \* what each thread has written to its reply buffer
    listing          \* the seat states list_seats has read so far

seatVars == <<state, customer_id, seat_mutex, standby, standby_length, sem>>
callVars == <<op, req, reply, listing>>
allSeatVars == <<state, customer_id, seat_mutex, standby, standby_length, sem,
                 op, req, reply, listing>>

\* What a request line can ask for: "other" is a file or a bad request.
SeatRequest == [kind : {"view", "confirm", "cancel"},
                seat : Seats \cup {UnknownSeat}, customer : Customers]
PlainRequest == [kind : {"list", "other"}, seat : {UnknownSeat},
                 customer : {NoCustomer}]
Request == SeatRequest \cup PlainRequest
NoRequest == [kind |-> "none", seat |-> UnknownSeat, customer |-> NoCustomer]

OpLabel == {"idle", "list", "find", "grant", "refuse",
            "append_wait", "append", "append_count", "append_post",
            "lock", "decide", "unlock", "hand_over_wait", "hand_over",
            "hand_over_count", "hand_over_post", "done"}
Reply == {"none", "list", "confirm?", "unavailable", "not found", "confirmed",
          "denied", "not pending", "cancelled"}

SeatsTypeOK ==
    /\ state \in [Seats -> {"A", "P", "O"}]
    /\ customer_id \in [Seats -> Customers \cup {NoCustomer}]
    /\ seat_mutex \in [Seats -> Threads \cup {NoThread}]
    /\ standby \in Seq(Customers)
    /\ standby_length \in Int
    /\ sem \in Int
    /\ op \in [Threads -> OpLabel]
    /\ req \in [Threads -> Request \cup {NoRequest}]
    /\ reply \in [Threads -> Reply]
    /\ listing \in [Threads -> Seq({"A", "P", "O"})]

\* load_seats
SeatsInit ==
    /\ state = [s \in Seats |-> "A"]
    /\ customer_id = [s \in Seats |-> NoCustomer]
    /\ seat_mutex = [s \in Seats |-> NoThread]
    /\ standby = <<>> /\ standby_length = 0
    /\ sem = 1
    /\ op = [t \in Threads |-> "idle"]
    /\ req = [t \in Threads |-> NoRequest]
    /\ reply = [t \in Threads |-> "none"]
    /\ listing = [t \in Threads |-> <<>>]

Goto(t, label) == op' = [op EXCEPT ![t] = label]
Answer(t, text) == reply' = [reply EXCEPT ![t] = text]

\* The customer of t's request is the one the seat is pending for.
Mine(t) == LET s == req[t].seat
           IN  state[s] = "P" /\ customer_id[s] = req[t].customer

-----------------------------------------------------------------------------
(* handle_connection: dispatch and return.                                 *)

Dispatch(kind) ==
    CASE kind = "list" -> "list"
      [] kind = "view" -> "find"
      [] kind \in {"confirm", "cancel"} -> "lock"
      [] kind = "other" -> "done"

Call(t, r) ==
    /\ op[t] = "idle"
    /\ req' = [req EXCEPT ![t] = r]
    /\ IF r.kind \in {"view", "confirm", "cancel"} /\ r.seat = UnknownSeat
       THEN Goto(t, "done") /\ Answer(t, "not found")
       ELSE Goto(t, Dispatch(r.kind)) /\ UNCHANGED reply
    /\ UNCHANGED <<seatVars, listing>>

Return(t) ==
    /\ op[t] = "done"
    /\ Goto(t, "idle")
    /\ Answer(t, "none")
    /\ req' = [req EXCEPT ![t] = NoRequest]
    /\ listing' = [listing EXCEPT ![t] = <<>>]
    /\ UNCHANGED seatVars

-----------------------------------------------------------------------------
(* list_seats: the seats are read one after the other, under no lock.      *)

ListRead(t) ==
    /\ op[t] = "list" /\ Len(listing[t]) < NumSeats
    /\ listing' = [listing EXCEPT ![t] = Append(@, state[Len(@)])]
    /\ UNCHANGED <<seatVars, op, req, reply>>

ListDone(t) ==
    /\ op[t] = "list" /\ Len(listing[t]) = NumSeats
    /\ Goto(t, "done") /\ Answer(t, "list")
    /\ UNCHANGED <<seatVars, req, listing>>
-----------------------------------------------------------------------------
(* view_seat: no seat mutex.                                               *)

\* Mutants: any pending seat may be taken over; a customer's own seat may be
\* asked for again even when it is occupied.
Find_anyPending(t) ==
    /\ op[t] = "find"
    /\ IF state[req[t].seat] # "O"
       THEN Goto(t, "grant") /\ Answer(t, "confirm?")
       ELSE Goto(t, "refuse") /\ Answer(t, "unavailable")
    /\ UNCHANGED <<seatVars, req, listing>>

Find_ownOccupied(t) ==
    /\ op[t] = "find"
    /\ IF state[req[t].seat] = "A" \/ customer_id[req[t].seat] = req[t].customer
       THEN Goto(t, "grant") /\ Answer(t, "confirm?")
       ELSE Goto(t, "refuse") /\ Answer(t, "unavailable")
    /\ UNCHANGED <<seatVars, req, listing>>

Find(t) ==
    /\ op[t] = "find"
    /\ IF state[req[t].seat] = "A" \/ Mine(t)
       THEN Goto(t, "grant") /\ Answer(t, "confirm?")
       ELSE Goto(t, "refuse") /\ Answer(t, "unavailable")
    /\ UNCHANGED <<seatVars, req, listing>>

Grant(t) ==
    /\ op[t] = "grant"
    /\ state' = [state EXCEPT ![req[t].seat] = "P"]
    /\ customer_id' = [customer_id EXCEPT ![req[t].seat] = req[t].customer]
    /\ Goto(t, "done")
    /\ UNCHANGED <<seat_mutex, standby, standby_length, sem, req, reply, listing>>

\* Mutant: the limit of the standby list is off by one.
Refuse_offByOne(t) ==
    /\ op[t] = "refuse"
    /\ Goto(t, IF standby_length <= STANDBY_SIZE THEN "append_wait" ELSE "done")
    /\ UNCHANGED <<seatVars, req, reply, listing>>

\* The length is tested before the semaphore is taken, and not again.
Refuse(t) ==
    /\ op[t] = "refuse"
    /\ Goto(t, IF standby_length # STANDBY_SIZE THEN "append_wait" ELSE "done")
    /\ UNCHANGED <<seatVars, req, reply, listing>>

AppendStandby(t) ==
    /\ op[t] = "append"
    /\ standby' = IF standby_length = 0 THEN <<req[t].customer>>
                  ELSE Append(standby, req[t].customer)
    /\ Goto(t, "append_count")
    /\ UNCHANGED <<state, customer_id, seat_mutex, standby_length, sem,
                   req, reply, listing>>

\* The other half of the change of the list: standby_length++ or --.
CountStandby(t) ==
    /\ \/ /\ op[t] = "append_count"
          /\ standby_length' = standby_length + 1
          /\ Goto(t, "append_post")
       \/ /\ op[t] = "hand_over_count"
          /\ standby_length' = standby_length - 1
          /\ Goto(t, "hand_over_post")
    /\ UNCHANGED <<state, customer_id, seat_mutex, standby, sem,
                   req, reply, listing>>

-----------------------------------------------------------------------------
(* The semaphore around the two changes of the standby list.               *)

SemWait(t) ==
    /\ op[t] \in {"append_wait", "hand_over_wait"}
    /\ sem > 0
    /\ sem' = sem - 1
    /\ Goto(t, IF op[t] = "append_wait" THEN "append" ELSE "hand_over")
    /\ UNCHANGED <<state, customer_id, seat_mutex, standby, standby_length,
                   req, reply, listing>>

SemPost(t) ==
    /\ op[t] \in {"append_post", "hand_over_post"}
    /\ sem' = sem + 1
    /\ Goto(t, IF op[t] = "append_post" THEN "done" ELSE "unlock")
    /\ UNCHANGED <<state, customer_id, seat_mutex, standby, standby_length,
                   req, reply, listing>>

-----------------------------------------------------------------------------
(* confirm_seat and cancel: under the seat's mutex.                        *)

LockSeat(t) ==
    /\ op[t] = "lock" /\ seat_mutex[req[t].seat] = NoThread
    /\ seat_mutex' = [seat_mutex EXCEPT ![req[t].seat] = t]
    /\ Goto(t, "decide")
    /\ UNCHANGED <<state, customer_id, standby, standby_length, sem,
                   req, reply, listing>>

\* Both tell a customer whose number the seat does not carry that another
\* holds it, even if the seat is available.
Reject(t) ==
    /\ op[t] = "decide" /\ ~Mine(t)
    /\ Answer(t, IF customer_id[req[t].seat] # req[t].customer
                 THEN "denied" ELSE "not pending")
    /\ Goto(t, "unlock")
    /\ UNCHANGED <<seatVars, req, listing>>

ConfirmSeat(t) ==
    /\ op[t] = "decide" /\ req[t].kind = "confirm" /\ Mine(t)
    /\ state' = [state EXCEPT ![req[t].seat] = "O"]
    /\ Answer(t, "confirmed")
    /\ Goto(t, "unlock")
    /\ UNCHANGED <<customer_id, seat_mutex, standby, standby_length, sem,
                   req, listing>>

\* The freed seat keeps its customer's number.
CancelSeat(t) ==
    /\ op[t] = "decide" /\ req[t].kind = "cancel" /\ Mine(t)
    /\ Answer(t, "cancelled")
    /\ IF standby_length > 0
       THEN Goto(t, "hand_over_wait") /\ UNCHANGED state
       ELSE Goto(t, "unlock") /\ state' = [state EXCEPT ![req[t].seat] = "A"]
    /\ UNCHANGED <<customer_id, seat_mutex, standby, standby_length, sem,
                   req, listing>>

\* Mutant: the head of the list stays on the list.
HandOver_keepsHead(t) ==
    /\ op[t] = "hand_over" /\ standby # <<>>
    /\ customer_id' = [customer_id EXCEPT ![req[t].seat] = Head(standby)]
    /\ state' = [state EXCEPT ![req[t].seat] = "O"]
    /\ Goto(t, "hand_over_count")
    /\ UNCHANGED <<seat_mutex, standby, standby_length, sem, req, reply, listing>>

\* An empty list here would be a NULL head: StandbyConsistent excludes it.
HandOver(t) ==
    /\ op[t] = "hand_over" /\ standby # <<>>
    /\ customer_id' = [customer_id EXCEPT ![req[t].seat] = Head(standby)]
    /\ standby' = Tail(standby)
    /\ state' = [state EXCEPT ![req[t].seat] = "O"]
    /\ Goto(t, "hand_over_count")
    /\ UNCHANGED <<seat_mutex, standby_length, sem, req, reply, listing>>

UnlockSeat(t) ==
    /\ op[t] = "unlock"
    /\ seat_mutex' = [seat_mutex EXCEPT ![req[t].seat] = NoThread]
    /\ Goto(t, "done")
    /\ UNCHANGED <<state, customer_id, standby, standby_length, sem,
                   req, reply, listing>>

SeatStep(t) ==
    \/ ListRead(t) \/ ListDone(t)
    \/ Find(t) \/ Grant(t) \/ Refuse(t)
    \/ AppendStandby(t) \/ CountStandby(t)
    \/ SemWait(t) \/ SemPost(t)
    \/ LockSeat(t) \/ Reject(t) \/ ConfirmSeat(t) \/ CancelSeat(t)
    \/ HandOver(t) \/ UnlockSeat(t)

-----------------------------------------------------------------------------
(* What the reservations promise when the caller serializes the requests.  *)

Holder(s) == IF state[s] = "A" THEN NoCustomer ELSE customer_id[s]

Book == INSTANCE SeatBook WITH status <- state, holder <- [s \in Seats |-> Holder(s)]

\* Every request acts on the seats and the standby list at one instant, though
\* view_seat, list_seats and the tests of standby_length take no lock.
ImplementsSeatBook == Book!Spec

\* A seat once confirmed, or handed over to a customer who stood by, is never
\* taken from that customer: no request ever leads out of OCCUPIED.
OccupiedIsFinal ==
    [][\A s \in Seats : state[s] = "O" => state'[s] = "O" /\ customer_id'[s] = customer_id[s]]_allSeatVars

\* A seat that is pending for a customer changes state only in a confirm or a
\* cancel of that same customer.
OnlyHolderMoves ==
    [][\A s \in Seats : state[s] = "P" /\ (state'[s] # "P" \/ customer_id'[s] # customer_id[s])
        => \E t \in Threads : /\ req[t].seat = s /\ req[t].customer = customer_id[s]
                              /\ req[t].kind \in {"confirm", "cancel"}]_allSeatVars

\* What t's reply says of the seat and of the standby list.
ReplyTrue(t) ==
    LET s == req[t].seat  c == req[t].customer
    IN  /\ reply[t] = "not found" => s \notin Seats
        /\ reply[t] = "confirm?" => state[s] = "P" /\ customer_id[s] = c
        /\ reply[t] = "unavailable" =>
               /\ state[s] # "A"
               /\ \/ standby_length = STANDBY_SIZE
                  \/ standby # <<>> /\ standby[Len(standby)] = c
        /\ reply[t] = "confirmed" => state[s] = "O" /\ customer_id[s] = c
        /\ reply[t] \in {"cancelled", "not pending"} => state[s] # "P"
        /\ reply[t] = "denied" => state[s] = "A" \/ customer_id[s] \in Customers \ {c}

\* What a request's reply says of its seat and of the standby list is so when the
\* request is about to return, with one exception.  "Permission denied - seat held by
\* another user" is true of a seat that is pending or occupied: another customer has
\* it.  It is false of an available seat, which nobody holds: confirm_seat and cancel
\* compare the number the seat carries, and a fresh seat carries -1, a freed one the
\* number of its last customer.
TruthfulReply == \A t \in Threads : op[t] = "done" => ReplyTrue(t)

\* A complete listing shows states all seats had at one time: now.
ListingIsSnapshot ==
    \A t \in Threads : reply[t] = "list"
                         => listing[t] = [n \in 1..NumSeats |-> state[n - 1]]

\* standby_length is the length of the list, and within its limit, whenever
\* nobody is inside the semaphore; and who is about to take the head of the
\* list, having seen a positive length outside, still finds one.
StandbyConsistent ==
    /\ sem = 1 => standby_length = Len(standby)
    /\ standby_length <= STANDBY_SIZE
    /\ \A t \in Threads : op[t] = "hand_over" => standby # <<>>

\* A customer who cancels does not end up with the seat: report.DOC has it that
\* a customer on the standby list takes the seat of ANY OTHER user who cancels.
CancelGivesUp ==
    \A t \in Threads : op[t] = "done" /\ reply[t] = "cancelled"
        => ~(state[req[t].seat] = "O" /\ customer_id[req[t].seat] = req[t].customer)
=============================================================================
