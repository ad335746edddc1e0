------------------------------ MODULE SeatBook ------------------------------
(***************************************************************************)
(* What the reservation service promises its clients: every request acts   *)
(* on the seats at one instant.  A seat is held for the customer who       *)
(* viewed it, who confirms it or gives it up; customers who viewed a taken *)
(* seat stand by, first come first served, for one that is given up.       *)
(***************************************************************************)
EXTENDS Sequences, Naturals

CONSTANTS Seats, Customers, NoCustomer, STANDBY_SIZE

VARIABLES
    status,    \* "A" available, "P" pending, "O" occupied
    holder,    \* who a pending or occupied seat belongs to, or NoCustomer
    standby    \* the customers who stand by, oldest first

vars == <<status, holder, standby>>

Init ==
    /\ status = [s \in Seats |-> "A"]
    /\ holder = [s \in Seats |-> NoCustomer]
    /\ standby = <<>>

HeldBy(s, c) == status[s] = "P" /\ holder[s] = c

Hold(s, c) ==
    /\ status[s] = "A"
    /\ status' = [status EXCEPT ![s] = "P"]
    /\ holder' = [holder EXCEPT ![s] = c]
    /\ UNCHANGED standby

StandBy(s, c) ==
    /\ status[s] # "A" /\ ~HeldBy(s, c)
    /\ Len(standby) < STANDBY_SIZE
    /\ standby' = Append(standby, c)
    /\ UNCHANGED <<status, holder>>

Confirm(s, c) ==
    /\ HeldBy(s, c)
    /\ status' = [status EXCEPT ![s] = "O"]
    /\ UNCHANGED <<holder, standby>>

GiveUp(s, c) ==
    /\ HeldBy(s, c)
    /\ standby = <<>>
    /\ status' = [status EXCEPT ![s] = "A"]
    /\ holder' = [holder EXCEPT ![s] = NoCustomer]
    /\ UNCHANGED standby

HandOver(s, c) ==
    /\ HeldBy(s, c)
    /\ standby # <<>>
    /\ status' = [status EXCEPT ![s] = "O"]
    /\ holder' = [holder EXCEPT ![s] = Head(standby)]
    /\ standby' = Tail(standby)

Next == \E s \in Seats, c \in Customers :
    Hold(s, c) \/ StandBy(s, c) \/ Confirm(s, c) \/ GiveUp(s, c) \/ HandOver(s, c)

Spec == Init /\ [][Next]_vars
=============================================================================
