------------------------------ MODULE Allocator ------------------------------
(***************************************************************************)
(* What every allocator of kma/ promises the program that calls it: the    *)
(* memory it hands out lies inside one page and is nobody else's until it  *)
(* is given back.                                                          *)
(***************************************************************************)
EXTENDS Naturals

CONSTANTS Requests, PAGESIZE

VARIABLE live  \* for each request the memory it has, NoMemory if none

NoMemory == [page |-> 0, offset |-> 0, size |-> 0]

Disjoint(a, b) ==
    \/ a.page # b.page
    \/ a.offset + a.size <= b.offset
    \/ b.offset + b.size <= a.offset

Init == live = [r \in Requests |-> NoMemory]

OthersKeep(r) == \A q \in Requests \ {r} : live'[q] = live[q]

Malloc(r) ==
    /\ live[r] = NoMemory
    /\ live'[r].size > 0
    /\ live'[r].offset + live'[r].size <= PAGESIZE
    /\ \A q \in Requests \ {r} : live[q] # NoMemory => Disjoint(live'[r], live[q])
    /\ OthersKeep(r)

Free(r) == live[r] # NoMemory /\ live'[r] = NoMemory /\ OthersKeep(r)

\* The process ends; its memory is gone.
Exit == live' = [r \in Requests |-> NoMemory]

Next == Exit \/ \E r \in Requests : Malloc(r) \/ Free(r)

Spec == Init /\ [][Next]_live
=============================================================================
