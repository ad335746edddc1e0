------------------------------- MODULE KmaDriver -------------------------------
(***************************************************************************)
(* kma/kma.c: the program that reads a trace of REQUEST and FREE lines and *)
(* calls an allocator for each, in correctness mode.  The allocator is     *)
(* chosen when the program is built; a module of it EXTENDS this one and   *)
(* says what kma_malloc and kma_free do.                                   *)
(*                                                                         *)
(* The program is sequential: a line is one step.  When the process ends   *)
(* its memory is gone; only the verdict remains.                           *)
(***************************************************************************)
EXTENDS KmaPage

CONSTANTS
    Pointer,     \* sizeof(void*)
    Requests,    \* the request numbers of a trace
    Sizes        \* the sizes it asks for

ASSUME TraceAssumption == Pointer \in Nat \ {0} /\ Sizes \subseteq Nat \ {0}

VARIABLES
    pool,     \* the page pool
    requests, \* the table of requests
    verdict   \* how the process has ended, if it has

driverVars == <<pool, requests, verdict>>

\* "error" stands for the messages that end the process with "Test: FAILED",
\* "leak" for the one of them that says that not all pages were freed, "abort" for
\* a failed assertion, "crash" for a signal, and "damage" for a process whose
\* allocator has written over memory that is not its own: nothing is said of
\* what it does afterwards.
Verdict == {"running", "PASS", "leak", "error", "abort", "crash", "damage"}

Unused == [used |-> FALSE, size |-> 0, page |-> 0, offset |-> 0]

DriverInit ==
    /\ pool = NoPool
    /\ requests = [r \in Requests |-> Unused]
    /\ verdict = "running"

DriverTypeOK ==
    /\ pool \in Pool
    /\ requests \in [Requests -> [used : BOOLEAN, size : Sizes \cup {0},
                                  page : Page, offset : 0 .. PAGESIZE]]
    /\ verdict \in Verdict

Running == verdict = "running"

Live == {r \in Requests : requests[r].used}

\* The process ends.
Ends(v) ==
    /\ verdict' = v
    /\ pool' = NoPool
    /\ requests' = [r \in Requests |-> Unused]

\* kma_malloc has returned the address offset of page p, and the driver fills the
\* memory there.
Grant(r, size, p, offset) ==
    /\ requests' = [requests EXCEPT ![r] = [used |-> TRUE, size |-> size, page |-> p, offset |-> offset]]
    /\ UNCHANGED verdict

\* kma_malloc may return NULL for a request that leaves no room for a pointer on a
\* page, and only then.
MayBeRefused(size) == size > PAGESIZE - Pointer

\* The end of the trace: whatever it has freed, no page may be in use.
EndOfTrace == Running /\ Ends(IF pool.num_in_use # 0 THEN "leak" ELSE "PASS")

\* A line that is no line of a trace, or that requests what is in use or frees what
\* is not.
WrongLine == Running /\ (Ends("error") \/ Ends("abort"))
=============================================================================
