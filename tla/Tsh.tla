--------------------------------- MODULE Tsh ---------------------------------
(***************************************************************************)
(* Job control of tinyshell: the command loop of tsh.c, the job table and  *)
(* the signal handlers of runtime.c, and the children as the kernel shows  *)
(* them to the shell.                                                      *)
(*                                                                         *)
(* The shell has one thread.  A handler interrupts the command loop        *)
(* between any two of its steps and runs to its end before the loop goes   *)
(* on; SIGCHLD is not queued, so one signal may stand for many children.   *)
(* Process identifiers are not used twice, and fork does not fail.         *)
(***************************************************************************)
EXTENDS Integers, Sequences, FiniteSets

CONSTANT MaxPid    \* bound: the children the shell forks in all

Pids == 1..MaxPid

ASSUME MaxPidAssumption == MaxPid \in Nat

VARIABLES
    jobs,        \* bgjobs, from its head on
    nextjid,
    fg_pid,
    mpc,         \* where the command loop is
    cmd,         \* the command it executes
    job,         \* the child or job this command is about, by its pid
    newjid,      \* newJob->jid, before the entry is linked
    k,           \* where CheckJobs or PrintJobs is in the list
    listed,      \* the numbers PrintJobs has printed
    masked,      \* SIGCHLD, SIGINT and SIGTSTP are blocked
    chld,        \* SIGCHLD is pending
    intr,        \* what the SIGINTs the shell sends itself interrupt: "no" if there are none
    inHandler,   \* HandleChildren is running
    child        \* the state of each child in the kernel

tableVars == <<jobs, nextjid>>
loopVars == <<mpc, cmd, job, newjid, k, listed>>
vars == <<jobs, nextjid, fg_pid, mpc, cmd, job, newjid, k, listed, masked, chld, intr, inHandler, child>>

JobState == {"FOREGROUND", "BACKGROUND", "STOPPED", "DONE"}
Job == [pid : Pids, jid : 0..MaxPid, state : JobState, print : BOOLEAN]

\* "other" stands for the commands that leave the job table alone.
Command == [kind : {"run"}, bg : BOOLEAN, jid : {0}]
           \cup [kind : {"fg", "bg"}, bg : {FALSE}, jid : 1..MaxPid]
           \cup [kind : {"jobs", "other", "exit"}, bg : {FALSE}, jid : {0}]

\* "forked": before setpgid, so not yet in the process group kill(-pid) means.
\* "stopping": stopped, and waitpid has not reported it yet.
ChildState == {"none", "forked", "running", "stopping", "stopped", "zombie", "reaped"}

LoopPC == {"read", "check", "interpret", "forking", "unblock", "foreground", "newjob",
           "link", "waitfg", "resume", "setfg", "list", "exited"}

TypeOK ==
    /\ jobs \in Seq(Job) /\ Len(jobs) <= MaxPid
    /\ nextjid \in 1..(MaxPid + 1)
    /\ fg_pid \in Pids \cup {-1, 0}
    /\ mpc \in LoopPC
    /\ cmd \in Command
    /\ job \in Pids \cup {0}
    /\ newjid \in 0..(MaxPid + 1)
    /\ k \in 1..(MaxPid + 1)
    /\ listed \in Seq(0..MaxPid)
    /\ masked \in BOOLEAN /\ chld \in BOOLEAN /\ intr \in {"no", "loop", "handler"} /\ inHandler \in BOOLEAN
    /\ child \in [Pids -> ChildState]

NoCommand == [kind |-> "other", bg |-> FALSE, jid |-> 0]

Init ==
    /\ jobs = <<>> /\ nextjid = 1 /\ fg_pid = 0
    /\ mpc = "read" /\ cmd = NoCommand /\ job = 0 /\ newjid = 0 /\ k = 1 /\ listed = <<>>
    /\ masked = FALSE /\ chld = FALSE /\ intr = "no" /\ inHandler = FALSE
    /\ child = [p \in Pids |-> "none"]

-----------------------------------------------------------------------------
(* The job table.                                                          *)

\* FindJobByPid, FindJobByJid: the first entry that matches, 0 if none does.
First(found) == IF found = {} THEN 0 ELSE CHOOSE n \in found : \A m \in found : n <= m
FindJobByPid(p) == First({n \in DOMAIN jobs : jobs[n].pid = p})
FindJobByJid(id) == First({n \in DOMAIN jobs : jobs[n].jid = id})

StateOf(p) == jobs[FindJobByPid(p)].state

\* Mutants: a job that stops again gets a number again; the number given to a
\* foreground job that stops is not used up.
UpdateJobs_renumber(p, state) ==
    LET n == FindJobByPid(p)
        numbered == state = "STOPPED" /\ n # 0
    IN  /\ jobs' = IF n = 0 THEN jobs
                   ELSE [jobs EXCEPT ![n].state = state,
                                     ![n].jid = IF numbered THEN nextjid ELSE @]
        /\ nextjid' = IF numbered THEN nextjid + 1 ELSE nextjid

UpdateJobs_keepsNext(p, state) ==
    LET n == FindJobByPid(p)
        numbered == state = "STOPPED" /\ n # 0 /\ jobs[n].jid = 0
    IN  /\ jobs' = IF n = 0 THEN jobs
                   ELSE [jobs EXCEPT ![n].state = state,
                                     ![n].jid = IF numbered THEN nextjid ELSE @]
        /\ UNCHANGED nextjid

UpdateJobs(p, state) ==
    LET n == FindJobByPid(p)
        numbered == state = "STOPPED" /\ n # 0 /\ jobs[n].jid = 0
    IN  /\ jobs' = IF n = 0 THEN jobs
                   ELSE [jobs EXCEPT ![n].state = state,
                                     ![n].jid = IF numbered THEN nextjid ELSE @]
        /\ nextjid' = IF numbered THEN nextjid + 1 ELSE nextjid

-----------------------------------------------------------------------------
(* The command loop.  It runs only while no handler does or has to.        *)

Loop(from) == mpc = from /\ ~inHandler /\ intr = "no"

\* The command is over; its local variables are gone.
Prompt == mpc' = "read" /\ cmd' = NoCommand /\ job' = 0

\* getCommandLine returns; "exit" leaves the loop at once.  (MaxPid bounds the
\* programs that are run.)
Read(c) ==
    /\ Loop("read")
    /\ c.kind = "run" => \E p \in Pids : child[p] = "none"
    /\ mpc' = IF c.kind = "exit" THEN "exited" ELSE "check"
    /\ cmd' = c
    /\ k' = 1
    /\ UNCHANGED <<tableVars, fg_pid, job, newjid, listed, masked, chld, intr, inHandler, child>>

\* Mutant: fg_pid keeps the identifier of a program that is gone.
CheckJob_keepsFgPid ==
    /\ Loop("check") /\ k <= Len(jobs)
    /\ IF jobs[k].state = "DONE"
       THEN /\ jobs' = [n \in 1..(Len(jobs) - 1) |-> jobs[IF n < k THEN n ELSE n + 1]]
            /\ k' = k
       ELSE /\ k' = k + 1
            /\ UNCHANGED jobs
    /\ UNCHANGED <<nextjid, fg_pid, mpc, cmd, job, newjid, listed, masked, chld, intr, inHandler, child>>

\* CheckJobs looks at one entry at a time, and a handler may change the states
\* of entries in between, though not the list.
CheckJob ==
    /\ Loop("check") /\ k <= Len(jobs)
    /\ IF jobs[k].state = "DONE"
       THEN /\ fg_pid' = IF jobs[k].print THEN fg_pid ELSE -1
            /\ jobs' = [n \in 1..(Len(jobs) - 1) |-> jobs[IF n < k THEN n ELSE n + 1]]
            /\ k' = k
       ELSE /\ k' = k + 1
            /\ UNCHANGED <<jobs, fg_pid>>
    /\ UNCHANGED <<nextjid, mpc, cmd, job, newjid, listed, masked, chld, intr, inHandler, child>>

CheckEnds ==
    /\ Loop("check") /\ k > Len(jobs)
    /\ nextjid' = IF jobs = <<>> THEN 1 ELSE nextjid
    /\ mpc' = "interpret" /\ k' = 1
    /\ UNCHANGED <<jobs, fg_pid, cmd, job, newjid, listed, masked, chld, intr, inHandler, child>>

InterpretOther ==
    /\ Loop("interpret") /\ cmd.kind = "other"
    /\ Prompt
    /\ UNCHANGED <<tableVars, fg_pid, newjid, k, listed, masked, chld, intr, inHandler, child>>

\* RunBuiltInCmd for jobs.
ListJobs ==
    /\ Loop("interpret") /\ cmd.kind = "jobs"
    /\ mpc' = "list" /\ k' = 1
    /\ UNCHANGED <<tableVars, fg_pid, cmd, job, newjid, listed, masked, chld, intr, inHandler, child>>

\* PrintJobs, too, looks at one entry at a time.
PrintJob ==
    /\ Loop("list") /\ k <= Len(jobs)
    /\ listed' = IF jobs[k].state \in {"BACKGROUND", "STOPPED"} THEN Append(listed, jobs[k].jid) ELSE listed
    /\ k' = k + 1
    /\ UNCHANGED <<tableVars, fg_pid, mpc, cmd, job, newjid, masked, chld, intr, inHandler, child>>

PrintEnds ==
    /\ Loop("list") /\ k > Len(jobs)
    /\ Prompt
    /\ listed' = <<>> /\ k' = 1
    /\ UNCHANGED <<tableVars, fg_pid, newjid, masked, chld, intr, inHandler, child>>

-----------------------------------------------------------------------------
(* Exec: the signals are blocked around fork, and only around fork.        *)

Block ==
    /\ Loop("interpret") /\ cmd.kind = "run"
    /\ masked' = TRUE
    /\ mpc' = "forking"
    /\ UNCHANGED <<tableVars, fg_pid, cmd, job, newjid, k, listed, chld, intr, inHandler, child>>

Fork ==
    /\ Loop("forking")
    /\ \E p \in Pids :
         /\ child[p] = "none" /\ \A q \in 1..(p - 1) : child[q] # "none"
         /\ child' = [child EXCEPT ![p] = "forked"]
         /\ job' = p
    /\ mpc' = "unblock"
    /\ UNCHANGED <<tableVars, fg_pid, cmd, newjid, k, listed, masked, chld, intr, inHandler>>

Unblock ==
    /\ Loop("unblock")
    /\ masked' = FALSE
    /\ mpc' = IF cmd.bg THEN "newjob" ELSE "foreground"
    /\ UNCHANGED <<tableVars, fg_pid, cmd, job, newjid, k, listed, chld, intr, inHandler, child>>

SetForeground ==
    /\ Loop("foreground")
    /\ fg_pid' = job
    /\ mpc' = "newjob"
    /\ UNCHANGED <<tableVars, cmd, job, newjid, k, listed, masked, chld, intr, inHandler, child>>

\* AddJob: the entry takes its number from nextjid ...
NewJob ==
    /\ Loop("newjob")
    /\ newjid' = nextjid
    /\ mpc' = "link"
    /\ UNCHANGED <<tableVars, fg_pid, cmd, job, k, listed, masked, chld, intr, inHandler, child>>

\* ... nextjid is incremented, or the number taken back, and the entry linked.
LinkJob ==
    /\ Loop("link")
    /\ jobs' = Append(jobs, [pid |-> job, jid |-> IF cmd.bg THEN newjid ELSE 0,
                             state |-> IF cmd.bg THEN "BACKGROUND" ELSE "FOREGROUND",
                             print |-> cmd.bg])
    /\ nextjid' = IF cmd.bg THEN nextjid + 1 ELSE nextjid
    /\ IF cmd.bg THEN Prompt ELSE mpc' = "waitfg" /\ UNCHANGED <<cmd, job>>
    /\ newjid' = 0
    /\ UNCHANGED <<fg_pid, k, listed, masked, chld, intr, inHandler, child>>

\* Mutant: the loop waits for fg_pid to change instead of the entry.
WaitFgReturns_fgPid ==
    /\ Loop("waitfg")
    /\ fg_pid # job
    /\ Prompt
    /\ UNCHANGED <<tableVars, fg_pid, newjid, k, listed, masked, chld, intr, inHandler, child>>

\* WaitFg sleeps a second at a time until the entry says otherwise.
WaitFgReturns ==
    /\ Loop("waitfg")
    /\ StateOf(job) # "FOREGROUND"
    /\ Prompt
    /\ UNCHANGED <<tableVars, fg_pid, newjid, k, listed, masked, chld, intr, inHandler, child>>

-----------------------------------------------------------------------------
(* RunCmdBg: the commands fg and bg.                                       *)

NoSuchJob ==
    /\ Loop("interpret") /\ cmd.kind \in {"fg", "bg"}
    /\ FindJobByJid(cmd.jid) = 0
    /\ Prompt
    /\ UNCHANGED <<tableVars, fg_pid, newjid, k, listed, masked, chld, intr, inHandler, child>>

\* SIGCONT makes the child run again, and tells its parent so.
ContinueJob ==
    /\ Loop("interpret") /\ cmd.kind \in {"fg", "bg"}
    /\ LET n == FindJobByJid(cmd.jid)
           p == jobs[n].pid
       IN  /\ n # 0
           /\ job' = p
           /\ IF jobs[n].state \in {"STOPPED", "BACKGROUND"}
                 /\ child[p] \in {"stopping", "stopped"}
              THEN child' = [child EXCEPT ![p] = "running"] /\ chld' = TRUE
              ELSE UNCHANGED <<child, chld>>
    /\ mpc' = "resume"
    /\ UNCHANGED <<tableVars, fg_pid, cmd, newjid, k, listed, masked, intr, inHandler>>

\* The entry's state is overwritten whatever a handler has put there since.
ResumeJob ==
    /\ Loop("resume")
    /\ LET n == FindJobByPid(job)
       IN  jobs' = IF cmd.kind = "fg"
                   THEN [jobs EXCEPT ![n].state = "FOREGROUND", ![n].print = FALSE]
                   ELSE [jobs EXCEPT ![n].state = "BACKGROUND"]
    /\ IF cmd.kind = "fg" THEN mpc' = "setfg" /\ UNCHANGED <<cmd, job>> ELSE Prompt
    /\ UNCHANGED <<nextjid, fg_pid, newjid, k, listed, masked, chld, intr, inHandler, child>>

SetFg ==
    /\ Loop("setfg")
    /\ fg_pid' = job
    /\ mpc' = "waitfg"
    /\ UNCHANGED <<tableVars, cmd, job, newjid, k, listed, masked, chld, intr, inHandler, child>>

-----------------------------------------------------------------------------
(* The signal handlers.                                                    *)

CanDeliver == ~masked /\ mpc # "exited"

\* IntFgProc: the foreground process dies of it, once it has its own group.
Sigint ==
    /\ CanDeliver /\ intr = "no"
    /\ fg_pid \in Pids /\ child[fg_pid] = "running"
    /\ child' = [child EXCEPT ![fg_pid] = "zombie"]
    /\ chld' = TRUE
    /\ UNCHANGED <<tableVars, fg_pid, loopVars, masked, intr, inHandler>>

\* With fg_pid = 0 it is the shell's own group that is signalled: the handler will
\* run again when it has returned, and what it interrupts does not go on as long as
\* fg_pid is 0.  Handlers of other signals can still interrupt it in turn.
SigintToSelf ==
    /\ CanDeliver /\ intr = "no"
    /\ fg_pid = 0
    /\ intr' = IF inHandler THEN "handler" ELSE "loop"
    /\ UNCHANGED <<tableVars, fg_pid, loopVars, masked, chld, inHandler, child>>

SigintEnds ==
    /\ intr = "handler" \/ (intr = "loop" /\ ~inHandler)
    /\ fg_pid # 0
    /\ intr' = "no"
    /\ UNCHANGED <<tableVars, fg_pid, loopVars, masked, chld, inHandler, child>>

\* StopFgProc gives up fg_pid at once; the program may ignore the signal.
Sigtstp ==
    /\ CanDeliver
    /\ fg_pid >= 0
    /\ \/ /\ fg_pid \in Pids /\ child[fg_pid] = "running"
          /\ child' = [child EXCEPT ![fg_pid] = "stopping"]
          /\ chld' = TRUE
       \/ UNCHANGED <<child, chld>>
    /\ fg_pid' = -1
    /\ UNCHANGED <<tableVars, loopVars, masked, intr, inHandler>>

Sigchld ==
    /\ CanDeliver /\ chld /\ ~inHandler
    /\ chld' = FALSE
    /\ inHandler' = TRUE
    /\ UNCHANGED <<tableVars, fg_pid, loopVars, masked, intr, child>>

HandlerRuns == inHandler /\ intr # "handler"

\* Mutants: a stopped child is taken for one that has ended; one child is reaped
\* per signal.
HandleChild_noStopped(p) ==
    /\ HandlerRuns
    /\ child[p] \in {"zombie", "stopping"}
    /\ fg_pid' = IF p = fg_pid THEN -1 ELSE fg_pid
    /\ child' = [child EXCEPT ![p] = IF @ = "stopping" THEN "stopped" ELSE "reaped"]
    /\ UpdateJobs(p, "DONE")
    /\ UNCHANGED <<loopVars, masked, chld, intr, inHandler>>

HandleChild_once(p) ==
    /\ HandlerRuns
    /\ child[p] \in {"zombie", "stopping"}
    /\ fg_pid' = IF p = fg_pid THEN -1 ELSE fg_pid
    /\ IF child[p] = "stopping"
       THEN child' = [child EXCEPT ![p] = "stopped"] /\ UpdateJobs(p, "STOPPED")
       ELSE child' = [child EXCEPT ![p] = "reaped"] /\ UpdateJobs(p, "DONE")
    /\ inHandler' = FALSE
    /\ UNCHANGED <<loopVars, masked, chld, intr>>

\* One turn of the loop of HandleChildren: waitpid reports a child.
HandleChild(p) ==
    /\ HandlerRuns
    /\ child[p] \in {"zombie", "stopping"}
    /\ fg_pid' = IF p = fg_pid THEN -1 ELSE fg_pid
    /\ IF child[p] = "stopping"
       THEN child' = [child EXCEPT ![p] = "stopped"] /\ UpdateJobs(p, "STOPPED")
       ELSE child' = [child EXCEPT ![p] = "reaped"] /\ UpdateJobs(p, "DONE")
    /\ UNCHANGED <<loopVars, masked, chld, intr, inHandler>>

\* The last turn: waitpid returns 0 (or -1, when there are no children), which is
\* compared with fg_pid like an identifier.
HandlerReturns ==
    /\ HandlerRuns
    /\ \A p \in Pids : child[p] \notin {"zombie", "stopping"}
    /\ fg_pid' = IF fg_pid = 0 /\ \E p \in Pids : child[p] \notin {"none", "reaped"}
                 THEN -1 ELSE fg_pid
    /\ inHandler' = FALSE
    /\ UNCHANGED <<tableVars, loopVars, masked, chld, intr, child>>

-----------------------------------------------------------------------------
(* The children: they start, end, and may stop, at any time.               *)

Become(p, from, to) ==
    /\ mpc # "exited"
    /\ child[p] = from
    /\ child' = [child EXCEPT ![p] = to]
    /\ UNCHANGED <<tableVars, fg_pid, loopVars, masked, intr, inHandler>>

ChildStarts(p) == Become(p, "forked", "running") /\ UNCHANGED chld
ChildExits(p) == Become(p, "running", "zombie") /\ chld' = TRUE
ChildStops(p) == Become(p, "running", "stopping") /\ chld' = TRUE

-----------------------------------------------------------------------------
Execute ==
    \/ CheckJob \/ CheckEnds \/ InterpretOther
    \/ ListJobs \/ PrintJob \/ PrintEnds
    \/ Block \/ Fork \/ Unblock \/ SetForeground \/ NewJob \/ LinkJob
    \/ NoSuchJob \/ ContinueJob \/ ResumeJob \/ SetFg
    \/ WaitFgReturns

Handle == Sigchld \/ HandlerReturns \/ SigintEnds \/ \E p \in Pids : HandleChild(p)

Next ==
    \/ \E c \in Command : Read(c)
    \/ Execute \/ Handle \/ Sigint \/ SigintToSelf \/ Sigtstp
    \/ \E p \in Pids : ChildStarts(p) \/ ChildExits(p) \/ ChildStops(p)

Spec == Init /\ [][Next]_vars

\* The shell runs; nobody need type a command, and a program need not end.
Fairness == WF_vars(Execute) /\ WF_vars(Handle)

FairSpec == Spec /\ Fairness

-----------------------------------------------------------------------------
Alive(p) == child[p] \in {"forked", "running", "stopping", "stopped"}

\* Every child that has not been reaped is in the table once, or about to be put
\* there, and is not said to be done; nobody is listed twice.
TableMatchesChildren ==
    /\ \A m, n \in DOMAIN jobs : jobs[m].pid = jobs[n].pid => m = n
    /\ \A p \in Pids : child[p] \notin {"none", "reaped"} =>
          \/ \E n \in DOMAIN jobs : jobs[n].pid = p /\ jobs[n].state # "DONE"
          \/ p = job /\ mpc \in {"unblock", "foreground", "newjob", "link"}

\* The numbers by which fg and bg name a job are its own: the entries that jobs may
\* print have different numbers, none of them zero or still to be given, and so have
\* the entries it does print, although handlers change them meanwhile.
JobNumbers ==
    /\ \A n \in DOMAIN jobs : jobs[n].state \in {"BACKGROUND", "STOPPED"} => jobs[n].jid # 0
    /\ \A n \in DOMAIN jobs : jobs[n].jid < nextjid
    /\ \A m, n \in DOMAIN jobs : jobs[m].jid = jobs[n].jid /\ jobs[m].jid # 0 => m = n
    /\ \A m, n \in DOMAIN listed : listed[m] = listed[n] => m = n
    /\ 0 \notin {listed[n] : n \in DOMAIN listed}

\* The prompt does not come back while a job is in the foreground: it is the one
\* the loop waits for.
ForegroundIsWaitedFor ==
    \A n \in DOMAIN jobs : jobs[n].state = "FOREGROUND"
                            => jobs[n].pid = job /\ mpc \in {"setfg", "waitfg"}

\* Ctrl-c and ctrl-z reach the shell's own jobs only: the process fg_pid names is in
\* the table, or about to be put there, and is not taken out of it while fg_pid
\* names it; so it is reaped, at the worst, and not yet forgotten.
SignalsOwnJobs ==
    fg_pid \in Pids =>
        \/ FindJobByPid(fg_pid) # 0
        \/ fg_pid = job /\ mpc \in {"newjob", "link"}

\* However the SIGCHLDs of several children merge, every child that ends is
\* reaped while the shell lives and does not hold up its own handler with SIGINTs.
ZombiesReaped ==
    \A p \in Pids :
        child[p] = "zombie" ~> (child[p] = "reaped" \/ mpc = "exited" \/ intr = "handler")

\* WaitFg waits for the foreground process to finish: when it has, the prompt
\* comes back.
PromptComesBack ==
    \A p \in Pids : (mpc = "waitfg" /\ job = p /\ child[p] \in {"zombie", "reaped"}) ~> (mpc # "waitfg")

-----------------------------------------------------------------------------
(* The strengthenings that make the safety properties inductive; they are  *)
(* used by TshProofs.                                                      *)

InTable(p) == \E n \in DOMAIN jobs : jobs[n].pid = p

\* A child is in the table only once it has been forked, and is said to be done
\* only once it has been reaped.
EntriesInv ==
    /\ \A n \in DOMAIN jobs : child[jobs[n].pid] # "none"
    /\ \A n \in DOMAIN jobs : jobs[n].state = "DONE" => child[jobs[n].pid] = "reaped"

\* What the command loop knows of the child or job its command is about.
Adding == {"unblock", "foreground", "newjob", "link"}
CommandInv ==
    /\ mpc \in Adding => job \in Pids /\ child[job] # "none" /\ ~InTable(job)
    /\ mpc \in {"resume", "setfg", "waitfg"} => job \in Pids /\ InTable(job)
    /\ mpc \in {"check", "list"} => k <= Len(jobs) + 1

\* Whom fg_pid names, as SignalsOwnJobs says it.  CheckJobs clears fg_pid when it
\* removes the entry fg_pid names: such an entry is removed without a word.
FgPidInv ==
    /\ fg_pid \in Pids => InTable(fg_pid) \/ (fg_pid = job /\ mpc \in {"newjob", "link"})
    /\ \A n \in DOMAIN jobs : jobs[n].pid = fg_pid => ~jobs[n].print
    /\ mpc = "setfg" => \A n \in DOMAIN jobs : jobs[n].pid = job => ~jobs[n].print
    /\ mpc \in {"newjob", "link"} /\ fg_pid = job => ~cmd.bg
    /\ mpc = "foreground" => ~cmd.bg

\* The number a new job has been given is still the next one when its entry is
\* linked; what fg and bg resume has a number; and what PrintJobs has printed are
\* the numbers of entries it has passed.
GivenInv ==
    /\ mpc = "link" => newjid = nextjid
    /\ mpc = "resume" => \A n \in DOMAIN jobs : jobs[n].pid = job => jobs[n].jid # 0
    /\ mpc # "list" => listed = <<>>
    /\ \A m \in DOMAIN listed : \E n \in DOMAIN jobs : n < k /\ jobs[n].jid = listed[m]

\* The children that have, or have had, a number of their own.
Numbered == {p \in Pids : /\ child[p] # "none"
                          /\ ~(p = job /\ mpc \in Adding)
                          /\ \A n \in DOMAIN jobs : jobs[n].pid = p => jobs[n].jid # 0}
NumberedInv == nextjid <= Cardinality(Numbered) + 1

TableInv == TableMatchesChildren /\ EntriesInv /\ CommandInv
NumbersInv == JobNumbers /\ GivenInv
IInv == TypeOK /\ TableInv /\ ForegroundIsWaitedFor /\ NumbersInv /\ FgPidInv /\ NumberedInv
=============================================================================
