----------------------------- MODULE TshProofs -----------------------------
(***************************************************************************)
(* Job control of tinyshell, for every number of children: the job table   *)
(* matches the children in the kernel, the numbers of jobs are their own,  *)
(* the prompt does not come back while a job is in the foreground, and     *)
(* the keyboard's signals reach the shell's own jobs only.                 *)
(*                                                                         *)
(* Four actions change the table: an entry is linked, removed, resumed, or *)
(* changed by the SIGCHLD handler.  The first sections say what each does  *)
(* to the entries; the invariants are then proved one after the other, the *)
(* table first, since all others are about its entries.                    *)
(***************************************************************************)
EXTENDS Tsh, FiniteSetTheorems, SequenceTheorems, TLAPS

\* No two entries are of one child (the first half of TableMatchesChildren).
Distinct == \A m, n \in DOMAIN jobs : jobs[m].pid = jobs[n].pid => m = n

-----------------------------------------------------------------------------
(* Looking for an entry.                                                   *)

\* The first element of a set of one number, and of none.
LEMMA FirstOfOne == First({}) = 0 /\ \A n \in Nat : First({n}) = n
<1>1. First({}) = 0
  BY DEF First
<1>2. ASSUME NEW n \in Nat PROVE First({n}) = n
  BY DEF First
<1> QED
  BY <1>1, <1>2

\* The table as a function from positions to entries.
LEMMA JobsShape ==
    ASSUME TypeOK
    PROVE  /\ Len(jobs) \in Nat /\ DOMAIN jobs = 1..Len(jobs)
           /\ jobs \in [DOMAIN jobs -> Job]
           /\ \A n \in DOMAIN jobs : n \in Nat \ {0}
  BY LenProperties DEF TypeOK

\* FindJobByPid returns the position of the child's only entry, or 0.
LEMMA FindPid ==
    ASSUME TypeOK, Distinct, NEW p
    PROVE  /\ \A n \in DOMAIN jobs : jobs[n].pid = p => FindJobByPid(p) = n
           /\ ~InTable(p) => FindJobByPid(p) = 0
           /\ InTable(p) <=> FindJobByPid(p) # 0
<1> DEFINE found == {n \in DOMAIN jobs : jobs[n].pid = p}
<1>1. ASSUME NEW n \in DOMAIN jobs, jobs[n].pid = p PROVE FindJobByPid(p) = n /\ n # 0
  <2>1. found = {n}
    BY <1>1 DEF Distinct
  <2>2. n \in Nat \ {0}
    BY JobsShape
  <2> QED
    BY <2>1, <2>2, FirstOfOne DEF FindJobByPid
<1>2. ASSUME ~InTable(p) PROVE FindJobByPid(p) = 0
  <2>1. found = {}
    BY <1>2 DEF InTable
  <2> QED
    BY <2>1, FirstOfOne DEF FindJobByPid
<1> QED
  BY <1>1, <1>2 DEF InTable

\* FindJobByJid, asked for a number that fg or bg may name, finds an entry with
\* that number if there is one.
LEMMA FindJid ==
    ASSUME TypeOK, JobNumbers, NEW id \in Nat \ {0}, FindJobByJid(id) # 0
    PROVE  FindJobByJid(id) \in DOMAIN jobs /\ jobs[FindJobByJid(id)].jid = id
<1> DEFINE found == {n \in DOMAIN jobs : jobs[n].jid = id}
<1>1. found # {}
  BY FirstOfOne DEF FindJobByJid
<1>2. PICK n \in DOMAIN jobs : jobs[n].jid = id
  BY <1>1
<1>3. found = {n}
  BY <1>2 DEF JobNumbers
<1>4. n \in Nat
  BY JobsShape
<1> QED
  BY <1>2, <1>3, <1>4, FirstOfOne DEF FindJobByJid

-----------------------------------------------------------------------------
(* What the four actions do to the table.                                  *)

\* UpdateJobs gives the child's entry the state, and a number if it stops without
\* one; it leaves the others as they are.
LEMMA UpdateJobsEffect ==
    ASSUME TypeOK, Distinct, NEW p \in Pids, NEW st \in {"STOPPED", "DONE"}, UpdateJobs(p, st)
    PROVE  /\ DOMAIN jobs' = DOMAIN jobs /\ Len(jobs') = Len(jobs)
           /\ \A n \in DOMAIN jobs :
                /\ jobs'[n].pid = jobs[n].pid
                /\ jobs'[n].print = jobs[n].print
                /\ jobs'[n].state = IF jobs[n].pid = p THEN st ELSE jobs[n].state
                /\ jobs'[n].jid = IF jobs[n].pid = p /\ st = "STOPPED" /\ jobs[n].jid = 0
                                  THEN nextjid ELSE jobs[n].jid
           /\ nextjid' = IF st = "STOPPED" /\ \E n \in DOMAIN jobs : jobs[n].pid = p /\ jobs[n].jid = 0
                         THEN nextjid + 1 ELSE nextjid
<1>1. CASE ~InTable(p)
  <2>1. FindJobByPid(p) = 0
    BY <1>1, FindPid
  <2>2. jobs' = jobs /\ nextjid' = nextjid
    BY <2>1 DEF UpdateJobs
  <2>3. \A n \in DOMAIN jobs : jobs[n].pid # p
    BY <1>1 DEF InTable
  <2> QED
    BY <2>2, <2>3
<1>2. CASE InTable(p)
  <2>1. PICK n \in DOMAIN jobs : jobs[n].pid = p
    BY <1>2 DEF InTable
  <2>2. FindJobByPid(p) = n /\ n # 0
    BY <2>1, FindPid, JobsShape
  <2> DEFINE numbered == st = "STOPPED" /\ jobs[n].jid = 0
  <2>3. /\ jobs' = [jobs EXCEPT ![n].state = st, ![n].jid = IF numbered THEN nextjid ELSE @]
        /\ nextjid' = IF numbered THEN nextjid + 1 ELSE nextjid
    BY <2>2 DEF UpdateJobs
  <2>4. \A m \in DOMAIN jobs : jobs[m].pid = p <=> m = n
    BY <2>1 DEF Distinct
  <2>5. jobs \in [DOMAIN jobs -> Job]
    BY JobsShape
  <2>6. DOMAIN jobs' = DOMAIN jobs /\ Len(jobs') = Len(jobs)
    <3>1. jobs' \in [1..Len(jobs) -> Job \cup {jobs'[n]}] /\ Len(jobs) \in Nat
      BY <2>3, <2>5, JobsShape
    <3>2. Len(jobs') = Len(jobs)
      BY <3>1
    <3> QED
      BY <3>1, <3>2, JobsShape
  <2>7. \A m \in DOMAIN jobs : m # n => jobs'[m] = jobs[m]
    BY <2>3, <2>5
  <2>8. /\ jobs'[n].pid = jobs[n].pid /\ jobs'[n].print = jobs[n].print
        /\ jobs'[n].state = st /\ jobs'[n].jid = IF numbered THEN nextjid ELSE jobs[n].jid
    BY <2>3, <2>5 DEF Job
  <2> QED
    BY <2>1, <2>3, <2>4, <2>6, <2>7, <2>8
<1> QED
  BY <1>1, <1>2

\* CheckJobs removes the entry it looks at: the later ones move up.
Kept(n) == IF n < k THEN n ELSE n + 1
LEMMA RemoveEffect ==
    ASSUME TypeOK, Distinct, CheckJob, jobs[k].state = "DONE"
    PROVE  /\ k \in DOMAIN jobs
           /\ jobs' \in Seq(Job) /\ Len(jobs') = Len(jobs) - 1
           /\ DOMAIN jobs' = 1..(Len(jobs) - 1)
           /\ \A n \in DOMAIN jobs' : Kept(n) \in DOMAIN jobs /\ Kept(n) # k /\ jobs'[n] = jobs[Kept(n)]
           /\ \A m, n \in DOMAIN jobs' : Kept(m) = Kept(n) => m = n
           /\ \A m \in DOMAIN jobs : m # k => \E n \in DOMAIN jobs' : Kept(n) = m
<1>1. k \in DOMAIN jobs /\ Len(jobs) \in Nat /\ DOMAIN jobs = 1..Len(jobs)
  BY JobsShape DEF CheckJob, TypeOK
<1>2. jobs' = [n \in 1..(Len(jobs) - 1) |-> jobs[Kept(n)]]
  BY DEF CheckJob, Kept
<1>3. k \in Nat
  BY <1>1
<1>4. \A n \in 1..(Len(jobs) - 1) : Kept(n) \in DOMAIN jobs /\ Kept(n) # k
  BY <1>1, <1>3 DEF Kept
<1>5. jobs \in [DOMAIN jobs -> Job]
  BY JobsShape
<1>6. jobs' \in Seq(Job) /\ Len(jobs') = Len(jobs) - 1
  <2>1. \A n \in 1..(Len(jobs) - 1) : jobs[Kept(n)] \in Job
    BY <1>4, <1>5
  <2>2. Len(jobs) - 1 \in Nat
    BY <1>1
  <2> QED
    BY <1>2, <2>1, <2>2
<1>7. DOMAIN jobs' = 1..(Len(jobs) - 1) /\ \A n \in DOMAIN jobs' : jobs'[n] = jobs[Kept(n)]
  BY <1>2
<1>8. \A m, n \in DOMAIN jobs' : Kept(m) = Kept(n) => m = n
  BY <1>3, <1>7 DEF Kept
<1>9. ASSUME NEW m \in DOMAIN jobs, m # k PROVE \E n \in DOMAIN jobs' : Kept(n) = m
  <2>1. CASE m < k
    BY <1>1, <1>3, <1>7, <2>1 DEF Kept
  <2>2. CASE m > k
    <3>1. m - 1 \in DOMAIN jobs' /\ Kept(m - 1) = m
      BY <1>1, <1>3, <1>7, <2>2 DEF Kept
    <3> QED
      BY <3>1
  <2> QED
    BY <1>1, <1>3, <1>9, <2>1, <2>2
<1> QED
  BY <1>1, <1>4, <1>6, <1>7, <1>8, <1>9

\* AddJob puts the entry at the end.
NewEntry == [pid |-> job, jid |-> IF cmd.bg THEN newjid ELSE 0,
             state |-> IF cmd.bg THEN "BACKGROUND" ELSE "FOREGROUND", print |-> cmd.bg]
LEMMA LinkEffect ==
    ASSUME TypeOK, LinkJob
    PROVE  /\ DOMAIN jobs' = 1..(Len(jobs) + 1) /\ Len(jobs') = Len(jobs) + 1
           /\ \A n \in DOMAIN jobs : n \in DOMAIN jobs' /\ n # Len(jobs) + 1 /\ jobs'[n] = jobs[n]
           /\ Len(jobs) + 1 \in DOMAIN jobs' /\ jobs'[Len(jobs) + 1] = NewEntry
           /\ \A n \in DOMAIN jobs' : n \in DOMAIN jobs \/ n = Len(jobs) + 1
<1>1. jobs' = Append(jobs, NewEntry)
  BY DEF LinkJob, NewEntry
<1> DEFINE S == Job \cup {NewEntry}
<1>2. jobs \in Seq(S) /\ NewEntry \in S
  BY JobsShape DEF TypeOK
<1> HIDE DEF S
<1>3. /\ Append(jobs, NewEntry) \in Seq(S) /\ Len(Append(jobs, NewEntry)) = Len(jobs) + 1
      /\ \A n \in 1..Len(jobs) : Append(jobs, NewEntry)[n] = jobs[n]
      /\ Append(jobs, NewEntry)[Len(jobs) + 1] = NewEntry
  BY <1>2, AppendProperties
<1>4. DOMAIN jobs' = 1..(Len(jobs) + 1)
  BY <1>1, <1>3, LenProperties
<1> QED
  BY <1>1, <1>3, <1>4, JobsShape

\* fg and bg change the state of the entry of the job they name, fg its print too.
LEMMA ResumeEffect ==
    ASSUME TypeOK, Distinct, ResumeJob
    PROVE  /\ DOMAIN jobs' = DOMAIN jobs
           /\ \A n \in DOMAIN jobs :
                /\ jobs'[n].pid = jobs[n].pid
                /\ jobs'[n].jid = jobs[n].jid
                /\ jobs'[n].state = IF jobs[n].pid # job THEN jobs[n].state
                                    ELSE IF cmd.kind = "fg" THEN "FOREGROUND" ELSE "BACKGROUND"
                /\ jobs'[n].print => jobs[n].print
                /\ jobs'[n].print => ~(jobs[n].pid = job /\ cmd.kind = "fg")
<1>1. jobs \in [DOMAIN jobs -> Job]
  BY JobsShape
<1>2. CASE ~InTable(job)
  <2>1. FindJobByPid(job) = 0 /\ 0 \notin DOMAIN jobs
    BY <1>2, FindPid, JobsShape
  <2>2. jobs' = jobs
    BY <1>1, <2>1 DEF ResumeJob
  <2> QED
    BY <1>1, <1>2, <2>2 DEF InTable, Job
<1>3. CASE InTable(job)
  <2>1. PICK n \in DOMAIN jobs : jobs[n].pid = job
    BY <1>3 DEF InTable
  <2>2. FindJobByPid(job) = n
    BY <2>1, FindPid
  <2>3. jobs' = IF cmd.kind = "fg"
                THEN [jobs EXCEPT ![n].state = "FOREGROUND", ![n].print = FALSE]
                ELSE [jobs EXCEPT ![n].state = "BACKGROUND"]
    BY <2>2 DEF ResumeJob
  <2>4. \A m \in DOMAIN jobs : jobs[m].pid = job <=> m = n
    BY <2>1 DEF Distinct
  <2>5. DOMAIN jobs' = DOMAIN jobs
    BY <1>1, <2>3
  <2>6. \A m \in DOMAIN jobs : m # n => jobs'[m] = jobs[m]
    BY <1>1, <2>3
  <2>7. /\ jobs'[n].pid = jobs[n].pid /\ jobs'[n].jid = jobs[n].jid
        /\ jobs'[n].state = IF cmd.kind = "fg" THEN "FOREGROUND" ELSE "BACKGROUND"
        /\ jobs'[n].print => jobs[n].print /\ cmd.kind # "fg"
    BY <1>1, <2>3 DEF Job
  <2> QED
    BY <1>1, <2>1, <2>4, <2>5, <2>6, <2>7
<1> QED
  BY <1>2, <1>3

-----------------------------------------------------------------------------
(* The steps, by what they do to the table and to the children.            *)

\* Steps of the command loop that leave the entries and the children alone.
LoopStep ==
    \/ \E c \in Command : Read(c)
    \/ CheckJob /\ jobs[k].state # "DONE"
    \/ CheckEnds \/ InterpretOther \/ ListJobs \/ PrintJob \/ PrintEnds
    \/ Block \/ Unblock \/ SetForeground \/ NewJob
    \/ NoSuchJob \/ SetFg \/ WaitFgReturns

\* Signals on their way and children that go on: the table and the loop do not
\* move, no child comes into being or is reaped, and fg_pid is at most given up.
QuietStep ==
    /\ UNCHANGED <<jobs, nextjid, mpc, cmd, job, newjid, k, listed>>
    /\ \A p \in Pids : /\ child'[p] = "none" <=> child[p] = "none"
                       /\ child'[p] = "reaped" <=> child[p] = "reaped"
    /\ fg_pid' \in {fg_pid, -1}

LEMMA NextCases ==
    ASSUME TypeOK, [Next]_vars
    PROVE  \/ QuietStep \/ LoopStep \/ Fork \/ ContinueJob
           \/ CheckJob /\ jobs[k].state = "DONE"
           \/ LinkJob \/ ResumeJob \/ \E p \in Pids : HandleChild(p)
<1>1. ASSUME SigintToSelf \/ SigintEnds \/ Sigchld \/ HandlerReturns \/ UNCHANGED vars
      PROVE  QuietStep
  BY <1>1 DEF SigintToSelf, SigintEnds, Sigchld, HandlerReturns, QuietStep, vars, tableVars, loopVars
<1>2. ASSUME Sigint \/ Sigtstp PROVE QuietStep
  BY <1>2 DEF Sigint, Sigtstp, QuietStep, TypeOK, tableVars, loopVars
<1>3. ASSUME NEW p \in Pids, ChildStarts(p) \/ ChildExits(p) \/ ChildStops(p) PROVE QuietStep
  BY <1>3 DEF ChildStarts, ChildExits, ChildStops, Become, QuietStep, TypeOK, tableVars, loopVars
<1> QED
  BY <1>1, <1>2, <1>3 DEF Next, Execute, Handle, LoopStep

-----------------------------------------------------------------------------
(* The table and the children.                                             *)

LEMMA TableInit == Init => TableInv
  BY DEF Init, TableInv, TableMatchesChildren, EntriesInv, CommandInv, Adding

\* The entries and the children, as TableInv speaks of them, are the same; what it
\* says of the command follows from where the loop goes.
LEMMA TableLoopStep == ASSUME TypeOK, TableInv, LoopStep PROVE TableInv'
<1> USE DEF TypeOK, TableInv, TableMatchesChildren, EntriesInv, CommandInv, Adding, InTable, Loop, Prompt
<1>1. Len(jobs) \in Nat
  BY JobsShape
<1>2. CASE \E c \in Command : Read(c)
  BY <1>1, <1>2 DEF Read, tableVars
<1>3. CASE CheckJob /\ jobs[k].state # "DONE"
  BY <1>1, <1>3 DEF CheckJob
<1>4. CASE CheckEnds \/ InterpretOther
  BY <1>4 DEF CheckEnds, InterpretOther, tableVars
<1>5. CASE ListJobs \/ PrintJob \/ PrintEnds
  BY <1>1, <1>5 DEF ListJobs, PrintJob, PrintEnds, tableVars
<1>6. CASE Block \/ Unblock
  BY <1>6 DEF Block, Unblock, tableVars
<1>7. CASE SetForeground \/ NewJob
  BY <1>7 DEF SetForeground, NewJob, tableVars
<1>8. CASE NoSuchJob \/ SetFg \/ WaitFgReturns
  BY <1>8 DEF NoSuchJob, SetFg, WaitFgReturns, tableVars
<1> QED
  BY <1>2, <1>3, <1>4, <1>5, <1>6, <1>7, <1>8 DEF LoopStep

\* A child is forked before its entry is linked, and is not in the table yet.
LEMMA TableFork == ASSUME TypeOK, TableInv, Fork PROVE TableInv'
<1>1. PICK p \in Pids : /\ child[p] = "none" /\ child' = [child EXCEPT ![p] = "forked"]
                        /\ job' = p
  BY DEF Fork
<1>2. \A n \in DOMAIN jobs : jobs[n].pid # p
  BY <1>1 DEF TableInv, EntriesInv
<1> QED
  BY <1>1, <1>2 DEF Fork, Loop, TypeOK, TableInv, TableMatchesChildren, EntriesInv, CommandInv, Adding,
                    InTable, tableVars

\* A continued child was neither unborn nor reaped, and is in the table.
LEMMA TableContinue == ASSUME TypeOK, TableInv, JobNumbers, ContinueJob PROVE TableInv'
<1> DEFINE n == FindJobByJid(cmd.jid)
           p == jobs[n].pid
<1>1. cmd.jid \in Nat \ {0} /\ n # 0
  <2>1. n # 0 /\ cmd.kind \in {"fg", "bg"} /\ cmd \in Command
    BY DEF ContinueJob, TypeOK
  <2>2. cmd \in [kind : {"fg", "bg"}, bg : {FALSE}, jid : 1..MaxPid]
    BY <2>1 DEF Command
  <2> QED
    BY <2>1, <2>2, MaxPidAssumption
<1>2. n \in DOMAIN jobs
  BY <1>1, FindJid
<1>3. p \in Pids
  BY <1>2, JobsShape DEF Job
<1>4. /\ job' = p
      /\ child' = child \/ (child[p] \in {"stopping", "stopped"}
                            /\ child' = [child EXCEPT ![p] = "running"])
  BY DEF ContinueJob
<1>5. \A q \in Pids : /\ child'[q] = "none" <=> child[q] = "none"
                      /\ child'[q] = "reaped" <=> child[q] = "reaped"
  BY <1>3, <1>4 DEF TypeOK
<1>6. jobs' = jobs /\ mpc = "interpret" /\ mpc' = "resume"
  BY DEF ContinueJob, Loop, tableVars
<1>7. \A m \in DOMAIN jobs : jobs[m].pid \in Pids
  BY JobsShape DEF Job
<1> HIDE DEF n, p
<1>8. InTable(job')
  BY <1>2, <1>4 DEF InTable, p
<1> QED
  BY <1>3, <1>4, <1>5, <1>6, <1>7, <1>8
  DEF TableInv, TableMatchesChildren, EntriesInv, CommandInv, Adding, InTable

\* CheckJobs forgets reaped children only.
LEMMA TableRemove ==
    ASSUME TypeOK, TableInv, CheckJob, jobs[k].state = "DONE" PROVE TableInv'
<1>1. Distinct
  BY DEF TableInv, TableMatchesChildren, Distinct
<1>2. /\ k \in DOMAIN jobs /\ Len(jobs') = Len(jobs) - 1
      /\ \A n \in DOMAIN jobs' : Kept(n) \in DOMAIN jobs /\ Kept(n) # k /\ jobs'[n] = jobs[Kept(n)]
      /\ \A m, n \in DOMAIN jobs' : Kept(m) = Kept(n) => m = n
      /\ \A m \in DOMAIN jobs : m # k => \E n \in DOMAIN jobs' : Kept(n) = m
  BY <1>1, RemoveEffect
<1>3. UNCHANGED <<child, mpc, job>> /\ mpc = "check" /\ k' = k
  BY DEF CheckJob, Loop
<1>4. child[jobs[k].pid] = "reaped"
  BY <1>2 DEF TableInv, EntriesInv
<1>5. \A m, n \in DOMAIN jobs' : jobs'[m].pid = jobs'[n].pid => m = n
  BY <1>1, <1>2 DEF Distinct
<1>6. ASSUME NEW p \in Pids, child[p] \notin {"none", "reaped"}
      PROVE  \E n \in DOMAIN jobs' : jobs'[n].pid = p /\ jobs'[n].state # "DONE"
  <2>1. PICK m \in DOMAIN jobs : jobs[m].pid = p /\ jobs[m].state # "DONE"
    BY <1>3, <1>6 DEF TableInv, TableMatchesChildren
  <2>2. PICK n \in DOMAIN jobs' : Kept(n) = m
    BY <1>2, <2>1
  <2> QED
    BY <1>2, <2>1, <2>2
<1>7. k <= Len(jobs') + 1
  BY <1>2, JobsShape DEF TypeOK
<1> QED
  BY <1>2, <1>3, <1>5, <1>6, <1>7 DEF TableInv, TableMatchesChildren, EntriesInv, CommandInv, Adding

\* The new entry is of a child that had none.
LEMMA TableLink == ASSUME TypeOK, TableInv, LinkJob PROVE TableInv'
<1> DEFINE last == Len(jobs) + 1
<1>1. /\ \A n \in DOMAIN jobs : n \in DOMAIN jobs' /\ n # last /\ jobs'[n] = jobs[n]
      /\ last \in DOMAIN jobs' /\ jobs'[last] = NewEntry
      /\ \A n \in DOMAIN jobs' : n \in DOMAIN jobs \/ n = last
  BY LinkEffect
<1>2. NewEntry.pid = job /\ NewEntry.state # "DONE"
  BY DEF NewEntry
<1>3. /\ mpc = "link" /\ child' = child
      /\ \/ mpc' = "read"
         \/ mpc' = "waitfg" /\ job' = job
  BY DEF LinkJob, Loop, Prompt
<1>4. job \in Pids /\ child[job] # "none" /\ \A n \in DOMAIN jobs : jobs[n].pid # job
  BY <1>3 DEF TableInv, CommandInv, Adding, InTable
<1> HIDE DEF last
<1>5. \A m, n \in DOMAIN jobs' : jobs'[m].pid = jobs'[n].pid => m = n
  BY <1>1, <1>2, <1>4 DEF TableInv, TableMatchesChildren
<1>6. ASSUME NEW p \in Pids, child[p] \notin {"none", "reaped"}
      PROVE  \E n \in DOMAIN jobs' : jobs'[n].pid = p /\ jobs'[n].state # "DONE"
  <2>1. CASE p = job
    BY <1>1, <1>2, <2>1
  <2>2. CASE p # job
    BY <1>1, <1>3, <1>6, <2>2 DEF TableInv, TableMatchesChildren
  <2> QED
    BY <2>1, <2>2
<1>7. /\ \A n \in DOMAIN jobs' : child[jobs'[n].pid] # "none"
      /\ \A n \in DOMAIN jobs' : jobs'[n].state = "DONE" => child[jobs'[n].pid] = "reaped"
  BY <1>1, <1>2, <1>4 DEF TableInv, EntriesInv
<1>8. CommandInv'
  BY <1>1, <1>2, <1>3, <1>4 DEF CommandInv, Adding, InTable
<1> QED
  BY <1>3, <1>5, <1>6, <1>7, <1>8 DEF TableInv, TableMatchesChildren, EntriesInv

\* No entry becomes or ceases to be another child's, and none becomes done.
LEMMA TableResume == ASSUME TypeOK, TableInv, ResumeJob PROVE TableInv'
<1>1. Distinct
  BY DEF TableInv, TableMatchesChildren, Distinct
<1>2. /\ DOMAIN jobs' = DOMAIN jobs
      /\ \A n \in DOMAIN jobs : /\ jobs'[n].pid = jobs[n].pid
                                /\ jobs'[n].state = IF jobs[n].pid # job THEN jobs[n].state
                                    ELSE IF cmd.kind = "fg" THEN "FOREGROUND" ELSE "BACKGROUND"
  BY <1>1, ResumeEffect
<1>3. /\ mpc = "resume" /\ child' = child
      /\ \/ mpc' = "read"
         \/ mpc' = "setfg" /\ job' = job
  BY DEF ResumeJob, Loop, Prompt
<1> QED
  BY <1>2, <1>3 DEF TableInv, TableMatchesChildren, EntriesInv, CommandInv, Adding, InTable

\* The handler marks the entry of the child it reaps, and of no other.
LEMMA TableHandle ==
    ASSUME TypeOK, TableInv, NEW p \in Pids, HandleChild(p) PROVE TableInv'
<1> DEFINE st == IF child[p] = "stopping" THEN "STOPPED" ELSE "DONE"
<1>1. Distinct
  BY DEF TableInv, TableMatchesChildren, Distinct
<1>2. UpdateJobs(p, st) /\ st \in {"STOPPED", "DONE"}
  BY DEF HandleChild
<1>3. /\ child[p] \in {"zombie", "stopping"}
      /\ child' = [child EXCEPT ![p] = IF child[p] = "stopping" THEN "stopped" ELSE "reaped"]
      /\ UNCHANGED <<mpc, cmd, job, k>>
  BY DEF HandleChild, loopVars
<1> HIDE DEF st
<1>4. /\ DOMAIN jobs' = DOMAIN jobs /\ Len(jobs') = Len(jobs)
      /\ \A n \in DOMAIN jobs : /\ jobs'[n].pid = jobs[n].pid
                                /\ jobs'[n].state = IF jobs[n].pid = p THEN st ELSE jobs[n].state
  BY <1>1, <1>2, UpdateJobsEffect
<1>5. /\ \A n \in DOMAIN jobs : jobs[n].pid \in Pids
      /\ \A q \in Pids : q # p => child'[q] = child[q]
      /\ child'[p] = IF child[p] = "stopping" THEN "stopped" ELSE "reaped"
  BY <1>3, JobsShape DEF Job, TypeOK
<1>6. TableMatchesChildren'
  <2>1. \A m, n \in DOMAIN jobs' : jobs'[m].pid = jobs'[n].pid => m = n
    BY <1>1, <1>4 DEF Distinct
  <2>2. ASSUME NEW q \in Pids, child'[q] \notin {"none", "reaped"}
        PROVE  \/ \E n \in DOMAIN jobs : jobs'[n].pid = q /\ jobs'[n].state # "DONE"
               \/ q = job /\ mpc \in {"unblock", "foreground", "newjob", "link"}
    <3>1. child[q] \notin {"none", "reaped"}
      BY <1>3, <1>5, <2>2
    <3>2. q = p => st = "STOPPED"
      BY <1>3, <1>5, <2>2 DEF st
    <3> QED
      BY <1>4, <3>1, <3>2 DEF TableInv, TableMatchesChildren
  <2> QED
    BY <1>3, <1>4, <2>1, <2>2 DEF TableMatchesChildren
<1>7. EntriesInv'
  <2>1. \A n \in DOMAIN jobs : child'[jobs[n].pid] # "none"
    BY <1>5 DEF TableInv, EntriesInv
  <2>2. ASSUME NEW n \in DOMAIN jobs, jobs'[n].state = "DONE"
        PROVE  child'[jobs[n].pid] = "reaped"
    BY <1>4, <1>5, <2>2 DEF st, TableInv, EntriesInv
  <2> QED
    BY <1>4, <2>1, <2>2 DEF EntriesInv
<1>8. CommandInv'
  BY <1>3, <1>4, <1>5 DEF TableInv, CommandInv, Adding, InTable
<1> QED
  BY <1>6, <1>7, <1>8 DEF TableInv

LEMMA TableNext == ASSUME TypeOK, TableInv, JobNumbers, [Next]_vars PROVE TableInv'
<1>1. CASE QuietStep
  <2>1. \A n \in DOMAIN jobs : jobs[n].pid \in Pids
    BY JobsShape DEF Job
  <2> QED
    BY <1>1, <2>1 DEF QuietStep, TableInv, TableMatchesChildren, EntriesInv, CommandInv, Adding, InTable
<1> QED
  BY <1>1, NextCases, TableLoopStep, TableFork, TableContinue, TableRemove, TableLink, TableResume, TableHandle

-----------------------------------------------------------------------------
(* The foreground.                                                         *)

LEMMA ForegroundInit == Init => ForegroundIsWaitedFor
  BY DEF Init, ForegroundIsWaitedFor

LEMMA ForegroundNext ==
    ASSUME TypeOK, TableInv, JobNumbers, ForegroundIsWaitedFor, [Next]_vars
    PROVE  ForegroundIsWaitedFor'
<1>1. Distinct
  BY DEF TableInv, TableMatchesChildren, Distinct
<1>2. CASE QuietStep
  BY <1>2 DEF QuietStep, ForegroundIsWaitedFor
<1>3. CASE LoopStep
  <2> USE DEF ForegroundIsWaitedFor, Loop, Prompt, tableVars
  <2>1. CASE WaitFgReturns
    <3>1. ASSUME NEW n \in DOMAIN jobs, jobs[n].pid = job PROVE jobs[n].state # "FOREGROUND"
      BY <1>1, <2>1, <3>1, FindPid DEF WaitFgReturns, StateOf
    <3> QED
      BY <2>1, <3>1 DEF WaitFgReturns
  <2>2. CASE SetFg
    BY <2>2 DEF SetFg
  <2>3. CASE ~WaitFgReturns /\ ~SetFg
    BY <1>3, <2>3 DEF LoopStep, Read, CheckJob, CheckEnds, InterpretOther, ListJobs, PrintJob, PrintEnds,
                      Block, Unblock, SetForeground, NewJob, NoSuchJob
  <2> QED
    BY <2>1, <2>2, <2>3
<1>4. CASE Fork
  BY <1>4 DEF Fork, Loop, ForegroundIsWaitedFor, tableVars
<1>5. CASE ContinueJob
  BY <1>5 DEF ContinueJob, Loop, ForegroundIsWaitedFor, tableVars
<1>6. CASE CheckJob /\ jobs[k].state = "DONE"
  BY <1>1, <1>6, RemoveEffect DEF CheckJob, Loop, ForegroundIsWaitedFor
<1>7. CASE LinkJob
  BY <1>7, LinkEffect DEF LinkJob, NewEntry, Loop, Prompt, ForegroundIsWaitedFor
<1>8. CASE ResumeJob
  BY <1>1, <1>8, ResumeEffect DEF ResumeJob, Loop, Prompt, ForegroundIsWaitedFor
<1>9. ASSUME NEW p \in Pids, HandleChild(p) PROVE ForegroundIsWaitedFor'
  <2> DEFINE st == IF child[p] = "stopping" THEN "STOPPED" ELSE "DONE"
  <2>1. UpdateJobs(p, st) /\ st \in {"STOPPED", "DONE"} /\ UNCHANGED <<mpc, job>>
    BY <1>9 DEF HandleChild, loopVars
  <2> HIDE DEF st
  <2>2. /\ DOMAIN jobs' = DOMAIN jobs
        /\ \A n \in DOMAIN jobs : /\ jobs'[n].pid = jobs[n].pid
                                  /\ jobs'[n].state = IF jobs[n].pid = p THEN st ELSE jobs[n].state
    BY <1>1, <2>1, UpdateJobsEffect
  <2> QED
    BY <2>1, <2>2 DEF ForegroundIsWaitedFor
<1> QED
  BY <1>2, <1>3, <1>4, <1>5, <1>6, <1>7, <1>8, <1>9, NextCases

-----------------------------------------------------------------------------
(* The numbers of jobs.                                                    *)

LEMMA NumbersInit == Init => NumbersInv
  BY DEF Init, NumbersInv, JobNumbers, GivenInv

\* An entry has no number only while it is in the foreground or when it is done,
\* so nothing is numbered while a number is on its way to a new entry, or while
\* the numbers are listed.
LEMMA Unnumbered ==
    ASSUME TypeOK, TableInv, JobNumbers, ForegroundIsWaitedFor,
           NEW n \in DOMAIN jobs, jobs[n].jid = 0, child[jobs[n].pid] # "reaped"
    PROVE  jobs[n].state = "FOREGROUND" /\ mpc \in {"setfg", "waitfg"}
<1>1. jobs[n].state \in JobState
  BY JobsShape DEF Job
<1>2. jobs[n].state \notin {"BACKGROUND", "STOPPED"}
  BY DEF JobNumbers
<1>3. jobs[n].state # "DONE"
  BY DEF TableInv, EntriesInv
<1> QED
  BY <1>1, <1>2, <1>3 DEF JobState, ForegroundIsWaitedFor

LEMMA NumbersLoopStep == ASSUME TypeOK, TableInv, NumbersInv, LoopStep PROVE NumbersInv'
<1>1. CASE PrintJob
  <2>1. /\ k \in DOMAIN jobs /\ k' = k + 1 /\ k \in Nat /\ mpc = "list" /\ mpc' = "list"
        /\ UNCHANGED <<jobs, nextjid, newjid>>
    BY <1>1, JobsShape DEF PrintJob, Loop, TypeOK, tableVars
  <2>2. CASE jobs[k].state \in {"BACKGROUND", "STOPPED"}
    <3> DEFINE S == Int
    <3>1. listed' = Append(listed, jobs[k].jid)
      BY <1>1, <2>2 DEF PrintJob
    <3>2. listed \in Seq(S) /\ jobs[k].jid \in S
      BY <2>1, MaxPidAssumption, JobsShape DEF TypeOK, Job
    <3> HIDE DEF S
    <3>3. /\ DOMAIN listed = 1..Len(listed) /\ Len(listed) \in Nat
          /\ DOMAIN listed' = 1..(Len(listed) + 1)
          /\ \A m \in 1..Len(listed) : listed'[m] = listed[m]
          /\ listed'[Len(listed) + 1] = jobs[k].jid
      BY <3>1, <3>2, AppendProperties, LenProperties
    <3>4. \A m \in DOMAIN listed : listed[m] # jobs[k].jid
      <4> SUFFICES ASSUME NEW m \in DOMAIN listed, listed[m] = jobs[k].jid PROVE FALSE
        OBVIOUS
      <4>1. PICK n \in DOMAIN jobs : n < k /\ jobs[n].jid = listed[m]
        BY DEF NumbersInv, GivenInv
      <4>2. jobs[k].jid # 0
        BY <2>1, <2>2 DEF NumbersInv, JobNumbers
      <4>3. n = k
        BY <2>1, <4>1, <4>2 DEF NumbersInv, JobNumbers
      <4> QED
        BY <2>1, <4>1, <4>3, JobsShape
    <3>5. \A m, n \in DOMAIN listed' : listed'[m] = listed'[n] => m = n
      BY <3>3, <3>4 DEF NumbersInv, JobNumbers
    <3>6. jobs[k].jid # 0
      BY <2>1, <2>2 DEF NumbersInv, JobNumbers
    <3>7. 0 \notin {listed'[n] : n \in DOMAIN listed'}
      BY <3>3, <3>6 DEF NumbersInv, JobNumbers
    <3>8. \A m \in DOMAIN listed' : \E n \in DOMAIN jobs : n < k + 1 /\ jobs[n].jid = listed'[m]
      BY <2>1, <3>3, JobsShape DEF NumbersInv, GivenInv
    <3> QED
      BY <2>1, <3>5, <3>7, <3>8 DEF NumbersInv, JobNumbers, GivenInv
  <2>3. CASE jobs[k].state \notin {"BACKGROUND", "STOPPED"}
    <3>1. listed' = listed
      BY <1>1, <2>3 DEF PrintJob
    <3>2. \A m \in DOMAIN listed : \E n \in DOMAIN jobs : n < k + 1 /\ jobs[n].jid = listed[m]
      BY <2>1, JobsShape DEF NumbersInv, GivenInv
    <3> QED
      BY <2>1, <3>1, <3>2 DEF NumbersInv, JobNumbers, GivenInv
  <2> QED
    BY <2>2, <2>3
<1>2. CASE CheckEnds
  <2>1. jobs = <<>> => DOMAIN jobs = {}
    BY JobsShape
  <2>2. listed = <<>> /\ listed' = listed /\ jobs' = jobs /\ mpc' = "interpret"
    BY <1>2 DEF CheckEnds, Loop, NumbersInv, GivenInv
  <2>3. DOMAIN listed = {}
    BY <2>2
  <2>4. nextjid' = nextjid \/ (nextjid' = 1 /\ jobs = <<>>)
    BY <1>2 DEF CheckEnds
  <2> QED
    BY <2>1, <2>2, <2>3, <2>4 DEF NumbersInv, JobNumbers, GivenInv
<1>3. CASE ~PrintJob /\ ~CheckEnds
  <2>1. UNCHANGED <<jobs, nextjid>>
    BY <1>3 DEF LoopStep, Read, CheckJob, InterpretOther, ListJobs, PrintEnds, Block, Unblock, SetForeground,
                NewJob, NoSuchJob, SetFg, WaitFgReturns, tableVars
  <2>2. listed = <<>> \/ PrintEnds
    BY <1>3 DEF LoopStep, Read, CheckJob, InterpretOther, ListJobs, Block, Unblock, SetForeground,
                NewJob, NoSuchJob, SetFg, WaitFgReturns, Loop, NumbersInv, GivenInv
  <2>3. listed' = <<>>
    BY <1>3, <2>2 DEF LoopStep, Read, CheckJob, InterpretOther, ListJobs, PrintEnds, Block, Unblock,
                SetForeground, NewJob, NoSuchJob, SetFg, WaitFgReturns, Loop, NumbersInv, GivenInv
  <2>4. mpc' # "resume" /\ (mpc' = "link" => newjid' = nextjid)
    BY <1>3 DEF LoopStep, Read, CheckJob, InterpretOther, ListJobs, PrintEnds, Block, Unblock, SetForeground,
                NewJob, NoSuchJob, SetFg, WaitFgReturns, Loop, Prompt
  <2>5. DOMAIN listed' = {}
    BY <2>3
  <2> QED
    BY <2>1, <2>3, <2>4, <2>5 DEF NumbersInv, JobNumbers, GivenInv
<1> QED
  BY <1>1, <1>2, <1>3

LEMMA NumbersContinue == ASSUME TypeOK, TableInv, NumbersInv, ContinueJob PROVE NumbersInv'
<1> DEFINE n == FindJobByJid(cmd.jid)
<1>1. cmd.jid \in Nat \ {0} /\ n # 0
  <2>1. n # 0 /\ cmd.kind \in {"fg", "bg"} /\ cmd \in Command
    BY DEF ContinueJob, TypeOK
  <2>2. cmd \in [kind : {"fg", "bg"}, bg : {FALSE}, jid : 1..MaxPid]
    BY <2>1 DEF Command
  <2> QED
    BY <2>1, <2>2, MaxPidAssumption
<1>2. n \in DOMAIN jobs /\ jobs[n].jid = cmd.jid
  BY <1>1, FindJid DEF NumbersInv
<1>3. /\ mpc' = "resume" /\ job' = jobs[n].pid /\ mpc = "interpret"
      /\ UNCHANGED <<jobs, nextjid, newjid, listed, k>>
  BY DEF ContinueJob, Loop, tableVars
<1> HIDE DEF n
<1>4. \A m \in DOMAIN jobs : jobs[m].pid = jobs[n].pid => m = n
  BY <1>2 DEF TableInv, TableMatchesChildren
<1> QED
  BY <1>1, <1>2, <1>3, <1>4 DEF NumbersInv, JobNumbers, GivenInv

LEMMA NumbersRemove ==
    ASSUME TypeOK, TableInv, NumbersInv, CheckJob, jobs[k].state = "DONE" PROVE NumbersInv'
<1>1. Distinct
  BY DEF TableInv, TableMatchesChildren, Distinct
<1>2. /\ \A n \in DOMAIN jobs' : Kept(n) \in DOMAIN jobs /\ jobs'[n] = jobs[Kept(n)]
      /\ \A m, n \in DOMAIN jobs' : Kept(m) = Kept(n) => m = n
  BY <1>1, RemoveEffect
<1>3. mpc = "check" /\ mpc' = "check" /\ UNCHANGED <<nextjid, listed>>
  BY DEF CheckJob, Loop
<1>4. listed = <<>> /\ DOMAIN listed = {}
  BY <1>3 DEF NumbersInv, GivenInv
<1> QED
  BY <1>2, <1>3, <1>4 DEF NumbersInv, JobNumbers, GivenInv

LEMMA NumbersLink == ASSUME TypeOK, TableInv, NumbersInv, LinkJob PROVE NumbersInv'
<1> DEFINE last == Len(jobs) + 1
<1>1. /\ \A n \in DOMAIN jobs : n \in DOMAIN jobs' /\ n # last /\ jobs'[n] = jobs[n]
      /\ last \in DOMAIN jobs' /\ jobs'[last] = NewEntry
      /\ \A n \in DOMAIN jobs' : n \in DOMAIN jobs \/ n = last
  BY LinkEffect
<1> HIDE DEF last
<1>2. newjid = nextjid /\ nextjid \in Nat \ {0}
  BY MaxPidAssumption DEF LinkJob, Loop, NumbersInv, GivenInv, TypeOK
<1>3. /\ NewEntry.jid = IF cmd.bg THEN nextjid ELSE 0
      /\ NewEntry.state = IF cmd.bg THEN "BACKGROUND" ELSE "FOREGROUND"
      /\ nextjid' = IF cmd.bg THEN nextjid + 1 ELSE nextjid
  BY <1>2 DEF NewEntry, LinkJob
<1>4. listed = <<>> /\ listed' = listed /\ DOMAIN listed = {} /\ mpc' \in {"read", "waitfg"}
  BY DEF LinkJob, Loop, Prompt, NumbersInv, GivenInv
<1>5. \A n \in DOMAIN jobs : jobs[n].jid < nextjid /\ jobs[n].jid \in Int
  BY MaxPidAssumption, JobsShape DEF NumbersInv, JobNumbers, Job
<1>6. \A n \in DOMAIN jobs' : jobs'[n].state \in {"BACKGROUND", "STOPPED"} => jobs'[n].jid # 0
  BY <1>1, <1>2, <1>3 DEF NumbersInv, JobNumbers
<1>7. \A n \in DOMAIN jobs' : jobs'[n].jid < nextjid'
  BY <1>1, <1>2, <1>3, <1>5
<1>8. \A m, n \in DOMAIN jobs' : jobs'[m].jid = jobs'[n].jid /\ jobs'[m].jid # 0 => m = n
  BY <1>1, <1>2, <1>3, <1>5 DEF NumbersInv, JobNumbers
<1> QED
  BY <1>4, <1>6, <1>7, <1>8 DEF NumbersInv, JobNumbers, GivenInv

LEMMA NumbersResume == ASSUME TypeOK, TableInv, NumbersInv, ResumeJob PROVE NumbersInv'
<1>1. Distinct
  BY DEF TableInv, TableMatchesChildren, Distinct
<1>2. /\ DOMAIN jobs' = DOMAIN jobs
      /\ \A n \in DOMAIN jobs : /\ jobs'[n].jid = jobs[n].jid
                                /\ jobs'[n].state = IF jobs[n].pid # job THEN jobs[n].state
                                    ELSE IF cmd.kind = "fg" THEN "FOREGROUND" ELSE "BACKGROUND"
  BY <1>1, ResumeEffect
<1>3. /\ mpc = "resume" /\ mpc' \in {"setfg", "read"} /\ UNCHANGED <<nextjid, listed>>
  BY DEF ResumeJob, Loop, Prompt
<1>4. listed = <<>> /\ DOMAIN listed = {}
  BY <1>3 DEF NumbersInv, GivenInv
<1>5. \A n \in DOMAIN jobs : jobs[n].pid = job => jobs[n].jid # 0
  BY <1>3 DEF NumbersInv, GivenInv
<1> QED
  BY <1>2, <1>3, <1>4, <1>5 DEF NumbersInv, JobNumbers, GivenInv

LEMMA NumbersHandle ==
    ASSUME TypeOK, TableInv, NumbersInv, ForegroundIsWaitedFor, NEW p \in Pids, HandleChild(p)
    PROVE  NumbersInv'
<1> DEFINE st == IF child[p] = "stopping" THEN "STOPPED" ELSE "DONE"
           numbers == st = "STOPPED" /\ \E n \in DOMAIN jobs : jobs[n].pid = p /\ jobs[n].jid = 0
<1>1. Distinct
  BY DEF TableInv, TableMatchesChildren, Distinct
<1>2. UpdateJobs(p, st) /\ st \in {"STOPPED", "DONE"} /\ UNCHANGED <<mpc, job, newjid, k, listed>>
  BY DEF HandleChild, loopVars
<1> HIDE DEF st
<1>3. /\ DOMAIN jobs' = DOMAIN jobs
      /\ \A n \in DOMAIN jobs :
            /\ jobs'[n].pid = jobs[n].pid
            /\ jobs'[n].state = IF jobs[n].pid = p THEN st ELSE jobs[n].state
            /\ jobs'[n].jid = IF jobs[n].pid = p /\ st = "STOPPED" /\ jobs[n].jid = 0
                              THEN nextjid ELSE jobs[n].jid
      /\ nextjid' = IF numbers THEN nextjid + 1 ELSE nextjid
  BY <1>1, <1>2, UpdateJobsEffect
<1>4. nextjid \in Nat \ {0} /\ \A n \in DOMAIN jobs : jobs[n].jid < nextjid /\ jobs[n].jid \in Int
  BY MaxPidAssumption, JobsShape DEF NumbersInv, JobNumbers, TypeOK, Job
<1>5. numbers => mpc \in {"setfg", "waitfg"}
  <2> SUFFICES ASSUME NEW n \in DOMAIN jobs, jobs[n].pid = p, jobs[n].jid = 0
               PROVE  mpc \in {"setfg", "waitfg"}
    OBVIOUS
  <2>1. child[p] # "reaped"
    BY DEF HandleChild
  <2> QED
    BY <2>1, Unnumbered DEF NumbersInv
<1>6. \A m, n \in DOMAIN jobs : jobs[m].pid = p /\ jobs[n].pid = p => m = n
  BY <1>1 DEF Distinct
<1>7. \A n \in DOMAIN jobs' : jobs'[n].state \in {"BACKGROUND", "STOPPED"} => jobs'[n].jid # 0
  <2> SUFFICES ASSUME NEW n \in DOMAIN jobs, jobs'[n].state \in {"BACKGROUND", "STOPPED"}
               PROVE  jobs'[n].jid # 0
    BY <1>3
  <2>1. CASE jobs[n].pid = p
    BY <1>2, <1>3, <1>4, <2>1
  <2>2. CASE jobs[n].pid # p
    BY <1>3, <2>2 DEF NumbersInv, JobNumbers
  <2> QED
    BY <2>1, <2>2
<1>8. \A n \in DOMAIN jobs' : jobs'[n].jid < nextjid'
  BY <1>3, <1>4
<1>9. \A m, n \in DOMAIN jobs' : jobs'[m].jid = jobs'[n].jid /\ jobs'[m].jid # 0 => m = n
  BY <1>3, <1>4, <1>6 DEF NumbersInv, JobNumbers
<1>10. /\ \A m, n \in DOMAIN listed : listed[m] = listed[n] => m = n
       /\ 0 \notin {listed[n] : n \in DOMAIN listed}
  BY DEF NumbersInv, JobNumbers
<1>11. GivenInv'
  <2>1. CASE numbers
    <3>1. listed = <<>> /\ DOMAIN listed = {}
      BY <1>5, <2>1 DEF NumbersInv, GivenInv
    <3> QED
      BY <1>2, <1>5, <2>1, <3>1 DEF GivenInv
  <2>2. CASE ~numbers
    <3>1. nextjid' = nextjid /\ \A n \in DOMAIN jobs : jobs'[n].jid = jobs[n].jid
      BY <1>3, <2>2
    <3> QED
      BY <1>2, <1>3, <3>1 DEF NumbersInv, GivenInv
  <2> QED
    BY <2>1, <2>2
<1> QED
  BY <1>2, <1>7, <1>8, <1>9, <1>10, <1>11 DEF NumbersInv, JobNumbers

LEMMA NumbersNext ==
    ASSUME TypeOK, TableInv, NumbersInv, ForegroundIsWaitedFor, [Next]_vars
    PROVE  NumbersInv'
<1>1. CASE QuietStep
  BY <1>1 DEF QuietStep, NumbersInv, JobNumbers, GivenInv
<1>2. CASE Fork
  BY <1>2 DEF Fork, Loop, NumbersInv, JobNumbers, GivenInv, tableVars
<1> QED
  BY <1>1, <1>2, NextCases, NumbersLoopStep, NumbersContinue, NumbersRemove, NumbersLink,
     NumbersResume, NumbersHandle

-----------------------------------------------------------------------------
(* The process that ctrl-c and ctrl-z reach.                               *)

LEMMA FgPidInit == Init => FgPidInv
  BY DEF Init, FgPidInv, Pids

LEMMA FgPidLoopStep == ASSUME TypeOK, TableInv, FgPidInv, LoopStep PROVE FgPidInv'
<1> USE DEF FgPidInv, InTable, Loop, Prompt, tableVars
<1>1. CASE SetForeground
  <2>1. job \in Pids /\ ~InTable(job)
    BY <1>1 DEF SetForeground, TableInv, CommandInv, Adding
  <2> QED
    BY <1>1, <2>1 DEF SetForeground
<1>2. CASE SetFg
  <2>1. job \in Pids /\ InTable(job)
    BY <1>2 DEF SetFg, TableInv, CommandInv
  <2> QED
    BY <1>2, <2>1 DEF SetFg
<1>3. CASE Unblock
  <2>1. job \in Pids /\ ~InTable(job)
    BY <1>3 DEF Unblock, TableInv, CommandInv, Adding
  <2> QED
    BY <1>3, <2>1 DEF Unblock
<1>4. CASE NewJob
  BY <1>4 DEF NewJob
<1>5. CASE ~SetForeground /\ ~SetFg /\ ~Unblock /\ ~NewJob
  <2>1. UNCHANGED <<jobs, fg_pid>> /\ mpc \notin {"newjob", "link"}
    BY <1>5 DEF LoopStep, Read, CheckJob, CheckEnds, InterpretOther, ListJobs, PrintJob, PrintEnds,
                Block, NoSuchJob, WaitFgReturns
  <2>2. mpc' \notin {"newjob", "link", "setfg", "foreground"}
    BY <1>5 DEF LoopStep, Read, CheckJob, CheckEnds, InterpretOther, ListJobs, PrintJob, PrintEnds,
                Block, NoSuchJob, WaitFgReturns
  <2> QED
    BY <2>1, <2>2
<1> QED
  BY <1>1, <1>2, <1>3, <1>4, <1>5

\* The entry that is removed is not the one fg_pid names, or fg_pid is given up.
LEMMA FgPidRemove ==
    ASSUME TypeOK, TableInv, FgPidInv, CheckJob, jobs[k].state = "DONE" PROVE FgPidInv'
<1>1. Distinct
  BY DEF TableInv, TableMatchesChildren, Distinct
<1>2. /\ k \in DOMAIN jobs
      /\ \A n \in DOMAIN jobs' : Kept(n) \in DOMAIN jobs /\ jobs'[n] = jobs[Kept(n)]
      /\ \A m \in DOMAIN jobs : m # k => \E n \in DOMAIN jobs' : Kept(n) = m
  BY <1>1, RemoveEffect
<1>3. /\ mpc = "check" /\ mpc' = "check"
      /\ fg_pid' = IF jobs[k].print THEN fg_pid ELSE -1
  BY DEF CheckJob, Loop
<1>4. \A n \in DOMAIN jobs : jobs[n].pid \in Pids
  BY JobsShape DEF Job
<1>5. CASE ~jobs[k].print
  BY <1>2, <1>3, <1>4, <1>5 DEF FgPidInv, Pids
<1>6. CASE jobs[k].print
  <2>1. fg_pid' = fg_pid /\ jobs[k].pid # fg_pid
    BY <1>2, <1>3, <1>6 DEF FgPidInv
  <2>2. ASSUME fg_pid \in Pids PROVE \E n \in DOMAIN jobs' : jobs'[n].pid = fg_pid
    <3>1. PICK m \in DOMAIN jobs : jobs[m].pid = fg_pid
      BY <1>3, <2>2 DEF FgPidInv, InTable
    <3> QED
      BY <1>2, <2>1, <3>1
  <2>3. \A n \in DOMAIN jobs' : jobs'[n].pid = fg_pid => ~jobs'[n].print
    BY <1>2 DEF FgPidInv
  <2> QED
    BY <1>3, <2>1, <2>2, <2>3 DEF FgPidInv, InTable
<1> QED
  BY <1>5, <1>6

LEMMA FgPidNext ==
    ASSUME TypeOK, TableInv, FgPidInv, [Next]_vars PROVE FgPidInv'
<1>1. Distinct
  BY DEF TableInv, TableMatchesChildren, Distinct
<1>2. \A n \in DOMAIN jobs : jobs[n].pid \in Pids
  BY JobsShape DEF Job
<1>3. CASE QuietStep
  <2>1. mpc \in {"newjob", "link"} => job \in Pids
    BY DEF TableInv, CommandInv, Adding
  <2>2. -1 \notin Pids
    BY DEF Pids
  <2> QED
    BY <1>2, <1>3, <2>1, <2>2 DEF QuietStep, FgPidInv, InTable
<1>4. CASE Fork
  BY <1>4 DEF Fork, Loop, FgPidInv, InTable, tableVars
<1>5. CASE ContinueJob
  BY <1>5 DEF ContinueJob, Loop, FgPidInv, InTable, tableVars
<1>6. CASE LinkJob
  <2> DEFINE last == Len(jobs) + 1
  <2>1. /\ \A n \in DOMAIN jobs : n \in DOMAIN jobs' /\ jobs'[n] = jobs[n]
        /\ last \in DOMAIN jobs' /\ jobs'[last] = NewEntry
        /\ \A n \in DOMAIN jobs' : n \in DOMAIN jobs \/ n = last
    BY <1>6, LinkEffect
  <2> HIDE DEF last
  <2>2. NewEntry.pid = job /\ (NewEntry.print <=> cmd.bg)
    BY DEF NewEntry
  <2>3. mpc = "link" /\ mpc' \in {"read", "waitfg"} /\ fg_pid' = fg_pid
    BY <1>6 DEF LinkJob, Loop, Prompt
  <2>4. fg_pid \in Pids => \E n \in DOMAIN jobs' : jobs'[n].pid = fg_pid
    BY <2>1, <2>2, <2>3 DEF FgPidInv, InTable
  <2>5. \A n \in DOMAIN jobs' : jobs'[n].pid = fg_pid => ~jobs'[n].print
    BY <2>1, <2>2, <2>3 DEF FgPidInv
  <2> QED
    BY <2>3, <2>4, <2>5 DEF FgPidInv, InTable
<1>7. CASE ResumeJob
  <2>1. /\ DOMAIN jobs' = DOMAIN jobs
        /\ \A n \in DOMAIN jobs :
             /\ jobs'[n].pid = jobs[n].pid
             /\ jobs'[n].print => jobs[n].print
             /\ jobs'[n].print => ~(jobs[n].pid = job /\ cmd.kind = "fg")
    BY <1>1, <1>7, ResumeEffect
  <2>2. /\ mpc = "resume" /\ fg_pid' = fg_pid
        /\ mpc' = "read" \/ (mpc' = "setfg" /\ cmd.kind = "fg" /\ job' = job)
    BY <1>7 DEF ResumeJob, Loop, Prompt
  <2> QED
    BY <2>1, <2>2 DEF FgPidInv, InTable
<1>8. ASSUME NEW p \in Pids, HandleChild(p) PROVE FgPidInv'
  <2> DEFINE st == IF child[p] = "stopping" THEN "STOPPED" ELSE "DONE"
  <2>1. UpdateJobs(p, st) /\ st \in {"STOPPED", "DONE"} /\ UNCHANGED <<mpc, cmd, job>>
        /\ fg_pid' \in {fg_pid, -1}
    BY <1>8 DEF HandleChild, loopVars
  <2> HIDE DEF st
  <2>2. /\ DOMAIN jobs' = DOMAIN jobs
        /\ \A n \in DOMAIN jobs : jobs'[n].pid = jobs[n].pid /\ jobs'[n].print = jobs[n].print
    BY <1>1, <2>1, UpdateJobsEffect
  <2>3. mpc \in {"newjob", "link"} => job \in Pids
    BY DEF TableInv, CommandInv, Adding
  <2>4. -1 \notin Pids
    BY DEF Pids
  <2> QED
    BY <1>2, <2>1, <2>2, <2>3, <2>4 DEF FgPidInv, InTable
<1> QED
  BY <1>3, <1>4, <1>5, <1>6, <1>7, <1>8, NextCases, FgPidLoopStep, FgPidRemove

-----------------------------------------------------------------------------
(* How many numbers there are.                                             *)

\* Sets of children, counted.
LEMMA CountGrows ==
    ASSUME NEW A \in SUBSET Pids, NEW B \in SUBSET Pids, A \subseteq B
    PROVE  /\ Cardinality(A) \in Nat /\ Cardinality(B) \in Nat
           /\ Cardinality(A) <= Cardinality(B)
           /\ (\E p \in B : p \notin A) => Cardinality(A) + 1 <= Cardinality(B)
<1>1. IsFiniteSet(Pids)
  BY MaxPidAssumption, FS_Interval DEF Pids
<1>2. IsFiniteSet(B)
  BY <1>1, FS_Subset
<1>3. IsFiniteSet(A) /\ Cardinality(A) <= Cardinality(B) /\ (Cardinality(B) = Cardinality(A) => B = A)
  BY <1>2, FS_Subset
<1>4. Cardinality(A) \in Nat /\ Cardinality(B) \in Nat
  BY <1>2, <1>3, FS_CardinalityType
<1> QED
  BY <1>3, <1>4

\* A child that has no number yet leaves one for it.
LEMMA NumberLeft ==
    ASSUME TypeOK, NumberedInv, NEW p \in Pids, p \notin Numbered
    PROVE  nextjid <= MaxPid
<1>1. Numbered \in SUBSET Pids
  BY DEF Numbered
<1>2. Cardinality(Numbered) \in Nat /\ Cardinality(Numbered) + 1 <= Cardinality(Pids)
  <2> DEFINE N == Numbered
             P == Pids
  <2>1. N \in SUBSET Pids /\ P \in SUBSET Pids /\ N \subseteq P /\ \E q \in P : q \notin N
    BY <1>1
  <2> HIDE DEF N, P
  <2>2. Cardinality(N) \in Nat /\ Cardinality(N) + 1 <= Cardinality(P)
    BY <2>1, CountGrows
  <2> QED
    BY <2>2 DEF N, P
<1>3. Cardinality(Pids) = MaxPid
  BY MaxPidAssumption, FS_Interval DEF Pids
<1>4. nextjid \in Int
  BY DEF TypeOK
<1> QED
  BY <1>2, <1>3, <1>4, MaxPidAssumption DEF NumberedInv

\* NumberedInv is kept when the numbered children stay numbered, and one more is
\* when a number is given.
LEMMA CountKept ==
    ASSUME TypeOK, NumberedInv, nextjid' \in Int, Numbered \subseteq Numbered',
           \/ nextjid' <= nextjid
           \/ nextjid' = nextjid + 1 /\ \E p \in Numbered' : p \notin Numbered
           \/ nextjid' = 1
    PROVE  NumberedInv'
<1> DEFINE A == Numbered
           B == Numbered'
<1>1. A \in SUBSET Pids /\ B \in SUBSET Pids /\ A \subseteq B
  BY DEF Numbered
<1>2. \/ nextjid' <= nextjid
      \/ nextjid' = nextjid + 1 /\ \E p \in B : p \notin A
      \/ nextjid' = 1
  OBVIOUS
<1>3. nextjid \in Int /\ nextjid <= Cardinality(A) + 1
  BY DEF TypeOK, NumberedInv
<1>4. nextjid' <= Cardinality(B) + 1
  <2> HIDE DEF A, B
  <2>1. /\ Cardinality(A) \in Nat /\ Cardinality(B) \in Nat
        /\ Cardinality(A) <= Cardinality(B)
        /\ (\E p \in B : p \notin A) => Cardinality(A) + 1 <= Cardinality(B)
    BY <1>1, CountGrows
  <2> QED
    BY <1>2, <1>3, <2>1
<1> QED
  BY <1>4 DEF NumberedInv

LEMMA NumberedInit == Init => NumberedInv
<1> SUFFICES ASSUME Init PROVE NumberedInv
  OBVIOUS
<1> DEFINE N == Numbered
<1>1. N \in SUBSET Pids /\ N \subseteq N
  BY DEF Numbered
<1>2. Cardinality(N) \in Nat
  <2> HIDE DEF N
  <2> QED
    BY <1>1, CountGrows
<1> QED
  BY <1>2 DEF Init, NumberedInv

LEMMA NumberedNext ==
    ASSUME TypeOK, TableInv, NumbersInv, ForegroundIsWaitedFor, NumberedInv, [Next]_vars, nextjid' \in Int
    PROVE  NumberedInv'
<1>1. Distinct /\ nextjid \in Int
  BY DEF TableInv, TableMatchesChildren, Distinct, TypeOK
<1>2. CASE QuietStep
  <2>1. Numbered' = Numbered /\ nextjid' = nextjid
    BY <1>2 DEF QuietStep, Numbered
  <2> QED
    BY <1>1, <2>1, CountKept
<1>3. CASE LoopStep
  <2>1. UNCHANGED <<jobs, child>> /\ (nextjid' = nextjid \/ nextjid' = 1)
    BY <1>3 DEF LoopStep, Read, CheckJob, CheckEnds, InterpretOther, ListJobs, PrintJob, PrintEnds, Block, Unblock,
                SetForeground, NewJob, NoSuchJob, SetFg, WaitFgReturns, tableVars
  <2>2. \/ mpc \notin Adding /\ mpc' \notin Adding
        \/ mpc \in Adding /\ mpc' \in Adding /\ job' = job
    BY <1>3 DEF LoopStep, Read, CheckJob, CheckEnds, InterpretOther, ListJobs, PrintJob, PrintEnds, Block, Unblock,
                SetForeground, NewJob, NoSuchJob, SetFg, WaitFgReturns, Loop, Prompt, Adding
  <2>3. Numbered' = Numbered
    BY <2>1, <2>2 DEF Numbered
  <2> QED
    BY <1>1, <2>1, <2>3, CountKept
<1>4. CASE Fork
  <2>1. mpc = "forking" /\ mpc' = "unblock" /\ UNCHANGED <<jobs, nextjid>>
    BY <1>4 DEF Fork, Loop, tableVars
  <2>2. PICK p \in Pids : child[p] = "none" /\ child' = [child EXCEPT ![p] = "forked"] /\ job' = p
    BY <1>4 DEF Fork
  <2>3. Numbered \subseteq Numbered'
    BY <2>1, <2>2 DEF Numbered, Adding, TypeOK
  <2> QED
    BY <1>1, <2>1, <2>3, CountKept
<1>5. CASE ContinueJob
  <2>1. mpc = "interpret" /\ mpc' = "resume" /\ UNCHANGED <<jobs, nextjid>>
    BY <1>5 DEF ContinueJob, Loop, tableVars
  <2>2. \A p \in Pids : child[p] # "none" => child'[p] # "none"
    BY <1>5 DEF ContinueJob, TypeOK
  <2>3. Numbered \subseteq Numbered'
    BY <2>1, <2>2 DEF Numbered, Adding
  <2> QED
    BY <1>1, <2>1, <2>3, CountKept
<1>6. CASE CheckJob /\ jobs[k].state = "DONE"
  <2>1. \A n \in DOMAIN jobs' : Kept(n) \in DOMAIN jobs /\ jobs'[n] = jobs[Kept(n)]
    BY <1>1, <1>6, RemoveEffect
  <2>2. UNCHANGED <<child, mpc, job, nextjid>>
    BY <1>6 DEF CheckJob
  <2>3. Numbered \subseteq Numbered'
    BY <2>1, <2>2 DEF Numbered
  <2> QED
    BY <1>1, <2>2, <2>3, CountKept
<1>7. CASE LinkJob
  <2> DEFINE last == Len(jobs) + 1
  <2>1. /\ \A n \in DOMAIN jobs : jobs'[n] = jobs[n]
        /\ jobs'[last] = NewEntry
        /\ \A n \in DOMAIN jobs' : n \in DOMAIN jobs \/ n = last
    BY <1>7, LinkEffect
  <2> HIDE DEF last
  <2>2. /\ mpc = "link" /\ mpc' \in {"read", "waitfg"} /\ child' = child
        /\ nextjid' = IF cmd.bg THEN nextjid + 1 ELSE nextjid
    BY <1>7 DEF LinkJob, Loop, Prompt
  <2>3. job \in Pids /\ child[job] # "none" /\ \A n \in DOMAIN jobs : jobs[n].pid # job
    BY <2>2 DEF TableInv, CommandInv, Adding, InTable
  <2>4. NewEntry.pid = job /\ (cmd.bg => NewEntry.jid = nextjid)
    BY <2>2 DEF NewEntry, NumbersInv, GivenInv
  <2>5. job \notin Numbered
    BY <2>2 DEF Numbered, Adding
  <2>6. Numbered \subseteq Numbered'
    BY <2>1, <2>2, <2>4, <2>5 DEF Numbered, Adding
  <2>7. cmd.bg => job \in Numbered'
    <3>1. nextjid # 0
      BY DEF TypeOK
    <3> QED
      BY <2>1, <2>2, <2>3, <2>4, <3>1 DEF Numbered, Adding
  <2> QED
    BY <1>1, <2>2, <2>5, <2>6, <2>7, CountKept
<1>8. CASE ResumeJob
  <2>1. /\ DOMAIN jobs' = DOMAIN jobs
        /\ \A n \in DOMAIN jobs : jobs'[n].pid = jobs[n].pid /\ jobs'[n].jid = jobs[n].jid
    BY <1>1, <1>8, ResumeEffect
  <2>2. mpc = "resume" /\ mpc' \in {"read", "setfg"} /\ UNCHANGED <<child, nextjid>>
    BY <1>8 DEF ResumeJob, Loop, Prompt
  <2>3. Numbered \subseteq Numbered'
    BY <2>1, <2>2 DEF Numbered, Adding
  <2> QED
    BY <1>1, <2>2, <2>3, CountKept
<1>9. ASSUME NEW p \in Pids, HandleChild(p) PROVE NumberedInv'
  <2> DEFINE st == IF child[p] = "stopping" THEN "STOPPED" ELSE "DONE"
             numbers == st = "STOPPED" /\ \E n \in DOMAIN jobs : jobs[n].pid = p /\ jobs[n].jid = 0
  <2>1. UpdateJobs(p, st) /\ st \in {"STOPPED", "DONE"} /\ UNCHANGED <<mpc, job>>
    BY <1>9 DEF HandleChild, loopVars
  <2>2. \A q \in Pids : child[q] # "none" => child'[q] # "none"
    BY <1>9 DEF HandleChild, TypeOK
  <2>3. child[p] # "none" /\ child[p] # "reaped"
    BY <1>9 DEF HandleChild
  <2> HIDE DEF st
  <2>4. /\ DOMAIN jobs' = DOMAIN jobs
        /\ \A n \in DOMAIN jobs :
              /\ jobs'[n].pid = jobs[n].pid
              /\ jobs'[n].jid = IF jobs[n].pid = p /\ st = "STOPPED" /\ jobs[n].jid = 0
                                THEN nextjid ELSE jobs[n].jid
        /\ nextjid' = IF numbers THEN nextjid + 1 ELSE nextjid
    BY <1>1, <2>1, UpdateJobsEffect
  <2>5. nextjid # 0
    BY DEF TypeOK
  <2>6. Numbered \subseteq Numbered'
    BY <2>1, <2>2, <2>4, <2>5 DEF Numbered
  <2>7. ASSUME numbers PROVE p \in Numbered' /\ p \notin Numbered
    <3>1. PICK n \in DOMAIN jobs : jobs[n].pid = p /\ jobs[n].jid = 0
      BY <2>7
    <3>2. mpc \in {"setfg", "waitfg"}
      BY <2>3, <3>1, Unnumbered DEF NumbersInv
    <3>3. \A m \in DOMAIN jobs : jobs[m].pid = p => m = n
      BY <1>1, <3>1 DEF Distinct
    <3>4. \A m \in DOMAIN jobs' : jobs'[m].pid = p => jobs'[m].jid # 0
      BY <2>4, <2>5, <2>7, <3>1, <3>3
    <3> QED
      BY <2>1, <2>2, <2>3, <3>1, <3>2, <3>4 DEF Numbered, Adding
  <2> QED
    BY <1>1, <2>4, <2>6, <2>7, CountKept
<1> QED
  BY <1>2, <1>3, <1>4, <1>5, <1>6, <1>7, <1>8, <1>9, NextCases

-----------------------------------------------------------------------------
(* Typing.                                                                 *)

LEMMA TypeInit == Init => TypeOK
<1> SUFFICES ASSUME Init PROVE TypeOK
  OBVIOUS
<1>1. cmd \in Command
  BY DEF Init, NoCommand, Command
<1>2. jobs \in Seq(Job) /\ Len(jobs) = 0 /\ listed \in Seq(0..MaxPid)
  BY DEF Init
<1>3. child \in [Pids -> ChildState] /\ mpc \in LoopPC
  BY DEF Init, ChildState, LoopPC
<1>4. /\ 0 <= MaxPid /\ 1 \in 1..(MaxPid + 1) /\ 0 \in 0..(MaxPid + 1)
  BY MaxPidAssumption
<1> QED
  BY <1>1, <1>2, <1>3, <1>4 DEF Init, TypeOK

\* A changed entry is an entry, and so is the table a table.
LEMMA EntryChanged ==
    ASSUME TypeOK, NEW n \in DOMAIN jobs, NEW e \in Job, jobs' = [jobs EXCEPT ![n] = e]
    PROVE  jobs' \in Seq(Job) /\ Len(jobs') = Len(jobs)
<1>1. jobs \in Seq(Job) /\ n \in 1..Len(jobs)
  BY JobsShape DEF TypeOK
<1> QED
  BY <1>1, ExceptSeq

\* There is room in the table for every child.
LEMMA TableRoom ==
    ASSUME TypeOK, TableInv, LinkJob PROVE Len(jobs) + 1 <= MaxPid
<1> DEFINE N == Len(jobs)
           Positions == 1..(N + 1)
           pidAt == [n \in Positions |-> IF n <= N THEN jobs[n].pid ELSE job]
<1>1. N \in Nat /\ DOMAIN jobs = 1..N /\ jobs \in [1..N -> Job]
  BY JobsShape
<1>2. job \in Pids /\ \A n \in 1..N : jobs[n].pid # job
  BY <1>1 DEF LinkJob, Loop, TableInv, CommandInv, Adding, InTable
<1>3. \A n \in 1..N : jobs[n].pid \in Pids
  BY <1>1 DEF Job
<1>4. pidAt \in [Positions -> Pids]
  BY <1>1, <1>2, <1>3
<1>5. \A m, n \in 1..N : jobs[m].pid = jobs[n].pid => m = n
  BY <1>1 DEF TableInv, TableMatchesChildren
<1>6. \A m, n \in Positions : pidAt[m] = pidAt[n] => m = n
  BY <1>1, <1>2, <1>5
<1>7. IsFiniteSet(Positions) /\ Cardinality(Positions) = N + 1
  BY <1>1, FS_Interval
<1>8. IsFiniteSet(Pids) /\ Cardinality(Pids) = MaxPid
  BY MaxPidAssumption, FS_Interval DEF Pids
<1>9. ~(Cardinality(Pids) < Cardinality(Positions))
  <2> HIDE DEF Positions, pidAt
  <2> SUFFICES ASSUME Cardinality(Pids) < Cardinality(Positions) PROVE FALSE
    OBVIOUS
  <2>1. \E m, n \in Positions : m # n /\ pidAt[m] = pidAt[n]
    BY <1>4, <1>7, <1>8, FS_PigeonHole
  <2> QED
    BY <1>6, <2>1
<1> QED
  BY <1>1, <1>7, <1>8, <1>9, MaxPidAssumption

LEMMA TypeLoopStep == ASSUME TypeOK, TableInv, LoopStep PROVE TypeOK'
<1> USE MaxPidAssumption DEF TypeOK, Loop, Prompt, LoopPC, tableVars
<1>1. NoCommand \in Command /\ Len(jobs) \in Nat /\ DOMAIN jobs = 1..Len(jobs)
  BY JobsShape DEF NoCommand, Command
<1>2. CASE \E c \in Command : Read(c)
  BY <1>2 DEF Read
<1>3. CASE CheckJob /\ jobs[k].state # "DONE"
  BY <1>1, <1>3 DEF CheckJob
<1>4. CASE CheckEnds
  BY <1>4 DEF CheckEnds
<1>5. CASE InterpretOther \/ NoSuchJob \/ WaitFgReturns
  BY <1>1, <1>5 DEF InterpretOther, NoSuchJob, WaitFgReturns
<1>6. CASE ListJobs
  BY <1>6 DEF ListJobs
<1>7. CASE PrintJob
  <2>1. k \in DOMAIN jobs /\ k + 1 \in 1..(MaxPid + 1)
    BY <1>1, <1>7 DEF PrintJob
  <2>2. jobs[k].jid \in 0..MaxPid
    BY <2>1, JobsShape DEF Job
  <2>3. listed' \in Seq(0..MaxPid)
    <3> DEFINE S == 0..MaxPid
    <3>1. listed \in Seq(S) /\ jobs[k].jid \in S
      BY <2>2
    <3> HIDE DEF S
    <3>2. Append(listed, jobs[k].jid) \in Seq(S)
      BY <3>1, AppendProperties
    <3> QED
      BY <1>7, <3>1, <3>2 DEF PrintJob, S
  <2> QED
    BY <1>7, <2>1, <2>3 DEF PrintJob
<1>8. CASE PrintEnds
  BY <1>1, <1>8 DEF PrintEnds
<1>9. CASE Block \/ Unblock
  BY <1>9 DEF Block, Unblock
<1>10. CASE SetForeground
  BY <1>10 DEF SetForeground, TableInv, CommandInv, Adding
<1>11. CASE NewJob
  BY <1>11 DEF NewJob
<1>12. CASE SetFg
  BY <1>12 DEF SetFg, TableInv, CommandInv
<1> QED
  BY <1>2, <1>3, <1>4, <1>5, <1>6, <1>7, <1>8, <1>9, <1>10, <1>11, <1>12 DEF LoopStep

LEMMA TypeOthers ==
    ASSUME TypeOK, Sigint \/ SigintToSelf \/ SigintEnds \/ Sigtstp \/ Sigchld \/ HandlerReturns
                   \/ \E p \in Pids : ChildStarts(p) \/ ChildExits(p) \/ ChildStops(p)
    PROVE  TypeOK'
<1> USE DEF TypeOK, tableVars, loopVars, ChildState
<1>1. CASE Sigint
  BY <1>1 DEF Sigint
<1>2. CASE SigintToSelf \/ SigintEnds
  BY <1>2 DEF SigintToSelf, SigintEnds
<1>3. CASE Sigtstp
  BY <1>3 DEF Sigtstp
<1>4. CASE Sigchld
  BY <1>4 DEF Sigchld
<1>5. CASE HandlerReturns
  BY <1>5 DEF HandlerReturns
<1>6. CASE \E p \in Pids : ChildStarts(p) \/ ChildExits(p) \/ ChildStops(p)
  BY <1>6 DEF ChildStarts, ChildExits, ChildStops, Become
<1> QED
  BY <1>1, <1>2, <1>3, <1>4, <1>5, <1>6

LEMMA TypeContinue ==
    ASSUME TypeOK, JobNumbers, ContinueJob PROVE TypeOK'
<1> DEFINE n == FindJobByJid(cmd.jid)
           p == jobs[n].pid
<1>1. cmd.jid \in Nat \ {0} /\ n # 0
  <2>1. n # 0 /\ cmd.kind \in {"fg", "bg"} /\ cmd \in Command
    BY DEF ContinueJob, TypeOK
  <2>2. cmd \in [kind : {"fg", "bg"}, bg : {FALSE}, jid : 1..MaxPid]
    BY <2>1 DEF Command
  <2> QED
    BY <2>1, <2>2, MaxPidAssumption
<1>2. n \in DOMAIN jobs
  BY <1>1, FindJid
<1>3. p \in Pids
  BY <1>2, JobsShape DEF Job
<1>4. /\ job' = p
      /\ child' = child \/ child' = [child EXCEPT ![p] = "running"]
      /\ chld' \in {chld, TRUE}
      /\ mpc' = "resume"
      /\ UNCHANGED <<jobs, nextjid, fg_pid, cmd, newjid, k, listed, masked, intr, inHandler>>
  BY DEF ContinueJob, tableVars
<1> HIDE DEF n, p
<1> QED
  BY <1>3, <1>4 DEF TypeOK, LoopPC, ChildState

LEMMA TypeLink ==
    ASSUME TypeOK, TableInv, NumbersInv, NumberedInv, LinkJob PROVE TypeOK'
<1>1. mpc = "link" /\ job \in Pids
  BY DEF LinkJob, Loop, TableInv, CommandInv, Adding
<1>2. nextjid <= MaxPid
  <2>1. job \notin Numbered
    BY <1>1 DEF Numbered, Adding
  <2> QED
    BY <1>1, <2>1, NumberLeft
<1>3. newjid = nextjid /\ nextjid \in Nat
  BY <1>1, MaxPidAssumption DEF NumbersInv, GivenInv, TypeOK
<1>4. NewEntry \in Job
  <2>1. cmd.bg \in BOOLEAN
    BY DEF TypeOK, Command
  <2>2. newjid \in 0..MaxPid /\ 0 \in 0..MaxPid
    BY <1>2, <1>3, MaxPidAssumption
  <2>3. CASE cmd.bg
    <3>1. NewEntry = [pid |-> job, jid |-> newjid, state |-> "BACKGROUND", print |-> TRUE]
      BY <2>1, <2>3 DEF NewEntry
    <3> QED
      BY <1>1, <2>2, <3>1 DEF Job, JobState
  <2>4. CASE ~cmd.bg
    <3>1. NewEntry = [pid |-> job, jid |-> 0, state |-> "FOREGROUND", print |-> FALSE]
      BY <2>1, <2>4 DEF NewEntry
    <3> QED
      BY <1>1, <2>2, <3>1 DEF Job, JobState
  <2> QED
    BY <2>3, <2>4
<1>5. jobs' \in Seq(Job) /\ Len(jobs') = Len(jobs) + 1
  BY <1>4, AppendProperties DEF LinkJob, NewEntry, TypeOK
<1>6. Len(jobs') <= MaxPid
  BY <1>5, TableRoom
<1>7. NoCommand \in Command
  BY DEF NoCommand, Command
<1>8. nextjid' \in 1..(MaxPid + 1)
  BY <1>2, MaxPidAssumption DEF LinkJob, TypeOK
<1>9. /\ mpc' \in {"read", "waitfg"} /\ newjid' = 0 /\ cmd' \in {cmd, NoCommand} /\ job' \in {job, 0}
      /\ UNCHANGED <<fg_pid, k, listed, masked, chld, intr, inHandler, child>>
  BY DEF LinkJob, Prompt
<1> QED
  BY <1>5, <1>6, <1>7, <1>8, <1>9, MaxPidAssumption DEF TypeOK, LoopPC

LEMMA TypeResume ==
    ASSUME TypeOK, TableInv, ResumeJob PROVE TypeOK'
<1> DEFINE n == FindJobByPid(job)
<1>1. n \in DOMAIN jobs
  <2>1. job \in Pids /\ InTable(job) /\ Distinct
    BY DEF ResumeJob, Loop, TableInv, CommandInv, TableMatchesChildren, Distinct
  <2> QED
    BY <2>1, FindPid DEF InTable
<1>2. jobs[n] \in Job
  BY <1>1, JobsShape
<1> DEFINE b == IF cmd.kind = "fg" THEN [[jobs[n] EXCEPT !.state = "FOREGROUND"] EXCEPT !.print = FALSE]
                ELSE [jobs[n] EXCEPT !.state = "BACKGROUND"]
<1>3. b \in Job
  BY <1>2 DEF Job, JobState
<1>4. jobs' = [jobs EXCEPT ![n] = b]
  BY <1>1, JobsShape DEF ResumeJob
<1>5. jobs' \in Seq(Job) /\ Len(jobs') = Len(jobs)
  <2> HIDE DEF n, b
  <2> QED
    BY <1>1, <1>3, <1>4, EntryChanged
<1>6. NoCommand \in Command
  BY DEF NoCommand, Command
<1>7. /\ mpc' \in {"read", "setfg"} /\ cmd' \in {cmd, NoCommand} /\ job' \in {job, 0}
      /\ UNCHANGED <<nextjid, fg_pid, newjid, k, listed, masked, chld, intr, inHandler, child>>
  BY DEF ResumeJob, Prompt
<1> QED
  BY <1>5, <1>6, <1>7 DEF TypeOK, LoopPC

LEMMA TypeRemove ==
    ASSUME TypeOK, TableInv, CheckJob, jobs[k].state = "DONE" PROVE TypeOK'
<1>1. Distinct
  BY DEF TableInv, TableMatchesChildren, Distinct
<1>2. jobs' \in Seq(Job) /\ Len(jobs') = Len(jobs) - 1 /\ Len(jobs) \in Nat
  BY <1>1, RemoveEffect, JobsShape
<1>3. /\ fg_pid' \in {fg_pid, -1} /\ k' = k
      /\ UNCHANGED <<nextjid, mpc, cmd, job, newjid, listed, masked, chld, intr, inHandler, child>>
  BY DEF CheckJob
<1> QED
  BY <1>2, <1>3, MaxPidAssumption DEF TypeOK

\* The number a stopped job is given is not beyond the last.
LEMMA TypeHandle ==
    ASSUME TypeOK, TableInv, NumbersInv, NumberedInv, ForegroundIsWaitedFor,
           NEW p \in Pids, HandleChild(p)
    PROVE  TypeOK'
<1> DEFINE st == IF child[p] = "stopping" THEN "STOPPED" ELSE "DONE"
           n == FindJobByPid(p)
           numbered == st = "STOPPED" /\ n # 0 /\ jobs[n].jid = 0
           b == [[jobs[n] EXCEPT !.state = st] EXCEPT !.jid = IF numbered THEN nextjid ELSE @]
<1>1. /\ UpdateJobs(p, st) /\ st \in {"STOPPED", "DONE"} /\ fg_pid' \in {fg_pid, -1}
      /\ UNCHANGED <<mpc, cmd, job, newjid, k, listed, masked, chld, intr, inHandler>>
  BY DEF HandleChild, loopVars
<1>2. child[p] # "none" /\ child[p] # "reaped" /\ child' \in [Pids -> ChildState]
  BY DEF HandleChild, TypeOK, ChildState
<1>3. Distinct
  BY DEF TableInv, TableMatchesChildren, Distinct
<1>4. n = 0 \/ (n # 0 /\ n \in DOMAIN jobs /\ jobs[n].pid = p)
  <2>1. CASE InTable(p)
    <3>1. PICK m \in DOMAIN jobs : jobs[m].pid = p
      BY <2>1 DEF InTable
    <3> QED
      BY <1>3, <3>1, FindPid, JobsShape
  <2>2. CASE ~InTable(p)
    BY <1>3, <2>2, FindPid
  <2> QED
    BY <2>1, <2>2
<1>5. numbered => nextjid <= MaxPid
  <2> SUFFICES ASSUME numbered PROVE nextjid <= MaxPid
    OBVIOUS
  <2>1. n \in DOMAIN jobs /\ jobs[n].pid = p /\ jobs[n].jid = 0
    BY <1>4
  <2>2. p \notin Numbered
    BY <2>1 DEF Numbered
  <2> QED
    BY <2>2, NumberLeft
<1>6. /\ n = 0 => jobs' = jobs
      /\ n # 0 => jobs' = [jobs EXCEPT ![n] = b]
      /\ nextjid' = IF numbered THEN nextjid + 1 ELSE nextjid
  BY <1>1, <1>4, JobsShape DEF UpdateJobs
<1>7. nextjid' \in 1..(MaxPid + 1)
  <2> HIDE DEF numbered
  <2> QED
    BY <1>5, <1>6, MaxPidAssumption DEF TypeOK
<1>8. n # 0 => b \in Job
  <2> SUFFICES ASSUME n # 0 PROVE b \in Job
    OBVIOUS
  <2>1. jobs[n] \in Job
    BY <1>4, JobsShape
  <2>2. numbered => nextjid \in 0..MaxPid
    BY <1>5, MaxPidAssumption DEF TypeOK
  <2>3. st \in JobState
    BY <1>1 DEF JobState
  <2> HIDE DEF numbered, st, n
  <2> QED
    BY <2>1, <2>2, <2>3 DEF Job
<1>9. jobs' \in Seq(Job) /\ Len(jobs') = Len(jobs)
  <2> HIDE DEF n, b
  <2>1. CASE n = 0
    BY <1>6, <2>1 DEF TypeOK
  <2>2. CASE n # 0
    BY <1>4, <1>6, <1>8, <2>2, EntryChanged
  <2> QED
    BY <2>1, <2>2
<1> QED
  BY <1>1, <1>2, <1>7, <1>9 DEF TypeOK

LEMMA TypeNext ==
    ASSUME TypeOK, TableInv, NumbersInv, NumberedInv, ForegroundIsWaitedFor, [Next]_vars
    PROVE  TypeOK'
<1>1. CASE UNCHANGED vars
  BY <1>1 DEF TypeOK, vars
<1>2. CASE Fork
  BY <1>2 DEF Fork, TypeOK, LoopPC, ChildState, tableVars
<1>3. CASE CheckJob /\ jobs[k].state = "DONE"
  BY <1>3, TypeRemove
<1>4. CASE LoopStep
  BY <1>4, TypeLoopStep
<1>5. JobNumbers
  BY DEF NumbersInv
<1> QED
  BY <1>1, <1>2, <1>3, <1>4, <1>5, TypeOthers, TypeContinue, TypeLink, TypeResume, TypeHandle
  DEF Next, Execute, Handle, LoopStep

-----------------------------------------------------------------------------
(* The invariant, and the properties it stands for.                        *)

LEMMA IInvInit == Init => IInv
  BY TypeInit, TableInit, ForegroundInit, NumbersInit, FgPidInit, NumberedInit DEF IInv

LEMMA IInvNext == IInv /\ [Next]_vars => IInv'
<1> SUFFICES ASSUME IInv, [Next]_vars PROVE IInv'
  OBVIOUS
<1> USE DEF IInv
<1>1. TypeOK'
  BY TypeNext
<1>2. TableInv'
  BY TableNext DEF NumbersInv
<1>3. ForegroundIsWaitedFor'
  BY ForegroundNext DEF NumbersInv
<1>4. NumbersInv'
  BY NumbersNext
<1>5. FgPidInv'
  BY FgPidNext
<1>6. NumberedInv'
  BY <1>1, NumberedNext DEF TypeOK
<1> QED
  BY <1>1, <1>2, <1>3, <1>4, <1>5, <1>6

LEMMA IInvCorrect == Spec => []IInv
  BY IInvInit, IInvNext, PTL DEF Spec

\* Type correctness: the shell never numbers more jobs than it has forked, and never
\* has more entries than children.
THEOREM TypeCorrect == Spec => []TypeOK
<1>1. IInv => TypeOK
  BY DEF IInv
<1> QED
  BY <1>1, IInvCorrect, PTL

\* Every child that has not been reaped has exactly one entry, or is about to have it:
\* no SIGCHLD, however it interleaves with AddJob, CheckJobs, fg and bg, makes the
\* table lose or repeat a child.
THEOREM TableCorrect == Spec => []TableMatchesChildren
<1>1. IInv => TableMatchesChildren
  BY DEF IInv, TableInv
<1> QED
  BY <1>1, IInvCorrect, PTL

\* Job numbers are unique and not zero where fg, bg and jobs use them, although both
\* the loop and the handler give them.
THEOREM NumbersCorrect == Spec => []JobNumbers
<1>1. IInv => JobNumbers
  BY DEF IInv, NumbersInv
<1> QED
  BY <1>1, IInvCorrect, PTL

\* While a job is in the foreground, the loop waits for it.
THEOREM ForegroundCorrect == Spec => []ForegroundIsWaitedFor
<1>1. IInv => ForegroundIsWaitedFor
  BY DEF IInv
<1> QED
  BY <1>1, IInvCorrect, PTL

\* Ctrl-c and ctrl-z are sent to a process the table still holds, or is about to
\* hold: never to one that has been forgotten.
THEOREM OwnJobsCorrect == Spec => []SignalsOwnJobs
<1>1. IInv => SignalsOwnJobs
  <2> SUFFICES ASSUME IInv PROVE SignalsOwnJobs
    OBVIOUS
  <2>1. TypeOK /\ Distinct
    BY DEF IInv, TableInv, TableMatchesChildren, Distinct
  <2>2. InTable(fg_pid) => FindJobByPid(fg_pid) # 0
    BY <2>1, FindPid
  <2> QED
    BY <2>2 DEF IInv, FgPidInv, SignalsOwnJobs
<1> QED
  BY <1>1, IInvCorrect, PTL
=============================================================================
