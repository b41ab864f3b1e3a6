------------------------------ MODULE StoreOps ------------------------------
(***************************************************************************)
(* The embedded job store of a dkron server (dkron/store.go) as operators  *)
(* on its two tables.  Every write goes through one of the four commands   *)
(* that dkron/fsm.go applies: SetJob, DeleteJob, SetExecution and          *)
(* ExecutionDone.                                                          *)
(*                                                                         *)
(*   jobs  : Names -> job record.  A name that is not stored holds the     *)
(*           zero job, as an unmarshalled empty protobuf does in the code. *)
(*   execs : the set of stored executions.  The key of an execution, its   *)
(*           StartedAt time followed by the node name, is abstracted to    *)
(*           the rank `started' of that time: keys are distinct.           *)
(*                                                                         *)
(* DependentJobs is a list in the code; only how often a name occurs in it *)
(* matters here, so it is a function Names -> Nat.                         *)
(***************************************************************************)
EXTENDS Naturals, FiniteSets

CONSTANTS
  Names,          \* job names (non-empty strings)
  Schedules,      \* cron expressions that parse
  HasPrefix,      \* HasPrefix[n]: the names that have n as a prefix, n included
  MaxExecutions   \* executions kept per job (100 in the code)

NoName == ""      \* empty ParentJob
NoSchedule == ""  \* empty Schedule, allowed for child jobs only

ASSUME StoreAssumption ==
  /\ NoName \notin Names
  /\ NoSchedule \notin Schedules
  /\ HasPrefix \in [Names -> SUBSET Names]
  /\ \A n \in Names : n \in HasPrefix[n]
  /\ MaxExecutions \in Nat \ {0}

Status == {"", "success", "failed", "partially_failed"}

\* The fields of a job the store reads or rewrites.  Times are naturals; 0 is
\* a NullableTime without value, and the zero Next.
Job == [stored       : BOOLEAN,
        parent       : Names \cup {NoName},
        deps         : [Names -> Nat],
        schedule     : Schedules \cup {NoSchedule},
        next         : Nat,
        disabled     : BOOLEAN,
        status       : Status,
        successCount : Nat,
        errorCount   : Nat,
        lastSuccess  : Nat,
        lastError    : Nat]

NoDeps == [c \in Names |-> 0]

ZeroJob == [stored |-> FALSE, parent |-> NoName, deps |-> NoDeps,
            schedule |-> NoSchedule, next |-> 0, disabled |-> FALSE,
            status |-> "", successCount |-> 0, errorCount |-> 0,
            lastSuccess |-> 0, lastError |-> 0]

\* finished = 0 stands for a missing FinishedAt; it is in seconds, the unit
\* setExecutionTxFunc compares.
Execution == [job : Names, started : Nat, group : Nat,
              finished : Nat, success : BOOLEAN]

\* Mutant of Larger: what is sent wins over what is stored.
Sent(a, b) == b

\* The later of two times, the larger of two counts.
Larger(a, b) == IF a > b THEN a ELSE b

-----------------------------------------------------------------------------
(* SetJob *)

\* job.go Validate: the checks that depend on state modelled here.
Validate(n, job) ==
  /\ job.parent # n
  /\ job.schedule # NoSchedule \/ job.parent # NoName

\* The parent a job names is in the store, or it names none.
ParentFound(jobs, job) == job.parent = NoName \/ jobs[job.parent].stored

\* Mutant of KeepStatus: the status that is sent wins.
SentStatus(stored, sent) == sent

KeepStatus(stored, sent) == IF stored # "" THEN stored ELSE sent

\* What SetJob's transaction writes for `job' over the stored `ej'; `tick' is
\* the next firing of the schedule counted from time.Now().
Merge(job, ej, copyDependentJobs, tick) ==
  [stored       |-> TRUE,
   parent       |-> job.parent,
   deps         |-> IF copyDependentJobs /\ ej.deps # NoDeps THEN ej.deps ELSE job.deps,
   schedule     |-> job.schedule,
   next         |-> IF job.schedule = ej.schedule THEN Larger(ej.next, job.next)
                    ELSE IF job.schedule = NoSchedule THEN 0 ELSE tick,
   disabled     |-> job.disabled,
   status       |-> KeepStatus(ej.status, job.status),
   successCount |-> Larger(ej.successCount, job.successCount),
   errorCount   |-> Larger(ej.errorCount, job.errorCount),
   lastSuccess  |-> Larger(ej.lastSuccess, job.lastSuccess),
   lastError    |-> Larger(ej.lastError, job.lastError)]

\* SetJob of a stored parent whose dependents changed: its own parent must
\* still be found; its parent does not change, so SetJob does not recurse.
SaveParent(jobs, p, deps) ==
  IF ParentFound(jobs, jobs[p])
    THEN [jobs |-> [jobs EXCEPT ![p] =
                      Merge([jobs[p] EXCEPT !.deps = deps], jobs[p], FALSE, 0)],
          err |-> "none"]
    ELSE [jobs |-> jobs, err |-> "ErrParentJobNotFound"]

\* removeFromParent drops every occurrence of the child.
RemoveFromParent(jobs, n, p) ==
  IF p = NoName THEN [jobs |-> jobs, err |-> "none"]
  ELSE IF ~jobs[p].stored THEN [jobs |-> jobs, err |-> "ErrParentJobNotFound"]
  ELSE SaveParent(jobs, p, [jobs[p].deps EXCEPT ![n] = 0])

\* addToParent appends one occurrence of the child.
AddToParent(jobs, n, p) ==
  IF p = NoName THEN [jobs |-> jobs, err |-> "none"]
  ELSE IF ~jobs[p].stored THEN [jobs |-> jobs, err |-> "ErrParentJobNotFound"]
  ELSE SaveParent(jobs, p, [jobs[p].deps EXCEPT ![n] = @ + 1])

\* Mutant of MoveChild: the old parent is forgotten.
AddChildOnly(jobs, n, old, new) ==
  IF old = new THEN [jobs |-> jobs, err |-> "none"] ELSE AddToParent(jobs, n, new)

\* Mutant of MoveChild: the child is added to a parent that has not changed.
AddAgain(jobs, n, old, new) ==
  LET removed == IF old = new THEN [jobs |-> jobs, err |-> "none"]
                              ELSE RemoveFromParent(jobs, n, old)
  IN IF removed.err # "none" THEN removed ELSE AddToParent(removed.jobs, n, new)

\* After the job is committed, a changed parent is first taken off the old
\* parent and then put on the new one; an error leaves the rest undone.
MoveChild(jobs, n, old, new) ==
  LET removed == RemoveFromParent(jobs, n, old)
  IN IF old = new THEN [jobs |-> jobs, err |-> "none"]
     ELSE IF removed.err # "none" THEN removed
     ELSE AddToParent(removed.jobs, n, new)

SetJob(jobs, n, job, copyDependentJobs, tick) ==
  IF ~Validate(n, job) THEN [jobs |-> jobs, err |-> "invalid"]
  ELSE IF ~ParentFound(jobs, job)
    THEN [jobs |-> jobs, err |-> "ErrParentJobNotFound"]
  ELSE MoveChild([jobs EXCEPT ![n] = Merge(job, @, copyDependentJobs, tick)],
                 n, jobs[n].parent, job.parent)

-----------------------------------------------------------------------------
(* DeleteJob *)

\* deleteExecutionsTxFunc: the key prefix is "executions:<job>", with no
\* separator after the name, so it matches every job the name is a prefix of.
DeleteExecutions(execs, n) == {e \in execs : e.job \notin HasPrefix[n]}

\* Mutant of DeleteJob: the dependents are not looked at.
DeleteAnyJob(jobs, n) ==
  IF ~jobs[n].stored THEN [jobs |-> jobs, err |-> "ErrNotFound"]
  ELSE RemoveFromParent([jobs EXCEPT ![n] = ZeroJob], n, jobs[n].parent)

DeleteJob(jobs, n) ==
  IF ~jobs[n].stored THEN [jobs |-> jobs, err |-> "ErrNotFound"]
  ELSE IF jobs[n].deps # NoDeps THEN [jobs |-> jobs, err |-> "ErrDependentJobs"]
  ELSE RemoveFromParent([jobs EXCEPT ![n] = ZeroJob], n, jobs[n].parent)

\* The transaction commits, the executions of the job included, before
\* removeFromParent may fail.
DeleteCommits(jobs, n) == jobs[n].stored /\ jobs[n].deps = NoDeps

-----------------------------------------------------------------------------
(* Executions *)

SameKey(e, f) == e.job = f.job /\ e.started = f.started

OfJob(execs, n) == {e \in execs : e.job = n}

\* Mutant of PutExecution: the last report wins.
PutAlways(execs, e) == {f \in execs : ~SameKey(e, f)} \cup {e}

\* setExecutionTxFunc: ignored if the stored one finished later.
PutExecution(execs, e) ==
  IF \E f \in execs : SameKey(e, f) /\ f.finished > e.finished
    THEN execs
    ELSE {f \in execs : ~SameKey(e, f)} \cup {e}

\* Mutant of Overflow: the sort runs the other way.
OverflowNewest(execs, n) ==
  {e \in OfJob(execs, n) :
     Cardinality({f \in OfJob(execs, n) : f.started < e.started})
       >= MaxExecutions}

\* The executions of job n that are over the limit, starting from the oldest.
Overflow(execs, n) ==
  {e \in OfJob(execs, n) :
     Cardinality({f \in OfJob(execs, n) : f.started > e.started})
       >= MaxExecutions}

SetExecution(execs, e) ==
  LET put == PutExecution(execs, e) IN put \ Overflow(put, e.job)

\* computeStatus: an execution that has not finished counts as failed.
ComputeStatus(execs, n, group) ==
  LET inGroup == {e \in OfJob(execs, n) : e.group = group}
  IN IF \A e \in inGroup : e.success THEN "success"
     ELSE IF \A e \in inGroup : ~e.success THEN "failed"
     ELSE "partially_failed"

\* SetExecutionDone on the job: counters, times and status.
CountDone(job, e, status) ==
  IF e.success
    THEN [job EXCEPT !.successCount = @ + 1, !.lastSuccess = e.finished, !.status = status]
    ELSE [job EXCEPT !.errorCount = @ + 1, !.lastError = e.finished, !.status = status]

=============================================================================
