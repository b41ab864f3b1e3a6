------------------------------ MODULE JobStore ------------------------------
(***************************************************************************)
(* The replicated job store under its writers.  The log applies one        *)
(* command at a time (dkron/fsm.go), so an Apply is one action; what       *)
(* interleaves are the writers.  Two of them write back a copy of the job  *)
(* they read some steps earlier: Agent.Run stores the next firing time     *)
(* before it dispatches (dkron/run.go), and the toggle handler flips       *)
(* Disabled (dkron/api.go).  Clients send whole jobs.  Agents report       *)
(* executions, in any order and possibly more than once.                   *)
(***************************************************************************)
EXTENDS StoreOps

CONSTANTS
  Writers,     \* handlers that read a job and later write their copy back
  Ticks,       \* values of Next
  BodyDeps,    \* DependentJobs a client may send in a job
  Execs,       \* executions the cluster has dispatched, as first reported
  MaxTime,     \* bound on FinishedAt
  MaxCount,    \* bound on completions counted per job
  MaxListed    \* bound on how often a parent lists the same child

ASSUME JobStoreAssumption ==
  /\ Ticks \subseteq Nat
  /\ BodyDeps \subseteq [Names -> Nat]
  /\ Execs \subseteq Execution
  /\ \A e \in Execs : e.finished = 0 /\ ~e.success
  /\ MaxTime \in Nat
  /\ MaxCount \in Nat
  /\ MaxListed \in Nat

VARIABLES
  jobs,       \* the jobs table
  execs,      \* the executions table
  held,       \* per writer: the copy it is about to write back
  response    \* what the last applied command returned

vars == <<jobs, execs, held, response>>

Idle == [kind |-> "idle", name |-> NoName, job |-> ZeroJob]

Held == {Idle} \cup [kind : {"run", "toggle"}, name : Names, job : Job]

Responses == {"none", "invalid", "ErrParentJobNotFound", "ErrNotFound",
              "ErrDependentJobs", "ErrExecutionDoneForDeletedJob"}

\* The tables and the copies in flight are well formed.
TypeOK ==
  /\ jobs \in [Names -> Job]
  /\ execs \subseteq Execution
  /\ held \in [Writers -> Held]
  /\ response \in Responses

Init ==
  /\ jobs = [n \in Names |-> ZeroJob]
  /\ execs = {}
  /\ held = [w \in Writers |-> Idle]
  /\ response = "none"

-----------------------------------------------------------------------------

\* applySetJob: SetJob never copies the stored dependents here.
ApplySetJob(n, job, tick) ==
  LET result == SetJob(jobs, n, job, FALSE, tick)
  IN /\ \A p, c \in Names : result.jobs[p].deps[c] <= MaxListed
     /\ jobs' = result.jobs
     /\ response' = result.err
     /\ UNCHANGED execs

\* A job as a client sends it: no counters, no status.
Body(parent, schedule, deps) ==
  [ZeroJob EXCEPT !.parent = parent, !.schedule = schedule, !.deps = deps]

\* jobCreateOrUpdateHandler and restoreHandler: the body as it was sent.  The
\* restore handler does not validate it, the store does.
ClientSetJob(n, parent, schedule, deps, tick) ==
  /\ ApplySetJob(n, Body(parent, schedule, deps), tick)
  /\ UNCHANGED held

\* A Run of a root job or a toggle reads the job it will write back.
ReadJob(w, n, kind) ==
  /\ held[w] = Idle
  /\ jobs[n].stored
  /\ kind = "run" => jobs[n].parent = NoName
  /\ held' = [held EXCEPT ![w] = [kind |-> kind, name |-> n, job |-> jobs[n]]]
  /\ UNCHANGED <<jobs, execs, response>>

\* The copy as the writer changed it: Run sets Next to the scheduler entry's,
\* the toggle handler flips Disabled.
Changed(h, tick) ==
  IF h.kind = "run" THEN [h.job EXCEPT !.next = tick]
                    ELSE [h.job EXCEPT !.disabled = ~@]

WriteBack(w, tick) ==
  /\ held[w] # Idle
  /\ ApplySetJob(held[w].name, Changed(held[w], tick), tick)
  /\ held' = [held EXCEPT ![w] = Idle]

\* applyDeleteJob
ApplyDeleteJob(n) ==
  LET result == DeleteJob(jobs, n)
  IN /\ jobs' = result.jobs
     /\ execs' = IF DeleteCommits(jobs, n) THEN DeleteExecutions(execs, n)
                                           ELSE execs
     /\ response' = result.err
     /\ UNCHANGED held

\* applySetExecution: the first report of an execution that started.
ApplySetExecution(e) ==
  /\ execs' = SetExecution(execs, e)
  /\ response' = "none"
  /\ UNCHANGED <<jobs, held>>

\* applyExecutionDone: the report that an execution finished.
ApplyExecutionDone(e, finished, success) ==
  LET done == [e EXCEPT !.finished = finished, !.success = success]
      put == PutExecution(execs, done)
  IN /\ jobs[e.job].successCount + jobs[e.job].errorCount < MaxCount
     /\ UNCHANGED held
     /\ IF jobs[e.job].stored
          THEN /\ execs' = put
               /\ jobs' = [jobs EXCEPT ![e.job] =
                             CountDone(@, done, ComputeStatus(put, e.job, e.group))]
               /\ response' = "none"
          ELSE /\ UNCHANGED <<jobs, execs>>
               /\ response' = "ErrExecutionDoneForDeletedJob"

ApplyExecution ==
  \E e \in Execs :
    \/ ApplySetExecution(e)
    \/ \E t \in 1..MaxTime, success \in BOOLEAN : ApplyExecutionDone(e, t, success)

Next ==
  \/ \E n \in Names, tick \in Ticks, deps \in BodyDeps,
        parent \in Names \cup {NoName}, schedule \in Schedules \cup {NoSchedule} :
          ClientSetJob(n, parent, schedule, deps, tick)
  \/ \E w \in Writers, n \in Names, kind \in {"run", "toggle"} : ReadJob(w, n, kind)
  \/ \E w \in Writers, tick \in Ticks : WriteBack(w, tick)
  \/ \E n \in Names : ApplyDeleteJob(n)
  \/ ApplyExecution

Spec == Init /\ [][Next]_vars

-----------------------------------------------------------------------------
(* Writers that never act on an old copy: a job is created once, without   *)
(* dependents, and every later edit starts from what is stored now.        *)

CreateJob(n, parent, schedule, tick) ==
  ~jobs[n].stored /\ ClientSetJob(n, parent, schedule, NoDeps, tick)

Edited(job, parent, schedule, disabled) ==
  [job EXCEPT !.parent = parent, !.schedule = schedule, !.disabled = disabled]

\* An edit of the stored job.  For a run or a toggle it is ReadJob followed
\* at once by WriteBack; for a client, a GET followed at once by a POST.
EditJob(n, parent, schedule, disabled, tick) ==
  LET edited == Edited(jobs[n], parent, schedule, disabled)
  IN /\ jobs[n].stored
     /\ ApplySetJob(n, edited, tick)
     /\ UNCHANGED held

CoherentNext ==
  \/ \E n \in Names, tick \in Ticks, parent \in Names \cup {NoName},
        schedule \in Schedules \cup {NoSchedule} :
          \/ CreateJob(n, parent, schedule, tick)
          \/ \E disabled \in BOOLEAN : EditJob(n, parent, schedule, disabled, tick)
  \/ \E n \in Names : ApplyDeleteJob(n)
  \/ ApplyExecution

CoherentSpec == Init /\ [][CoherentNext]_vars

-----------------------------------------------------------------------------
(* Properties of every writer. *)

\* No write-back of an old copy, and no client update, ever loses a counted
\* completion: while a job stays stored its SuccessCount and ErrorCount never
\* decrease (SetJob keeps the larger count, store.go:121-126).
CountersNeverDecrease ==
  [][\A n \in Names : jobs[n].stored /\ jobs'[n].stored =>
       /\ jobs'[n].successCount >= jobs[n].successCount
       /\ jobs'[n].errorCount >= jobs[n].errorCount]_vars

\* A report that arrives late never takes a finished execution back to
\* running or to an earlier end: as long as its key is stored, FinishedAt
\* only grows (setExecutionTxFunc, store.go:480-491).
FinishedNeverReverts ==
  [][\A e \in execs, f \in execs' : SameKey(e, f) => f.finished >= e.finished]_vars

\* Once a job has a status, only a completion changes it, and the same step
\* counts that completion: a stale copy written back, or a client's update,
\* never restores an older status (store.go:130-132).
StatusOnlyFromCompletion ==
  [][\A n \in Names :
       (jobs[n].status # "" /\ jobs'[n].stored /\ jobs'[n].status # jobs[n].status)
         => jobs'[n].successCount + jobs'[n].errorCount
              = jobs[n].successCount + jobs[n].errorCount + 1]_vars

\* Executions are evicted oldest first and only over the limit: when one
\* disappears and its job was not deleted, MaxExecutions newer ones remain
\* (SetExecution's trimming, store.go:531-554).
EvictsOldestOverLimit ==
  [][\A e \in execs :
       (~\E f \in execs' : SameKey(e, f)) /\ (\A n \in Names : jobs'[n].stored = jobs[n].stored)
         => Cardinality({f \in OfJob(execs', e.job) : f.started > e.started})
              >= MaxExecutions]_vars

-----------------------------------------------------------------------------
(* Properties of writers that never act on an old copy (CoherentSpec). *)

\* ParentJob and DependentJobs mirror each other: a job is listed exactly once
\* by the parent it names and by no other job, and a parent that is named is
\* stored.  This is what lets a finished parent find its children
\* (grpc.go:238-248) and DeleteJob refuse to orphan them (store.go:351-356).
LinksConsistent ==
  /\ \A p, c \in Names : jobs[p].deps[c] = IF jobs[c].parent = p THEN 1 ELSE 0
  /\ \A c \in Names : jobs[c].parent # NoName => jobs[jobs[c].parent].stored

\* A command that returns an error changes nothing: none of the updates of the
\* parents that follow the transaction of SetJob or DeleteJob can fail
\* (store.go:155-163, 370-375).
ErrorsChangeNothing ==
  [][response' # "none" => UNCHANGED <<jobs, execs>>]_vars

-----------------------------------------------------------------------------
(* What a comment of the code says, and does not hold. *)

\* store.go:559: "DeleteExecutions removes all executions of a job": of that
\* job, so a job that stays stored keeps its executions across a deletion.
DeletesOwnExecutionsOnly ==
  [][\A n \in Names : jobs[n].stored /\ ~jobs'[n].stored =>
       \A e \in execs : e.job # n => e \in execs']_vars

=============================================================================
