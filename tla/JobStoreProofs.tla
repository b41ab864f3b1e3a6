--------------------------- MODULE JobStoreProofs ---------------------------
(***************************************************************************)
(* Machine-checked proofs about JobStore, for every set of names, writers, *)
(* executions and every value of the bounds.                               *)
(***************************************************************************)
EXTENDS JobStore, StoreOpsProofs, FiniteSetTheorems

\* Zenon checks every step that does not name SMT.
USE Zenon

-----------------------------------------------------------------------------
(* The commands. *)

\* What a writer changes in its copy leaves a job, with the same counters.
LEMMA ChangedType ==
  ASSUME NEW h \in [kind : {"run", "toggle"}, name : Names, job : Job], NEW tick \in Nat
  PROVE  Changed(h, tick) \in Job
  <1> DEFINE d == ~h.job.disabled
  <1>1. h.job \in Job /\ d \in BOOLEAN
    BY DEF Job
  <1>2. Changed(h, tick) = IF h.kind = "run" THEN [h.job EXCEPT !.next = tick]
                                             ELSE [h.job EXCEPT !.disabled = d]
    BY DEF Changed
  <1> HIDE DEF d
  <1>3. [h.job EXCEPT !.next = tick] \in Job /\ [h.job EXCEPT !.disabled = d] \in Job
    BY <1>1 DEF Job
  <1> QED
    BY <1>2, <1>3

\* A client's body is a job.
LEMMA BodyType ==
  ASSUME NEW parent \in Names \cup {NoName}, NEW schedule \in Schedules \cup {NoSchedule},
         NEW deps \in [Names -> Nat]
  PROVE  Body(parent, schedule, deps) \in Job
  BY ZeroJobType DEF Body, Job

-----------------------------------------------------------------------------
(* What one step of any writer does to one job. *)

\* While the job stays stored no count shrinks, and a status it already has
\* changes only together with the count of one completion.
JobStep(f, g) ==
  /\ g.stored => g.successCount >= f.successCount /\ g.errorCount >= f.errorCount
  /\ f.status # "" /\ g.stored /\ g.status # f.status
       => g.successCount + g.errorCount = f.successCount + f.errorCount + 1

\* SetJob steps every job so.
LEMMA ApplySetJobStep ==
  ASSUME TypeOK, NEW n \in Names, NEW job \in Job, NEW tick \in Nat,
         ApplySetJob(n, job, tick)
  PROVE  /\ jobs' \in Tables
         /\ response' \in Responses
         /\ execs' = execs
         /\ \A m \in Names : JobStep(jobs[m], jobs'[m])
  <1> DEFINE result == SetJob(jobs, n, job, FALSE, tick)
             saved == Merge(job, jobs[n], FALSE, tick)
  <1>1. jobs \in Tables /\ jobs[n] \in Job
    BY DEF TypeOK, Tables
  <1>2. jobs' = result.jobs /\ response' = result.err /\ execs' = execs
    BY DEF ApplySetJob
  <1>3. /\ result.jobs \in Tables
        /\ result.err \in Responses
        /\ \A m \in Names \ {n} : SameButDeps(jobs[m], result.jobs[m])
        /\ SameButDeps(jobs[n], result.jobs[n]) \/ SameButDeps(saved, result.jobs[n])
    <2>1. SetResponses \subseteq Responses
      BY DEF SetResponses, ParentResponses, Responses
    <2> QED
      BY <1>1, <2>1, SetJobFrame
  <1>4. JobStep(jobs[n], saved)
    <2>1. /\ saved.stored = TRUE
          /\ saved.successCount = Larger(jobs[n].successCount, job.successCount)
          /\ saved.errorCount = Larger(jobs[n].errorCount, job.errorCount)
          /\ jobs[n].status # "" => saved.status = jobs[n].status
      BY DEF Merge, KeepStatus
    <2>2. /\ jobs[n].successCount \in Nat /\ job.successCount \in Nat
          /\ jobs[n].errorCount \in Nat /\ job.errorCount \in Nat
      BY <1>1 DEF Job
    <2>3. Larger(jobs[n].successCount, job.successCount) >= jobs[n].successCount
      BY SMT, <2>2 DEF Larger
    <2>4. Larger(jobs[n].errorCount, job.errorCount) >= jobs[n].errorCount
      BY SMT, <2>2 DEF Larger
    <2> HIDE DEF saved
    <2> QED
      BY <2>1, <2>3, <2>4 DEF JobStep
  <1> HIDE DEF result, saved
  <1>5. ASSUME NEW m \in Names
        PROVE  JobStep(jobs[m], jobs'[m])
    <2>1. jobs[m] \in Job
      BY DEF TypeOK
    <2>2. CASE SameButDeps(jobs[m], jobs'[m])
      BY SMT, <2>1, <2>2 DEF SameButDeps, JobStep, Job
    <2>3. CASE m = n /\ SameButDeps(saved, jobs'[m])
      BY <1>4, <2>3 DEF SameButDeps, JobStep
    <2> QED
      BY <1>2, <1>3, <2>2, <2>3
  <1> QED
    BY <1>2, <1>3, <1>5

\* DeleteJob steps every job so.
LEMMA ApplyDeleteJobStep ==
  ASSUME TypeOK, NEW n \in Names, ApplyDeleteJob(n)
  PROVE  /\ jobs' \in Tables
         /\ response' \in Responses
         /\ execs' \subseteq execs
         /\ held' = held
         /\ \A m \in Names : JobStep(jobs[m], jobs'[m])
  <1> DEFINE result == DeleteJob(jobs, n)
  <1>1. jobs \in Tables
    BY DEF TypeOK, Tables
  <1>2. /\ jobs' = result.jobs
        /\ response' = result.err
        /\ execs' \subseteq execs
        /\ held' = held
    BY DEF ApplyDeleteJob, DeleteExecutions
  <1>3. /\ result.jobs \in Tables
        /\ result.err \in Responses
        /\ \A m \in Names \ {n} : SameButDeps(jobs[m], result.jobs[m])
        /\ SameButDeps(jobs[n], result.jobs[n]) \/ SameButDeps(ZeroJob, result.jobs[n])
    <2>1. DeleteResponses \subseteq Responses
      BY DEF DeleteResponses, ParentResponses, Responses
    <2> QED
      BY <1>1, <2>1, DeleteJobFrame
  <1> HIDE DEF result
  <1>4. ASSUME NEW m \in Names
        PROVE  JobStep(jobs[m], jobs'[m])
    <2>1. jobs[m] \in Job
      BY DEF TypeOK
    <2>2. CASE SameButDeps(jobs[m], jobs'[m])
      BY SMT, <2>1, <2>2 DEF SameButDeps, JobStep, Job
    <2>3. CASE SameButDeps(ZeroJob, jobs'[m])
      BY <2>3 DEF SameButDeps, JobStep, ZeroJob
    <2> QED
      BY <1>2, <1>3, <2>2, <2>3
  <1> QED
    BY <1>2, <1>3, <1>4

\* ExecutionDone steps every job so.
LEMMA ApplyExecutionDoneStep ==
  ASSUME TypeOK, NEW e \in Execs, NEW t \in Nat, NEW success \in BOOLEAN,
         ApplyExecutionDone(e, t, success)
  PROVE  /\ jobs' \in Tables
         /\ response' \in Responses
         /\ execs' \subseteq Execution
         /\ held' = held
         /\ \A m \in Names : JobStep(jobs[m], jobs'[m])
  <1> DEFINE done == [e EXCEPT !.finished = t, !.success = success]
             put == PutExecution(execs, done)
             st == ComputeStatus(put, e.job, e.group)
             counted == CountDone(jobs[e.job], done, st)
  <1>1. e.job \in Names /\ done \in Execution
    BY JobStoreAssumption DEF Execution
  <1>2. put \in SUBSET Execution
    BY <1>1, PutExecutionType DEF TypeOK
  <1>3. st \in Status
    BY ComputeStatusType
  <1>4. jobs[e.job] \in Job
    BY <1>1 DEF TypeOK
  <1>5. counted \in Job /\ JobStep(jobs[e.job], counted)
    BY <1>1, <1>3, <1>4, CountDoneType, CountDoneEffect DEF JobStep
  <1>6. held' = held
    BY DEF ApplyExecutionDone
  <1>7. \/ jobs' = jobs /\ execs' = execs /\ response' = "ErrExecutionDoneForDeletedJob"
        \/ jobs' = [jobs EXCEPT ![e.job] = counted] /\ execs' = put /\ response' = "none"
    BY DEF ApplyExecutionDone
  <1> HIDE DEF done, put, st, counted
  <1>8. \A m \in Names : JobStep(jobs[m], jobs[m])
    BY SMT DEF JobStep, TypeOK, Job
  <1> QED
    BY <1>1, <1>2, <1>5, <1>6, <1>7, <1>8 DEF TypeOK, Tables, Responses

\* Every step keeps the tables well formed and steps every job so.
LEMMA StepEffect ==
  ASSUME TypeOK, [Next]_vars
  PROVE  TypeOK' /\ \A m \in Names : JobStep(jobs[m], jobs'[m])
  <1> DEFINE Stepped == \A m \in Names : JobStep(jobs[m], jobs'[m])
  <1>a. ASSUME jobs' = jobs PROVE Stepped
    <2>1. \A m \in Names : JobStep(jobs[m], jobs[m])
      BY SMT DEF JobStep, TypeOK, Job
    <2> QED
      BY <1>a, <2>1
  <1> HIDE DEF Stepped
  <1>1. ASSUME NEW n \in Names, NEW tick \in Ticks, NEW deps \in BodyDeps,
               NEW parent \in Names \cup {NoName},
               NEW schedule \in Schedules \cup {NoSchedule},
               ClientSetJob(n, parent, schedule, deps, tick)
        PROVE  TypeOK' /\ Stepped
    <2>1. Body(parent, schedule, deps) \in Job /\ tick \in Nat
      BY BodyType, JobStoreAssumption
    <2>2. ApplySetJob(n, Body(parent, schedule, deps), tick) /\ held' = held
      BY <1>1 DEF ClientSetJob
    <2> QED
      BY <2>1, <2>2, ApplySetJobStep DEF TypeOK, Tables, Stepped
  <1>2. ASSUME NEW w \in Writers, NEW n \in Names, NEW kind \in {"run", "toggle"},
               ReadJob(w, n, kind)
        PROVE  TypeOK' /\ Stepped
    BY <1>2, <1>a DEF ReadJob, TypeOK, Held
  <1>3. ASSUME NEW w \in Writers, NEW tick \in Ticks, WriteBack(w, tick)
        PROVE  TypeOK' /\ Stepped
    <2>1. held[w] \in [kind : {"run", "toggle"}, name : Names, job : Job] /\ tick \in Nat
      BY <1>3, JobStoreAssumption DEF WriteBack, TypeOK, Held
    <2>2. Changed(held[w], tick) \in Job /\ held[w].name \in Names
      BY <2>1, ChangedType
    <2>3. held' \in [Writers -> Held]
      BY <1>3 DEF WriteBack, TypeOK, Held
    <2> QED
      BY <1>3, <2>1, <2>2, <2>3, ApplySetJobStep DEF WriteBack, TypeOK, Tables, Stepped
  <1>4. ASSUME NEW n \in Names, ApplyDeleteJob(n)
        PROVE  TypeOK' /\ Stepped
    BY <1>4, ApplyDeleteJobStep DEF TypeOK, Tables, Stepped
  <1>5. ASSUME NEW e \in Execs, ApplySetExecution(e)
        PROVE  TypeOK' /\ Stepped
    <2>1. e \in Execution
      BY JobStoreAssumption
    <2>2. execs' \subseteq Execution
      BY <1>5, <2>1, PutExecutionType DEF ApplySetExecution, SetExecution, TypeOK
    <2> QED
      BY <1>5, <1>a, <2>2 DEF ApplySetExecution, TypeOK, Responses
  <1>6. ASSUME NEW e \in Execs, NEW t \in 1..MaxTime, NEW success \in BOOLEAN,
               ApplyExecutionDone(e, t, success)
        PROVE  TypeOK' /\ Stepped
    <2>1. t \in Nat
      BY SMT, JobStoreAssumption
    <2> QED
      BY <1>6, <2>1, ApplyExecutionDoneStep DEF TypeOK, Tables, Stepped
  <1>7. ASSUME UNCHANGED vars
        PROVE  TypeOK' /\ Stepped
    BY <1>7, <1>a DEF vars, TypeOK
  <1>8. TypeOK' /\ Stepped
    BY <1>1, <1>2, <1>3, <1>4, <1>5, <1>6, <1>7 DEF Next, ApplyExecution
  <1> QED
    BY <1>8 DEF Stepped

-----------------------------------------------------------------------------
(* The theorems about every writer. *)

\* The tables stay well formed whatever the writers send: SetJob, DeleteJob,
\* SetExecution and ExecutionDone keep jobs jobs (TypeOK).
THEOREM TypeCorrect == Spec => []TypeOK
  <1>1. Init => TypeOK
    BY ZeroJobType DEF Init, TypeOK, Held, Responses
  <1>2. TypeOK /\ [Next]_vars => TypeOK'
    BY StepEffect
  <1> QED
    BY <1>1, <1>2, PTL DEF Spec

\* No interleaving of write-backs, client updates and completions loses a
\* counted completion (SetJob keeps the larger count).
THEOREM CountersSafe == Spec => CountersNeverDecrease
  <1>1. TypeOK /\ [Next]_vars =>
          [\A n \in Names : jobs[n].stored /\ jobs'[n].stored =>
             /\ jobs'[n].successCount >= jobs[n].successCount
             /\ jobs'[n].errorCount >= jobs[n].errorCount]_vars
    BY StepEffect DEF JobStep
  <1> QED
    BY <1>1, TypeCorrect, PTL DEF Spec, CountersNeverDecrease

\* A status changes only with the count of one completion: SetJob keeps the
\* stored status over the one in the copy it is given.
THEOREM StatusSafe == Spec => StatusOnlyFromCompletion
  <1>1. TypeOK /\ [Next]_vars =>
          [\A n \in Names :
             (jobs[n].status # "" /\ jobs'[n].stored /\ jobs'[n].status # jobs[n].status)
               => jobs'[n].successCount + jobs'[n].errorCount
                    = jobs[n].successCount + jobs[n].errorCount + 1]_vars
    BY StepEffect DEF JobStep
  <1> QED
    BY <1>1, TypeCorrect, PTL DEF Spec, StatusOnlyFromCompletion

-----------------------------------------------------------------------------
(* Executions: keys stay unique, so a stored FinishedAt can be followed. *)

UniqueKeys(ex) == \A e, f \in ex : SameKey(e, f) => e = f

\* No execution of `ex' reverts in `after'.
NoRevert(ex, after) ==
  \A e \in ex, f \in after : SameKey(e, f) => f.finished >= e.finished

\* setExecutionTxFunc keeps keys unique and reverts nothing.
LEMMA PutExecutionKeeps ==
  ASSUME NEW ex \in SUBSET Execution, NEW e \in Execution, UniqueKeys(ex)
  PROVE  UniqueKeys(PutExecution(ex, e)) /\ NoRevert(ex, PutExecution(ex, e))
  <1>1. NoRevert(ex, ex)
    BY SMT DEF NoRevert, UniqueKeys, Execution
  <1>2. CASE \E f \in ex : SameKey(e, f) /\ f.finished > e.finished
    BY <1>1, <1>2 DEF PutExecution
  <1>3. CASE ~\E f \in ex : SameKey(e, f) /\ f.finished > e.finished
    <2>1. PutExecution(ex, e) = {f \in ex : ~SameKey(e, f)} \cup {e}
      BY <1>3 DEF PutExecution
    <2>2. UniqueKeys(PutExecution(ex, e))
      BY <2>1 DEF UniqueKeys, SameKey
    <2>3. ASSUME NEW f \in ex, NEW g \in PutExecution(ex, e), SameKey(f, g)
          PROVE  g.finished >= f.finished
      <3>1. CASE g = e
        BY SMT, <1>3, <2>3, <3>1 DEF SameKey, Execution
      <3>2. CASE g # e
        BY <1>1, <2>1, <2>3, <3>2 DEF NoRevert
      <3> QED
        BY <3>1, <3>2
    <2> QED
      BY <2>2, <2>3 DEF NoRevert
  <1> QED
    BY <1>2, <1>3

\* Fewer executions keep their keys unique and revert nothing.
LEMMA FewerKeeps ==
  ASSUME NEW ex, NEW mid, NEW after \in SUBSET mid, UniqueKeys(mid), NoRevert(ex, mid)
  PROVE  UniqueKeys(after) /\ NoRevert(ex, after)
  BY DEF UniqueKeys, NoRevert

\* Every step keeps the keys of the executions unique and reverts none.
LEMMA ExecutionsStep ==
  ASSUME TypeOK, UniqueKeys(execs), [Next]_vars
  PROVE  UniqueKeys(execs)' /\ NoRevert(execs, execs')
  <1>1. NoRevert(execs, execs)
    BY SMT DEF NoRevert, UniqueKeys, TypeOK, Execution
  <1>2. ASSUME NEW n \in Names, ApplyDeleteJob(n)
        PROVE  UniqueKeys(execs)' /\ NoRevert(execs, execs')
    <2>1. execs' \in SUBSET execs
      BY <1>2 DEF ApplyDeleteJob, DeleteExecutions
    <2> QED
      BY <1>1, <2>1, FewerKeeps
  <1>3. ASSUME NEW e \in Execs, ApplySetExecution(e)
        PROVE  UniqueKeys(execs)' /\ NoRevert(execs, execs')
    <2>1. execs' \in SUBSET PutExecution(execs, e)
      BY <1>3 DEF ApplySetExecution, SetExecution
    <2>2. UniqueKeys(PutExecution(execs, e)) /\ NoRevert(execs, PutExecution(execs, e))
      BY PutExecutionKeeps, JobStoreAssumption DEF TypeOK
    <2> QED
      BY <2>1, <2>2, FewerKeeps
  <1>4. ASSUME NEW e \in Execs, NEW t \in 1..MaxTime, NEW success \in BOOLEAN,
               ApplyExecutionDone(e, t, success)
        PROVE  UniqueKeys(execs)' /\ NoRevert(execs, execs')
    <2> DEFINE done == [e EXCEPT !.finished = t, !.success = success]
    <2>1. done \in Execution
      <3>1. e \in Execution /\ t \in Nat
        BY SMT, JobStoreAssumption
      <3> QED
        BY <3>1 DEF Execution
    <2>2. execs' = execs \/ execs' = PutExecution(execs, done)
      BY <1>4 DEF ApplyExecutionDone
    <2> HIDE DEF done
    <2> QED
      BY <1>1, <2>1, <2>2, PutExecutionKeeps DEF TypeOK
  <1>5. CASE execs' = execs
    BY <1>1, <1>5
  <1> QED
    BY <1>2, <1>3, <1>4, <1>5
       DEF Next, ApplyExecution, ClientSetJob, ReadJob, WriteBack, ApplySetJob, vars

\* A late or repeated report never takes a finished execution back.
THEOREM FinishedSafe == Spec => FinishedNeverReverts
  <1>1. Init => UniqueKeys(execs)
    BY DEF Init, UniqueKeys
  <1>2. TypeOK /\ UniqueKeys(execs) /\ [Next]_vars => UniqueKeys(execs)'
    BY ExecutionsStep
  <1>3. TypeOK /\ UniqueKeys(execs) /\ [Next]_vars =>
          [\A e \in execs, f \in execs' : SameKey(e, f) => f.finished >= e.finished]_vars
    BY ExecutionsStep DEF NoRevert
  <1> QED
    BY <1>1, <1>2, <1>3, TypeCorrect, PTL DEF Spec, FinishedNeverReverts

-----------------------------------------------------------------------------
(* Eviction: the oldest executions go, and only over the limit. *)

\* A set of naturals that is not empty has a least element.
LEMMA LeastNatural ==
  ASSUME NEW T \in SUBSET Nat, T # {}
  PROVE  \E m \in T : \A k \in T : m <= k
  <1> DEFINE R == OpToRel(<, Nat)
  <1>1. \A x, y \in Nat : <<y, x>> \in R <=> y < x
    BY DEF OpToRel
  <1>2. IsWellFoundedOn(R, Nat)
    BY NatLessThanWellFounded
  <1> HIDE DEF R
  <1>3. PICK x \in T : \A y \in T : ~(<<y, x>> \in R)
    BY <1>2, WFMin
  <1>4. \A y \in T : ~(y < x)
    BY <1>1, <1>3
  <1>5. \A y \in T : x <= y
    BY SMT, <1>4
  <1> QED
    BY <1>5

\* Of the executions that are newer than one over the limit, MaxExecutions are
\* not over the limit: those that are newer than the newest one over it.
LEMMA NewestStay ==
  ASSUME NEW ex \in SUBSET Execution, IsFiniteSet(ex), NEW n, NEW g \in Overflow(ex, n)
  PROVE  Cardinality({f \in OfJob(ex \ Overflow(ex, n), n) : f.started > g.started})
           >= MaxExecutions
  <1> DEFINE Newer(x) == {f \in OfJob(ex, n) : f.started > x.started}
             Kept == {f \in OfJob(ex \ Overflow(ex, n), n) : f.started > g.started}
             Over == {x \in Overflow(ex, n) : x.started >= g.started}
             Counts == {Cardinality(Newer(x)) : x \in Over}
  <1>1. \A x \in ex : x.started \in Nat
    BY DEF Execution
  <1>2. Overflow(ex, n) \subseteq ex /\ OfJob(ex, n) \subseteq ex
    BY DEF Overflow, OfJob
  <1>3. ASSUME NEW x PROVE IsFiniteSet(Newer(x)) /\ Cardinality(Newer(x)) \in Nat
    <2>1. Newer(x) \in SUBSET ex
      BY <1>2
    <2> HIDE DEF Newer
    <2> QED
      BY <2>1, FS_Subset, FS_CardinalityType
  <1>4. g \in Over
    BY SMT, <1>1, <1>2
  <1>5. PICK c \in Counts : \A k \in Counts : c <= k
    <2>1. Counts \in SUBSET Nat
      BY <1>3
    <2>2. Counts # {}
      BY <1>4
    <2> HIDE DEF Counts
    <2> QED
      BY <2>1, <2>2, LeastNatural
  <1>6. PICK x \in Over : c = Cardinality(Newer(x))
    BY <1>5
  <1>7. ASSUME NEW f \in Newer(x), f \in Overflow(ex, n) PROVE FALSE
    <2>1. f \in Over /\ f.started > x.started /\ x \in ex /\ f \in ex
      BY SMT, <1>1, <1>2, <1>7
    <2>2. Cardinality(Newer(x)) <= Cardinality(Newer(f))
      BY <1>5, <1>6, <2>1
    <2>3. Newer(f) \in SUBSET Newer(x) /\ f \notin Newer(f)
      BY SMT, <1>1, <1>2, <2>1
    <2>4. f \in Newer(x)
      BY <1>7
    <2>5. IsFiniteSet(Newer(x)) /\ Cardinality(Newer(x)) \in Nat /\ Cardinality(Newer(f)) \in Nat
      BY <1>3
    <2> HIDE DEF Newer
    <2>6. /\ Cardinality(Newer(f)) <= Cardinality(Newer(x))
          /\ Cardinality(Newer(x)) = Cardinality(Newer(f)) => Newer(x) = Newer(f)
      BY <2>3, <2>5, FS_Subset
    <2> QED
      BY SMT, <2>2, <2>3, <2>4, <2>5, <2>6
  <1>8. Newer(x) \in SUBSET Kept
    <2>1. \A f \in Newer(x) : f.started > g.started /\ f \in OfJob(ex, n)
      BY SMT, <1>1, <1>2
    <2> QED
      BY <1>7, <2>1 DEF OfJob
  <1>9. Kept \in SUBSET ex
    BY DEF OfJob
  <1>10. Cardinality(Newer(x)) >= MaxExecutions
    BY DEF Overflow
  <1>11. Cardinality(Newer(x)) <= Cardinality(Kept) /\ Cardinality(Kept) \in Nat
    <2> HIDE DEF Newer, Kept
    <2> QED
      BY <1>8, <1>9, FS_Subset, FS_CardinalityType
  <1> QED
    BY SMT, <1>3, <1>10, <1>11, StoreAssumption

\* Storing an execution keeps every key and a finite table.
LEMMA PutKeepsKeys ==
  ASSUME NEW ex \in SUBSET Execution, NEW e \in Execution, IsFiniteSet(ex)
  PROVE  /\ IsFiniteSet(PutExecution(ex, e))
         /\ \A f \in ex : \E g \in PutExecution(ex, e) : SameKey(f, g)
  <1>1. IsFiniteSet({f \in ex : ~SameKey(e, f)} \cup {e})
    BY FS_Subset, FS_AddElement
  <1>2. \A f \in ex : \E g \in {h \in ex : ~SameKey(e, h)} \cup {e} : SameKey(f, g)
    BY SMT DEF SameKey
  <1> QED
    BY <1>1, <1>2 DEF PutExecution, SameKey

\* A deletion that commits takes its job out of the store.
LEMMA DeletionRemoves ==
  ASSUME TypeOK, NEW n \in Names, ApplyDeleteJob(n), DeleteCommits(jobs, n)
  PROVE  jobs[n].stored /\ ~jobs'[n].stored
  <1> DEFINE wiped == [jobs EXCEPT ![n] = ZeroJob]
             result == RemoveFromParent(wiped, n, jobs[n].parent)
  <1>1. jobs[n].stored /\ jobs' = result.jobs
    BY DEF ApplyDeleteJob, DeleteCommits, DeleteJob
  <1>2. wiped \in Tables /\ wiped[n] = ZeroJob
    BY ZeroJobType DEF TypeOK, Tables
  <1>3. jobs[n].parent \in Names \cup {NoName}
    BY DEF TypeOK, Job
  <1> HIDE DEF wiped
  <1>4. SameButDeps(wiped[n], result.jobs[n])
    BY <1>2, <1>3, RemoveFromParentFrame
  <1>5. ~ZeroJob.stored
    BY DEF ZeroJob
  <1> HIDE DEF result
  <1> QED
    BY <1>1, <1>2, <1>4, <1>5 DEF SameButDeps

\* The execution e left the table for MaxExecutions newer ones.
Evicted(e) ==
  Cardinality({f \in OfJob(execs', e.job) : f.started > e.started}) >= MaxExecutions

\* Every step keeps the table finite, and what disappears from it without a
\* deletion was evicted.
LEMMA EvictionStep ==
  ASSUME TypeOK, IsFiniteSet(execs), [Next]_vars
  PROVE  /\ IsFiniteSet(execs')
         /\ \A e \in execs :
              (~\E f \in execs' : SameKey(e, f)) /\ (\A n \in Names : jobs'[n].stored = jobs[n].stored)
                => Evicted(e)
  <1> DEFINE Goal == /\ IsFiniteSet(execs')
                     /\ \A e \in execs :
                          (~\E f \in execs' : SameKey(e, f))
                            /\ (\A n \in Names : jobs'[n].stored = jobs[n].stored)
                              => Evicted(e)
  <1>1. ASSUME execs' = execs PROVE Goal
    BY <1>1 DEF SameKey
  <1>2. ASSUME NEW n \in Names, ApplyDeleteJob(n) PROVE Goal
    <2>1. CASE DeleteCommits(jobs, n)
      <3>1. execs' \in SUBSET execs
        BY <1>2 DEF ApplyDeleteJob, DeleteExecutions
      <3>2. IsFiniteSet(execs')
        BY <3>1, FS_Subset
      <3> QED
        BY <1>2, <2>1, <3>2, DeletionRemoves
    <2>2. CASE ~DeleteCommits(jobs, n)
      BY <1>1, <1>2, <2>2 DEF ApplyDeleteJob
    <2> QED
      BY <2>1, <2>2
  <1>3. ASSUME NEW x \in Execs, ApplySetExecution(x) PROVE Goal
    <2> DEFINE put == PutExecution(execs, x)
    <2>1. x \in Execution /\ execs \in SUBSET Execution
      BY JobStoreAssumption DEF TypeOK
    <2>2. /\ put \in SUBSET Execution /\ IsFiniteSet(put)
          /\ \A f \in execs : \E g \in put : SameKey(f, g)
      BY <2>1, PutExecutionType, PutKeepsKeys
    <2>3. execs' = put \ Overflow(put, x.job)
      BY <1>3 DEF ApplySetExecution, SetExecution
    <2> HIDE DEF put
    <2>4. IsFiniteSet(execs')
      BY <2>2, <2>3, FS_Subset
    <2>5. ASSUME NEW e \in execs, ~\E f \in execs' : SameKey(e, f) PROVE Evicted(e)
      <3>1. PICK g \in put : SameKey(e, g)
        BY <2>2
      <3>2. g \in Overflow(put, x.job)
        BY <2>3, <2>5, <3>1
      <3>3. g.job = x.job /\ e.job = x.job /\ e.started = g.started
        BY <3>1, <3>2 DEF Overflow, OfJob, SameKey
      <3>4. Cardinality({f \in OfJob(put \ Overflow(put, x.job), x.job) : f.started > g.started})
              >= MaxExecutions
        BY <2>2, <3>2, NewestStay
      <3> QED
        BY <2>3, <3>3, <3>4 DEF Evicted
    <2> QED
      BY <2>4, <2>5
  <1>4. ASSUME NEW x \in Execs, NEW t \in 1..MaxTime, NEW success \in BOOLEAN,
               ApplyExecutionDone(x, t, success)
        PROVE  Goal
    <2> DEFINE done == [x EXCEPT !.finished = t, !.success = success]
    <2>1. done \in Execution /\ execs \in SUBSET Execution
      <3>1. x \in Execution /\ t \in Nat
        BY SMT, JobStoreAssumption
      <3> QED
        BY <3>1 DEF Execution, TypeOK
    <2>2. execs' = execs \/ execs' = PutExecution(execs, done)
      BY <1>4 DEF ApplyExecutionDone
    <2> HIDE DEF done
    <2>3. CASE execs' = PutExecution(execs, done)
      BY <2>1, <2>3, PutKeepsKeys
    <2> QED
      BY <1>1, <2>2, <2>3
  <1>5. Goal
    BY <1>1, <1>2, <1>3, <1>4
       DEF Next, ApplyExecution, ClientSetJob, ReadJob, WriteBack, ApplySetJob, vars
  <1> QED
    BY <1>5

\* Executions are evicted oldest first and only over the limit: one that disappears without a
\* deletion leaves MaxExecutions newer ones of its job (store.go:531-554).
THEOREM EvictionSafe == Spec => EvictsOldestOverLimit
  <1>1. Init => IsFiniteSet(execs)
    BY FS_EmptySet DEF Init
  <1>2. TypeOK /\ IsFiniteSet(execs) /\ [Next]_vars => IsFiniteSet(execs)'
    BY EvictionStep
  <1>3. TypeOK /\ IsFiniteSet(execs) /\ [Next]_vars =>
          [\A e \in execs :
             (~\E f \in execs' : SameKey(e, f)) /\ (\A n \in Names : jobs'[n].stored = jobs[n].stored)
               => Cardinality({f \in OfJob(execs', e.job) : f.started > e.started})
                    >= MaxExecutions]_vars
    BY EvictionStep DEF Evicted
  <1> QED
    BY <1>1, <1>2, <1>3, TypeCorrect, PTL DEF Spec, EvictsOldestOverLimit

-----------------------------------------------------------------------------
(* ParentJob and DependentJobs, for writers that never act on an old copy: *)
(* Linked makes LinksConsistent inductive.                                 *)

\* An edit of a stored job is a job with the stored dependents.
LEMMA EditedType ==
  ASSUME NEW job \in Job, NEW parent \in Names \cup {NoName},
         NEW schedule \in Schedules \cup {NoSchedule}, NEW disabled \in BOOLEAN
  PROVE  LET edited == Edited(job, parent, schedule, disabled)
         IN edited \in Job /\ edited.deps = job.deps
  BY DEF Edited, Job

\* Each step of a coherent writer keeps the tables well formed and linked,
\* and changes no table when it returns an error.
LEMMA CoherentStep ==
  ASSUME TypeOK, Linked(jobs), [CoherentNext]_vars
  PROVE  /\ TypeOK'
         /\ Linked(jobs)'
         /\ [response' # "none" => UNCHANGED <<jobs, execs>>]_vars
  <1> DEFINE Kept == /\ TypeOK'
                     /\ Linked(jobs)'
                     /\ response' # "none" => UNCHANGED <<jobs, execs>>
  <1>0. jobs \in Tables
    BY DEF TypeOK, Tables
  <1>1. ASSUME NEW n \in Names, NEW job \in Job, NEW tick \in Nat,
               job.deps = jobs[n].deps, ApplySetJob(n, job, tick), held' = held
        PROVE  Kept
    <2>1. TypeOK'
      BY <1>1, ApplySetJobStep DEF TypeOK, Tables
    <2>2. LET r == SetJob(jobs, n, job, FALSE, tick)
          IN Linked(r.jobs) /\ (r.err # "none" => r.jobs = jobs)
      BY <1>0, <1>1, SetJobLinks
    <2> QED
      BY <1>1, <2>1, <2>2 DEF ApplySetJob
  <1>2. ASSUME NEW n \in Names, NEW tick \in Ticks, NEW parent \in Names \cup {NoName},
               NEW schedule \in Schedules \cup {NoSchedule},
               CreateJob(n, parent, schedule, tick)
        PROVE  Kept
    <2> DEFINE body == Body(parent, schedule, NoDeps)
    <2>1. NoDeps \in [Names -> Nat]
      BY DEF NoDeps
    <2>2. body \in Job /\ tick \in Nat
      BY <2>1, BodyType, JobStoreAssumption
    <2>3. body.deps = NoDeps
      BY DEF Body, ZeroJob
    <2>4. jobs[n].deps = NoDeps
      <3>1. jobs[n].deps \in [Names -> Nat] /\ ~jobs[n].stored
        BY <1>2 DEF TypeOK, Job, CreateJob
      <3>2. \A c \in Names : jobs[n].deps[c] = 0
        <4> TAKE c \in Names
        <4>1. jobs[c].parent # n
          BY SMT, <3>1, StoreAssumption DEF Linked
        <4> QED
          BY <4>1 DEF Linked
      <3> QED
        BY <3>1, <3>2 DEF NoDeps
    <2>5. ApplySetJob(n, body, tick) /\ held' = held
      BY <1>2 DEF CreateJob, ClientSetJob
    <2> HIDE DEF body
    <2> QED
      BY <1>1, <2>2, <2>3, <2>4, <2>5
  <1>3. ASSUME NEW n \in Names, NEW tick \in Ticks, NEW parent \in Names \cup {NoName},
               NEW schedule \in Schedules \cup {NoSchedule}, NEW disabled \in BOOLEAN,
               EditJob(n, parent, schedule, disabled, tick)
        PROVE  Kept
    <2> DEFINE edited == Edited(jobs[n], parent, schedule, disabled)
    <2>1. jobs[n] \in Job /\ tick \in Nat
      BY JobStoreAssumption DEF TypeOK
    <2>2. edited \in Job /\ edited.deps = jobs[n].deps
      BY <2>1, EditedType
    <2>3. ApplySetJob(n, edited, tick) /\ held' = held
      BY <1>3 DEF EditJob
    <2> HIDE DEF edited
    <2> QED
      BY <1>1, <2>1, <2>2, <2>3
  <1>4. ASSUME NEW n \in Names, ApplyDeleteJob(n)
        PROVE  Kept
    <2>1. TypeOK'
      BY <1>4, ApplyDeleteJobStep DEF TypeOK, Tables
    <2>2. LET r == DeleteJob(jobs, n)
          IN /\ Linked(r.jobs)
             /\ r.err # "none" => r.jobs = jobs /\ ~DeleteCommits(jobs, n)
      BY <1>0, DeleteJobLinks
    <2> QED
      BY <1>4, <2>1, <2>2 DEF ApplyDeleteJob
  <1>5. ASSUME NEW e \in Execs, ApplySetExecution(e)
        PROVE  Kept
    <2>1. TypeOK'
      BY <1>5, StepEffect DEF Next, ApplyExecution
    <2> QED
      BY <1>5, <2>1 DEF ApplySetExecution
  <1>6. ASSUME NEW e \in Execs, NEW t \in 1..MaxTime, NEW success \in BOOLEAN,
               ApplyExecutionDone(e, t, success)
        PROVE  Kept
    <2> DEFINE done == [e EXCEPT !.finished = t, !.success = success]
               st == ComputeStatus(PutExecution(execs, done), e.job, e.group)
               counted == CountDone(jobs[e.job], done, st)
    <2>1. TypeOK'
      BY <1>6, StepEffect DEF Next, ApplyExecution
    <2>2. e.job \in Names /\ done \in Execution
      <3>1. e \in Execution /\ t \in Nat
        BY SMT, JobStoreAssumption
      <3> QED
        BY <3>1 DEF Execution
    <2>3. /\ counted.parent = jobs[e.job].parent
          /\ counted.deps = jobs[e.job].deps
          /\ counted.stored = jobs[e.job].stored
      BY SMT, <2>2, ComputeStatusType, CountDoneEffect DEF TypeOK
    <2>4. \/ UNCHANGED <<jobs, execs>>
          \/ jobs' = [jobs EXCEPT ![e.job] = counted] /\ response' = "none"
      BY <1>6 DEF ApplyExecutionDone
    <2> HIDE DEF done, st, counted
    <2>5. CASE UNCHANGED <<jobs, execs>>
      BY <2>1, <2>5
    <2>6. CASE jobs' = [jobs EXCEPT ![e.job] = counted] /\ response' = "none"
      <3>1. \A m \in Names : /\ jobs'[m].parent = jobs[m].parent
                             /\ jobs'[m].deps = jobs[m].deps
                             /\ jobs'[m].stored = jobs[m].stored
        BY <2>2, <2>3, <2>6 DEF TypeOK
      <3>2. \A m \in Names : jobs[m].parent \in Names \cup {NoName}
        BY DEF TypeOK, Job
      <3>3. Linked(jobs')
        BY SMT, <3>1, <3>2 DEF Linked
      <3> QED
        BY <2>1, <2>6, <3>3
    <2> QED
      BY <2>4, <2>5, <2>6
  <1>7. CASE UNCHANGED vars
    BY <1>7 DEF vars, TypeOK
  <1>8. CASE CoherentNext
    BY <1>2, <1>3, <1>4, <1>5, <1>6, <1>8 DEF CoherentNext, ApplyExecution
  <1> QED
    BY <1>7, <1>8

\* The inductive invariant of the coherent writers.
LEMMA CoherentInvariant == CoherentSpec => [](TypeOK /\ Linked(jobs))
  <1>1. Init => TypeOK /\ Linked(jobs)
    <2> HAVE Init
    <2>1. TypeOK
      BY ZeroJobType DEF Init, TypeOK, Held, Responses
    <2>2. Linked(jobs)
      BY StoreAssumption DEF Init, Linked, ZeroJob, NoDeps
    <2> QED
      BY <2>1, <2>2
  <1>2. TypeOK /\ Linked(jobs) /\ [CoherentNext]_vars => (TypeOK /\ Linked(jobs))'
    BY CoherentStep
  <1> QED
    BY <1>1, <1>2, PTL DEF CoherentSpec

\* With writers that never act on an old copy, every job is listed exactly
\* once by the parent it names, and no named parent is ever deleted.
THEOREM LinksSafe == CoherentSpec => []LinksConsistent
  <1>1. Linked(jobs) => LinksConsistent
    BY DEF Linked, LinksConsistent
  <1> QED
    BY <1>1, CoherentInvariant, PTL

\* With such writers a command that returns an error changed nothing: the
\* parent updates that follow the committed transaction never fail.
THEOREM ErrorsSafe == CoherentSpec => ErrorsChangeNothing
  <1>1. TypeOK /\ Linked(jobs) /\ [CoherentNext]_vars =>
          [response' # "none" => UNCHANGED <<jobs, execs>>]_vars
    BY CoherentStep
  <1> QED
    BY <1>1, CoherentInvariant, PTL DEF CoherentSpec, ErrorsChangeNothing

=============================================================================
