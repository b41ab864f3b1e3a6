--------------------------- MODULE ReplicasProofs ---------------------------
(***************************************************************************)
(* Machine-checked proofs about Replicas, for every set of servers, names  *)
(* and commands, every clock and every value of the bounds.                *)
(***************************************************************************)
EXTENDS Replicas, TLAPS

\* Zenon checks every step that does not name SMT.
USE Zenon

\* Two jobs that differ at most in Next.
SameJob(a, b) ==
  /\ a.stored = b.stored /\ a.parent = b.parent /\ a.deps = b.deps
  /\ a.schedule = b.schedule /\ a.disabled = b.disabled /\ a.status = b.status
  /\ a.successCount = b.successCount /\ a.errorCount = b.errorCount
  /\ a.lastSuccess = b.lastSuccess /\ a.lastError = b.lastError

\* A name that is not stored holds the zero job.
JobTable == {j \in [Names -> Job] : \A n \in Names : ~j[n].stored => j[n] = ZeroJob}

\* Two tables of jobs that differ at most in Next.
Alike(j, k) == j \in JobTable /\ k \in JobTable /\ \A n \in Names : SameJob(j[n], k[n])

\* Two results of an operation of the store, Next aside.
AlikeResult(r, q) == Alike(r.jobs, q.jobs) /\ r.err = q.err

-----------------------------------------------------------------------------
(* No operation of the store depends on Next. *)

\* The zero job is a job.
LEMMA ZeroJobType == ZeroJob \in Job
  BY StoreAssumption DEF ZeroJob, Job, NoDeps, Status, NoName, NoSchedule

\* What SetJob's transaction writes is a stored job.
LEMMA MergeType ==
  ASSUME NEW job \in Job, NEW ej \in Job, NEW tick \in Nat
  PROVE  Merge(job, ej, FALSE, tick) \in Job /\ Merge(job, ej, FALSE, tick).stored
  BY DEF Merge, Job, Larger, KeepStatus

\* Nothing but Next of what is written depends on Next or on the clock.
LEMMA MergeSame ==
  ASSUME NEW x, NEW y, NEW a, NEW b, SameJob(x, y), SameJob(a, b),
         NEW tick, NEW tock
  PROVE  SameJob(Merge(x, a, FALSE, tick), Merge(y, b, FALSE, tock))
  BY DEF Merge, SameJob

\* Tables that are alike stay so when a job is written to both.
LEMMA WriteAlike ==
  ASSUME NEW j, NEW k, Alike(j, k), NEW n \in Names, NEW x \in Job, NEW y \in Job,
         SameJob(x, y), x.stored \/ (x = ZeroJob /\ y = ZeroJob)
  PROVE  Alike([j EXCEPT ![n] = x], [k EXCEPT ![n] = y])
<1>1. j \in [Names -> Job] /\ k \in [Names -> Job]
  BY DEF Alike, JobTable
<1>2. [j EXCEPT ![n] = x] \in [Names -> Job] /\ [k EXCEPT ![n] = y] \in [Names -> Job]
  BY <1>1
<1>3. ASSUME NEW m \in Names
      PROVE  /\ SameJob([j EXCEPT ![n] = x][m], [k EXCEPT ![n] = y][m])
             /\ ~[j EXCEPT ![n] = x][m].stored => [j EXCEPT ![n] = x][m] = ZeroJob
             /\ ~[k EXCEPT ![n] = y][m].stored => [k EXCEPT ![n] = y][m] = ZeroJob
  <2>1. CASE m = n
    <3>1. [j EXCEPT ![n] = x][m] = x /\ [k EXCEPT ![n] = y][m] = y
      BY <1>1, <2>1
    <3>2. x.stored = y.stored
      BY DEF SameJob
    <3> QED
      BY <3>1, <3>2
  <2>2. CASE m # n
    <3>1. [j EXCEPT ![n] = x][m] = j[m] /\ [k EXCEPT ![n] = y][m] = k[m]
      BY <1>1, <2>2
    <3> QED
      BY <3>1 DEF Alike, JobTable
  <2> QED
    BY <2>1, <2>2
<1> QED
  BY <1>2, <1>3 DEF Alike, JobTable

\* The jobs of tables that are alike.
LEMMA AlikeJobs ==
  ASSUME NEW j, NEW k, Alike(j, k), NEW n \in Names
  PROVE  j[n] \in Job /\ k[n] \in Job /\ SameJob(j[n], k[n])
  BY DEF Alike, JobTable

\* A parent is found in both of two tables that are alike, or in neither.
LEMMA FoundAlike ==
  ASSUME NEW j, NEW k, Alike(j, k), NEW x, NEW y, x.parent = y.parent,
         x.parent \in Names \cup {NoName}
  PROVE  ParentFound(j, x) <=> ParentFound(k, y)
<1>1. CASE x.parent = NoName
  BY <1>1 DEF ParentFound
<1>2. CASE x.parent \in Names
  <2>1. j[x.parent].stored = k[x.parent].stored
    <3>1. SameJob(j[x.parent], k[x.parent])
      BY <1>2, AlikeJobs
    <3> QED
      BY <3>1 DEF SameJob
  <2> QED
    BY <2>1 DEF ParentFound
<1> QED
  BY <1>1, <1>2

\* Saving a parent with other dependents.
LEMMA SaveParentAlike ==
  ASSUME NEW j, NEW k, Alike(j, k), NEW p \in Names, NEW deps \in [Names -> Nat]
  PROVE  AlikeResult(SaveParent(j, p, deps), SaveParent(k, p, deps))
<1> DEFINE x == [j[p] EXCEPT !.deps = deps]
           y == [k[p] EXCEPT !.deps = deps]
<1>1. j[p] \in Job /\ k[p] \in Job /\ SameJob(j[p], k[p])
  BY AlikeJobs
<1>2. x \in Job /\ y \in Job
  BY <1>1 DEF Job
<1>3. SameJob(x, y)
  BY <1>1 DEF SameJob, Job
<1> HIDE DEF x, y
<1>4. /\ Merge(x, j[p], FALSE, 0) \in Job /\ Merge(x, j[p], FALSE, 0).stored
      /\ Merge(y, k[p], FALSE, 0) \in Job
  <2>1. 0 \in Nat
    BY SMT
  <2> QED
    BY <1>1, <1>2, <2>1, MergeType
<1>5. SameJob(Merge(x, j[p], FALSE, 0), Merge(y, k[p], FALSE, 0))
  BY <1>1, <1>3, MergeSame
<1>6. Alike([j EXCEPT ![p] = Merge(x, j[p], FALSE, 0)], [k EXCEPT ![p] = Merge(y, k[p], FALSE, 0)])
  BY <1>4, <1>5, WriteAlike
<1>7. ParentFound(j, j[p]) <=> ParentFound(k, k[p])
  <2>1. j[p].parent = k[p].parent /\ j[p].parent \in Names \cup {NoName}
    BY <1>1 DEF SameJob, Job
  <2> QED
    BY <2>1, FoundAlike
<1>8. CASE ParentFound(j, j[p])
  BY <1>6, <1>7, <1>8 DEF SaveParent, AlikeResult, x, y
<1>9. CASE ~ParentFound(j, j[p])
  BY <1>7, <1>9 DEF SaveParent, AlikeResult
<1> QED
  BY <1>8, <1>9

\* Taking a child off its parent.
LEMMA RemoveAlike ==
  ASSUME NEW j, NEW k, Alike(j, k), NEW n \in Names, NEW p \in Names \cup {NoName}
  PROVE  AlikeResult(RemoveFromParent(j, n, p), RemoveFromParent(k, n, p))
<1>1. CASE p = NoName
  BY <1>1 DEF RemoveFromParent, AlikeResult
<1>2. CASE p # NoName
  <2>1. j[p] \in Job /\ SameJob(j[p], k[p])
    BY <1>2, AlikeJobs
  <2>2. j[p].stored = k[p].stored /\ j[p].deps = k[p].deps
    BY <2>1 DEF SameJob
  <2>3. [j[p].deps EXCEPT ![n] = 0] \in [Names -> Nat]
    BY SMT, <2>1 DEF Job
  <2>4. AlikeResult(SaveParent(j, p, [j[p].deps EXCEPT ![n] = 0]),
                    SaveParent(k, p, [k[p].deps EXCEPT ![n] = 0]))
    BY <1>2, <2>2, <2>3, SaveParentAlike
  <2> QED
    BY <1>2, <2>2, <2>4 DEF RemoveFromParent, AlikeResult
<1> QED
  BY <1>1, <1>2

\* Putting a child on its parent.
LEMMA AddAlike ==
  ASSUME NEW j, NEW k, Alike(j, k), NEW n \in Names, NEW p \in Names \cup {NoName}
  PROVE  AlikeResult(AddToParent(j, n, p), AddToParent(k, n, p))
<1>1. CASE p = NoName
  BY <1>1 DEF AddToParent, AlikeResult
<1>2. CASE p # NoName
  <2>1. j[p] \in Job /\ SameJob(j[p], k[p])
    BY <1>2, AlikeJobs
  <2>2. j[p].stored = k[p].stored /\ j[p].deps = k[p].deps
    BY <2>1 DEF SameJob
  <2>3. [j[p].deps EXCEPT ![n] = @ + 1] \in [Names -> Nat]
    BY SMT, <2>1 DEF Job
  <2>4. AlikeResult(SaveParent(j, p, [j[p].deps EXCEPT ![n] = @ + 1]),
                    SaveParent(k, p, [k[p].deps EXCEPT ![n] = @ + 1]))
    BY <1>2, <2>2, <2>3, SaveParentAlike
  <2> QED
    BY <1>2, <2>2, <2>4 DEF AddToParent, AlikeResult
<1> QED
  BY <1>1, <1>2

\* Moving a child to another parent.
LEMMA MoveAlike ==
  ASSUME NEW j, NEW k, Alike(j, k), NEW n \in Names, NEW old \in Names \cup {NoName},
         NEW new \in Names \cup {NoName}
  PROVE  AlikeResult(MoveChild(j, n, old, new), MoveChild(k, n, old, new))
<1> DEFINE r == RemoveFromParent(j, n, old)
           q == RemoveFromParent(k, n, old)
<1>1. AlikeResult(r, q)
  BY RemoveAlike
<1>2. MoveChild(j, n, old, new) =
        IF old = new THEN [jobs |-> j, err |-> "none"]
        ELSE IF r.err # "none" THEN r ELSE AddToParent(r.jobs, n, new)
  BY DEF MoveChild
<1>3. MoveChild(k, n, old, new) =
        IF old = new THEN [jobs |-> k, err |-> "none"]
        ELSE IF q.err # "none" THEN q ELSE AddToParent(q.jobs, n, new)
  BY DEF MoveChild
<1> HIDE DEF r, q
<1>4. AlikeResult(AddToParent(r.jobs, n, new), AddToParent(q.jobs, n, new))
  <2>1. Alike(r.jobs, q.jobs)
    BY <1>1 DEF AlikeResult
  <2> QED
    BY <2>1, AddAlike
<1>5. CASE old = new
  <2>1. /\ MoveChild(j, n, old, new) = [jobs |-> j, err |-> "none"]
        /\ MoveChild(k, n, old, new) = [jobs |-> k, err |-> "none"]
    BY <1>2, <1>3, <1>5
  <2>2. AlikeResult([jobs |-> j, err |-> "none"], [jobs |-> k, err |-> "none"])
    BY DEF AlikeResult
  <2> QED
    BY <2>1, <2>2
<1>6. CASE old # new /\ r.err # "none"
  <2>1. q.err # "none"
    BY <1>1, <1>6 DEF AlikeResult
  <2> QED
    BY <1>1, <1>2, <1>3, <1>6, <2>1
<1>7. CASE old # new /\ r.err = "none"
  <2>1. q.err = "none"
    BY <1>1, <1>7 DEF AlikeResult
  <2> QED
    BY <1>2, <1>3, <1>4, <1>7, <2>1
<1> QED
  BY <1>5, <1>6, <1>7

\* SetJob, with clocks of two servers.
LEMMA SetJobAlike ==
  ASSUME NEW j, NEW k, Alike(j, k), NEW n \in Names, NEW job \in Job,
         NEW tick \in Nat, NEW tock \in Nat
  PROVE  Alike(SetJob(j, n, job, FALSE, tick).jobs, SetJob(k, n, job, FALSE, tock).jobs)
<1> DEFINE x == Merge(job, j[n], FALSE, tick)
           y == Merge(job, k[n], FALSE, tock)
           written == [j EXCEPT ![n] = x]
           rewritten == [k EXCEPT ![n] = y]
<1>1. j[n] \in Job /\ k[n] \in Job /\ SameJob(j[n], k[n])
  BY AlikeJobs
<1>2. x \in Job /\ x.stored /\ y \in Job
  BY <1>1, MergeType
<1>3. SameJob(x, y)
  <2>1. SameJob(job, job)
    BY DEF SameJob
  <2> QED
    BY <1>1, <2>1, MergeSame
<1>4. j[n].parent = k[n].parent /\ j[n].parent \in Names \cup {NoName}
  BY <1>1 DEF SameJob, Job
<1>5. job.parent \in Names \cup {NoName}
  BY DEF Job
<1>6. ParentFound(j, job) <=> ParentFound(k, job)
  BY <1>5, FoundAlike
<1> HIDE DEF x, y
<1>7. Alike(written, rewritten)
  BY <1>2, <1>3, WriteAlike
<1>8. CASE ~Validate(n, job) \/ ~ParentFound(j, job)
  <2>1. SetJob(j, n, job, FALSE, tick).jobs = j
    BY <1>8 DEF SetJob
  <2>2. SetJob(k, n, job, FALSE, tock).jobs = k
    BY <1>6, <1>8 DEF SetJob
  <2> QED
    BY <2>1, <2>2
<1>9. CASE Validate(n, job) /\ ParentFound(j, job)
  <2>1. SetJob(j, n, job, FALSE, tick) = MoveChild(written, n, j[n].parent, job.parent)
    BY <1>9 DEF SetJob, x
  <2>2. SetJob(k, n, job, FALSE, tock) = MoveChild(rewritten, n, j[n].parent, job.parent)
    BY <1>4, <1>6, <1>9 DEF SetJob, y
  <2> HIDE DEF written, rewritten
  <2>3. AlikeResult(MoveChild(written, n, j[n].parent, job.parent),
                    MoveChild(rewritten, n, j[n].parent, job.parent))
    BY <1>4, <1>5, <1>7, MoveAlike
  <2> QED
    BY <2>1, <2>2, <2>3 DEF AlikeResult
<1> QED
  BY <1>8, <1>9

\* DeleteJob: it is refused by both or by none.
LEMMA DeleteJobAlike ==
  ASSUME NEW j, NEW k, Alike(j, k), NEW n \in Names
  PROVE  /\ Alike(DeleteJob(j, n).jobs, DeleteJob(k, n).jobs)
         /\ DeleteCommits(j, n) <=> DeleteCommits(k, n)
<1> DEFINE gone == [j EXCEPT ![n] = ZeroJob]
           lost == [k EXCEPT ![n] = ZeroJob]
<1>1. j[n] \in Job /\ SameJob(j[n], k[n])
  BY AlikeJobs
<1>2. /\ j[n].stored = k[n].stored /\ j[n].deps = k[n].deps /\ j[n].parent = k[n].parent
      /\ j[n].parent \in Names \cup {NoName}
  BY <1>1 DEF SameJob, Job
<1>3. Alike(gone, lost)
  <2>1. SameJob(ZeroJob, ZeroJob)
    BY DEF SameJob
  <2> QED
    BY <2>1, ZeroJobType, WriteAlike
<1>4. CASE ~DeleteCommits(j, n)
  <2>1. DeleteJob(j, n).jobs = j
    BY <1>4 DEF DeleteJob, DeleteCommits
  <2>2. DeleteJob(k, n).jobs = k
    BY <1>2, <1>4 DEF DeleteJob, DeleteCommits
  <2> QED
    BY <1>2, <2>1, <2>2 DEF DeleteCommits
<1>5. CASE DeleteCommits(j, n)
  <2>1. DeleteJob(j, n) = RemoveFromParent(gone, n, j[n].parent)
    BY <1>5 DEF DeleteJob, DeleteCommits
  <2>2. DeleteJob(k, n) = RemoveFromParent(lost, n, j[n].parent)
    BY <1>2, <1>5 DEF DeleteJob, DeleteCommits
  <2> HIDE DEF gone, lost
  <2>3. AlikeResult(RemoveFromParent(gone, n, j[n].parent), RemoveFromParent(lost, n, j[n].parent))
    BY <1>2, <1>3, RemoveAlike
  <2> QED
    BY <1>2, <2>1, <2>2, <2>3 DEF AlikeResult, DeleteCommits
<1> QED
  BY <1>4, <1>5

\* Counting a completion keeps a job a job.
LEMMA CountDoneType ==
  ASSUME NEW job \in Job, NEW e \in Execution, NEW st \in Status
  PROVE  CountDone(job, e, st) \in Job
  <1> DEFINE s == job.successCount + 1
             f == job.errorCount + 1
             t == e.finished
  <1>1. s \in Nat /\ f \in Nat /\ t \in Nat
    BY SMT DEF Job, Execution
  <1>2. CountDone(job, e, st) =
          IF e.success
            THEN [job EXCEPT !.successCount = s, !.lastSuccess = t, !.status = st]
            ELSE [job EXCEPT !.errorCount = f, !.lastError = t, !.status = st]
    BY DEF CountDone
  <1> HIDE DEF s, f, t
  <1>3. [job EXCEPT !.successCount = s, !.lastSuccess = t, !.status = st] \in Job
    BY <1>1 DEF Job
  <1>4. [job EXCEPT !.errorCount = f, !.lastError = t, !.status = st] \in Job
    BY <1>1 DEF Job
  <1> QED
    BY <1>2, <1>3, <1>4

\* What is counted does not depend on Next.
LEMMA CountDoneSame ==
  ASSUME NEW a \in Job, NEW b \in Job, SameJob(a, b), NEW e, NEW st
  PROVE  SameJob(CountDone(a, e, st), CountDone(b, e, st)) /\ CountDone(a, e, st).stored = a.stored
  BY SMT DEF CountDone, Job, SameJob

\* The tables of a server.
Tables == [jobs : JobTable, execs : SUBSET Execution]

\* The tables of two servers that differ at most in Next.
AlikeTables(t, u) ==
  t \in Tables /\ u \in Tables /\ Alike(t.jobs, u.jobs) /\ t.execs = u.execs

\* Tables put together from parts that are alike.
LEMMA TablesAlike ==
  ASSUME NEW j, NEW k, Alike(j, k), NEW ex \in SUBSET Execution
  PROVE  AlikeTables([jobs |-> j, execs |-> ex], [jobs |-> k, execs |-> ex])
  BY DEF AlikeTables, Tables, Alike

\* Changing one table keeps the other.
LEMMA TablesExcept ==
  ASSUME NEW t \in Tables, NEW j, NEW ex
  PROVE  /\ [t EXCEPT !.jobs = j] = [jobs |-> j, execs |-> t.execs]
         /\ [t EXCEPT !.execs = ex] = [jobs |-> t.jobs, execs |-> ex]
  BY SMT DEF Tables

\* applyExecutionDone on two servers.
LEMMA ApplyDoneAlike ==
  ASSUME NEW t, NEW u, AlikeTables(t, u), NEW e \in Execution
  PROVE  AlikeTables(ApplyDone(t, e), ApplyDone(u, e))
<1> DEFINE put == PutExecution(t.execs, e)
           st == ComputeStatus(put, e.job, e.group)
           x == CountDone(t.jobs[e.job], e, st)
           y == CountDone(u.jobs[e.job], e, st)
<1>1. Alike(t.jobs, u.jobs) /\ t.execs = u.execs /\ e.job \in Names
  BY DEF AlikeTables, Execution
<1>2. t.jobs[e.job] \in Job /\ u.jobs[e.job] \in Job /\ SameJob(t.jobs[e.job], u.jobs[e.job])
  BY <1>1, AlikeJobs
<1>3. t.jobs[e.job].stored = u.jobs[e.job].stored
  BY <1>2 DEF SameJob
<1>4. put \in SUBSET Execution
  <2>1. t.execs \in SUBSET Execution
    BY DEF AlikeTables, Tables
  <2> QED
    BY <2>1 DEF PutExecution
<1>5. st \in Status
  BY DEF ComputeStatus, Status
<1> HIDE DEF st
<1>6. x \in Job /\ y \in Job
  BY <1>2, <1>5, CountDoneType
<1>7. SameJob(x, y) /\ x.stored = t.jobs[e.job].stored
  <2> DEFINE a == t.jobs[e.job]
             b == u.jobs[e.job]
  <2>1. a \in Job /\ b \in Job /\ SameJob(a, b)
    BY <1>2
  <2> HIDE DEF a, b
  <2>2. /\ SameJob(CountDone(a, e, st), CountDone(b, e, st))
        /\ CountDone(a, e, st).stored = a.stored
    BY <2>1, CountDoneSame
  <2> QED
    BY <2>2 DEF a, b
<1>8. CASE ~t.jobs[e.job].stored
  BY <1>3, <1>8 DEF ApplyDone
<1>9. CASE t.jobs[e.job].stored
  <2>1. ApplyDone(t, e) = [jobs |-> [t.jobs EXCEPT ![e.job] = x], execs |-> put]
    BY <1>9 DEF ApplyDone, st
  <2>2. ApplyDone(u, e) = [jobs |-> [u.jobs EXCEPT ![e.job] = y], execs |-> put]
    BY <1>1, <1>3, <1>9 DEF ApplyDone, st
  <2> HIDE DEF x, y, put
  <2>3. Alike([t.jobs EXCEPT ![e.job] = x], [u.jobs EXCEPT ![e.job] = y])
    <3>1. x.stored
      BY <1>7, <1>9
    <3> QED
      BY <1>1, <1>6, <1>7, <3>1, WriteAlike
  <2>4. AlikeTables([jobs |-> [t.jobs EXCEPT ![e.job] = x], execs |-> put],
                    [jobs |-> [u.jobs EXCEPT ![e.job] = y], execs |-> put])
    BY <1>4, <2>3, TablesAlike
  <2> QED
    BY <2>1, <2>2, <2>4
<1> QED
  BY <1>8, <1>9

\* applyDeleteJob on two servers.
LEMMA ApplyDeleteAlike ==
  ASSUME NEW t, NEW u, AlikeTables(t, u), NEW n \in Names
  PROVE  AlikeTables(ApplyDelete(t, n), ApplyDelete(u, n))
<1> DEFINE ex == IF DeleteCommits(t.jobs, n) THEN DeleteExecutions(t.execs, n) ELSE t.execs
<1>1. Alike(t.jobs, u.jobs) /\ t.execs = u.execs /\ t.execs \in SUBSET Execution
  BY DEF AlikeTables, Tables
<1>2. Alike(DeleteJob(t.jobs, n).jobs, DeleteJob(u.jobs, n).jobs)
  BY <1>1, DeleteJobAlike
<1>3. DeleteCommits(t.jobs, n) <=> DeleteCommits(u.jobs, n)
  BY <1>1, DeleteJobAlike
<1>4. ApplyDelete(t, n) = [jobs |-> DeleteJob(t.jobs, n).jobs, execs |-> ex]
  BY DEF ApplyDelete
<1>5. ApplyDelete(u, n) = [jobs |-> DeleteJob(u.jobs, n).jobs, execs |-> ex]
  BY <1>1, <1>3 DEF ApplyDelete
<1>6. ex \in SUBSET Execution
  BY <1>1 DEF DeleteExecutions
<1> QED
  BY <1>2, <1>4, <1>5, <1>6, TablesAlike

\* dkronFSM.Apply: two servers that hold the same, Next aside, and apply the
\* same command, each by its own clock, hold the same afterwards.
LEMMA ApplyAlike ==
  ASSUME NEW t, NEW u, AlikeTables(t, u), NEW c \in Command, NEW tick \in Nat, NEW tock \in Nat
  PROVE  AlikeTables(ApplyCommand(t, c, tick), ApplyCommand(u, c, tock))
<1>1. /\ t \in Tables /\ u \in Tables /\ Alike(t.jobs, u.jobs) /\ t.execs = u.execs
      /\ t.execs \in SUBSET Execution
  BY DEF AlikeTables, Tables
<1>2. CASE c.type = "SetJob"
  <2>1. c.name \in Names /\ c.job \in Job
    BY <1>2 DEF Command
  <2> DEFINE j == SetJob(t.jobs, c.name, c.job, FALSE, tick).jobs
             k == SetJob(u.jobs, c.name, c.job, FALSE, tock).jobs
  <2>2. Alike(j, k)
    BY <1>1, <2>1, SetJobAlike
  <2>3. ApplyCommand(t, c, tick) = [t EXCEPT !.jobs = j]
    BY <1>2 DEF ApplyCommand
  <2>4. ApplyCommand(u, c, tock) = [u EXCEPT !.jobs = k]
    BY <1>2 DEF ApplyCommand
  <2> HIDE DEF j, k
  <2>5. [t EXCEPT !.jobs = j] = [jobs |-> j, execs |-> t.execs]
    BY <1>1, TablesExcept
  <2>6. [u EXCEPT !.jobs = k] = [jobs |-> k, execs |-> t.execs]
    BY <1>1, TablesExcept
  <2>7. AlikeTables([jobs |-> j, execs |-> t.execs], [jobs |-> k, execs |-> t.execs])
    BY <1>1, <2>2, TablesAlike
  <2> QED
    BY <2>3, <2>4, <2>5, <2>6, <2>7
<1>3. CASE c.type = "DeleteJob"
  <2>1. c.name \in Names
    BY <1>3 DEF Command
  <2>2. ApplyCommand(t, c, tick) = ApplyDelete(t, c.name)
    BY <1>3 DEF ApplyCommand
  <2>3. ApplyCommand(u, c, tock) = ApplyDelete(u, c.name)
    BY <1>3 DEF ApplyCommand
  <2> QED
    BY <2>1, <2>2, <2>3, ApplyDeleteAlike
<1>4. CASE c.type = "SetExecution"
  <2>1. c.exec \in Execution
    BY <1>4 DEF Command
  <2> DEFINE ex == SetExecution(t.execs, c.exec)
  <2>2. ApplyCommand(t, c, tick) = [t EXCEPT !.execs = ex]
    BY <1>4 DEF ApplyCommand
  <2>3. ApplyCommand(u, c, tock) = [u EXCEPT !.execs = ex]
    BY <1>1, <1>4 DEF ApplyCommand
  <2>4. ex \in SUBSET Execution
    BY <1>1, <2>1 DEF SetExecution, PutExecution
  <2> HIDE DEF ex
  <2>5. [t EXCEPT !.execs = ex] = [jobs |-> t.jobs, execs |-> ex]
    BY <1>1, TablesExcept
  <2>6. [u EXCEPT !.execs = ex] = [jobs |-> u.jobs, execs |-> ex]
    BY <1>1, TablesExcept
  <2>7. AlikeTables([jobs |-> t.jobs, execs |-> ex], [jobs |-> u.jobs, execs |-> ex])
    BY <1>1, <2>4, TablesAlike
  <2> QED
    BY <2>2, <2>3, <2>5, <2>6, <2>7
<1>5. CASE c.type = "ExecutionDone"
  <2>1. c.exec \in Execution
    BY <1>5 DEF Command
  <2>2. ApplyCommand(t, c, tick) = ApplyDone(t, c.exec)
    BY <1>5 DEF ApplyCommand
  <2>3. ApplyCommand(u, c, tock) = ApplyDone(u, c.exec)
    BY <1>5 DEF ApplyCommand
  <2> QED
    BY <2>1, <2>2, <2>3, ApplyDoneAlike
<1>6. CASE c.type \notin {"SetJob", "DeleteJob", "SetExecution", "ExecutionDone"}
  <2>1. ApplyCommand(t, c, tick) = t /\ ApplyCommand(u, c, tock) = u
    BY <1>6 DEF ApplyCommand
  <2> QED
    BY <2>1
<1> QED
  BY <1>2, <1>3, <1>4, <1>5, <1>6

-----------------------------------------------------------------------------
(* The tables of a server stay well formed, snapshots and restores included. *)

\* Tables that are well formed differ from themselves in nothing.
LEMMA AlikeSelf ==
  ASSUME NEW t \in Tables
  PROVE  AlikeTables(t, t)
  BY DEF AlikeTables, Tables, Alike, SameJob

\* The tables of a server, put together.
LEMMA MakeTables ==
  ASSUME NEW j \in JobTable, NEW ex \in SUBSET Execution
  PROVE  [jobs |-> j, execs |-> ex] \in Tables
  BY DEF Tables

\* An empty store is well formed.
LEMMA BlankType == Blank \in Tables
<1>1. [n \in Names |-> ZeroJob] \in JobTable
  BY ZeroJobType DEF JobTable
<1> QED
  BY <1>1 DEF Blank, Tables

\* A command leaves the tables well formed.
LEMMA ApplyType ==
  ASSUME NEW t \in Tables, NEW c \in Command, NEW tick \in Nat
  PROVE  ApplyCommand(t, c, tick) \in Tables
<1>1. AlikeTables(t, t)
  BY AlikeSelf
<1>2. AlikeTables(ApplyCommand(t, c, tick), ApplyCommand(t, c, tick))
  BY <1>1, ApplyAlike
<1> QED
  BY <1>2 DEF AlikeTables

\* So does half of one, which is what Persist may save.
LEMMA HalvesType ==
  ASSUME NEW t \in Tables, NEW c \in Command, NEW tick \in Nat
  PROVE  Halves(t, c, tick) \subseteq Tables
<1>1. Alike(t.jobs, t.jobs) /\ t.execs \in SUBSET Execution
  BY AlikeSelf DEF AlikeTables, Tables
<1>2. CASE c.type = "SetJob" /\ Validate(c.name, c.job) /\ ParentFound(t.jobs, c.job)
  <2>1. c.name \in Names /\ c.job \in Job
    BY <1>2 DEF Command
  <2> DEFINE n == c.name
             x == Merge(c.job, t.jobs[n], FALSE, tick)
             written == [t.jobs EXCEPT ![n] = x]
             removed == RemoveFromParent(written, n, t.jobs[n].parent).jobs
  <2>2. t.jobs[n] \in Job
    BY <1>1, <2>1, AlikeJobs
  <2>3. x \in Job /\ x.stored
    BY <2>1, <2>2, MergeType
  <2>4. Alike(written, written)
    <3>1. SameJob(x, x)
      BY DEF SameJob
    <3> HIDE DEF x
    <3> QED
      BY <1>1, <2>1, <2>3, <3>1, WriteAlike
  <2>5. removed \in JobTable
    <3>1. t.jobs[n].parent \in Names \cup {NoName}
      BY <2>2 DEF Job
    <3> HIDE DEF written
    <3>2. AlikeResult(RemoveFromParent(written, n, t.jobs[n].parent),
                      RemoveFromParent(written, n, t.jobs[n].parent))
      BY <2>1, <2>4, <3>1, RemoveAlike
    <3> QED
      BY <3>2 DEF AlikeResult, Alike
  <2>6. Halves(t, c, tick) = {[t EXCEPT !.jobs = j] : j \in {written, removed}}
    BY <1>2 DEF Halves
  <2>7. written \in JobTable
    BY <2>4 DEF Alike
  <2> HIDE DEF written, removed
  <2>8. ASSUME NEW j \in JobTable PROVE [t EXCEPT !.jobs = j] \in Tables
    BY DEF Tables
  <2> QED
    BY <2>5, <2>6, <2>7, <2>8
<1>3. CASE c.type = "DeleteJob" /\ DeleteCommits(t.jobs, c.name)
  <2>1. c.name \in Names
    BY <1>3 DEF Command
  <2>2. Halves(t, c, tick) = {[jobs |-> [t.jobs EXCEPT ![c.name] = ZeroJob],
                               execs |-> DeleteExecutions(t.execs, c.name)]}
    BY <1>3 DEF Halves
  <2>3. SameJob(ZeroJob, ZeroJob)
    BY DEF SameJob
  <2>4. Alike([t.jobs EXCEPT ![c.name] = ZeroJob], [t.jobs EXCEPT ![c.name] = ZeroJob])
    BY <1>1, <2>1, <2>3, ZeroJobType, WriteAlike
  <2>5. DeleteExecutions(t.execs, c.name) \in SUBSET Execution
    BY <1>1 DEF DeleteExecutions
  <2> QED
    BY <2>2, <2>4, <2>5, MakeTables DEF Alike
<1>4. CASE /\ ~(c.type = "SetJob" /\ Validate(c.name, c.job) /\ ParentFound(t.jobs, c.job))
           /\ ~(c.type = "DeleteJob" /\ DeleteCommits(t.jobs, c.name))
  BY <1>4 DEF Halves
<1> QED
  BY <1>2, <1>3, <1>4

\* Restore: a snapshot over a store.
LEMMA LoadType ==
  ASSUME NEW t \in Tables, NEW saved \in Tables
  PROVE  Load(t, saved) \in Tables
<1> DEFINE j == [n \in Names |-> IF saved.jobs[n].stored THEN saved.jobs[n] ELSE t.jobs[n]]
           ex == saved.execs \cup {e \in t.execs : ~\E f \in saved.execs : SameKey(e, f)}
<1>1. j \in JobTable
  BY DEF Tables, JobTable
<1>2. ex \in SUBSET Execution
  BY DEF Tables
<1>3. Load(t, saved) = [jobs |-> j, execs |-> ex]
  BY DEF Load
<1> HIDE DEF j, ex
<1> QED
  BY <1>1, <1>2, <1>3, MakeTables

\* Restore into a new store.
LEMMA LoadBlank ==
  ASSUME NEW saved \in Tables
  PROVE  Load(Blank, saved) = saved
<1> DEFINE j == [n \in Names |-> IF saved.jobs[n].stored THEN saved.jobs[n] ELSE Blank.jobs[n]]
           ex == saved.execs \cup {e \in Blank.execs : ~\E f \in saved.execs : SameKey(e, f)}
<1>1. saved.jobs \in JobTable /\ saved = [jobs |-> saved.jobs, execs |-> saved.execs]
  BY SMT DEF Tables
<1>2. j = saved.jobs
  <2>1. \A n \in Names : Blank.jobs[n] = ZeroJob
    BY DEF Blank
  <2>2. \A n \in Names : j[n] = saved.jobs[n]
    BY <1>1, <2>1 DEF JobTable
  <2>3. saved.jobs \in [Names -> Job]
    BY <1>1 DEF JobTable
  <2> QED
    BY SMT, <2>2, <2>3
<1>3. ex = saved.execs
  BY DEF Blank
<1>4. Load(Blank, saved) = [jobs |-> j, execs |-> ex]
  BY DEF Load
<1> HIDE DEF j, ex
<1> QED
  BY <1>1, <1>2, <1>3, <1>4

\* The variables that matter to the tables are well formed: no index is past
\* the log, and a server that is down has lost its store.
TypeOK ==
  /\ log \in Seq(Command)
  /\ leader \in Servers \cup {NoServer}
  /\ up \subseteq Servers
  /\ store \in [Servers -> Tables]
  /\ applied \in [Servers -> 0..Len(log)]
  /\ received \in [Servers -> 0..Len(log)]
  /\ snap \in [Servers -> [index : 0..Len(log), tables : Tables, clean : BOOLEAN]]
  /\ taking \in [Servers -> (0..Len(log)) \cup {Nothing}]
  /\ clean \in [Servers -> BOOLEAN]
  /\ \A s \in Servers \ up : store[s] = Blank

\* An index into the log is one into a longer log.
LEMMA TypeSubmit ==
  ASSUME TypeOK, NEW c \in Commands, Submit(c)
  PROVE  TypeOK'
<1>1. c \in Command
  BY ReplicasAssumption
<1>2. log \in Seq(Command) /\ log' = Append(log, c)
  BY DEF TypeOK, Submit
<1>3. /\ log' \in Seq(Command) /\ Len(log) \in Nat /\ Len(log)' = Len(log) + 1
  BY SMT, <1>1, <1>2
<1>4. 0..Len(log) \subseteq 0..Len(log)' /\ Len(log) + 1 \in 0..Len(log)'
  BY SMT, <1>3
<1>5. received' \in [Servers -> 0..Len(log)']
  <2>1. received \in [Servers -> 0..Len(log)'] /\ received' = [received EXCEPT ![leader] = Len(log) + 1]
    BY <1>4 DEF TypeOK, Submit
  <2> QED
    BY <1>4, <2>1
<1>6. applied' \in [Servers -> 0..Len(log)']
  BY <1>4 DEF TypeOK, Submit
<1>7. snap' \in [Servers -> [index : 0..Len(log)', tables : Tables, clean : BOOLEAN]]
  <2>1. [index : 0..Len(log), tables : Tables, clean : BOOLEAN]
          \subseteq [index : 0..Len(log)', tables : Tables, clean : BOOLEAN]
    BY <1>4
  <2>2. snap' \in [Servers -> [index : 0..Len(log), tables : Tables, clean : BOOLEAN]]
    BY DEF TypeOK, Submit
  <2> QED
    BY <2>1, <2>2
<1>8. taking' \in [Servers -> (0..Len(log)') \cup {Nothing}]
  BY <1>4 DEF TypeOK, Submit, Nothing
<1> QED
  BY <1>3, <1>5, <1>6, <1>7, <1>8 DEF TypeOK, Submit, Nothing

\* An action of a server leaves the log and the other servers as they are.
Frame(s) ==
  /\ log' = log
  /\ \A r \in Servers \ {s} :
       store'[r] = store[r] /\ applied'[r] = applied[r] /\ snap'[r] = snap[r] /\ clean'[r] = clean[r]

\* The variables that say what a server holds.
tableVars == <<log, store, applied, snap, clean>>

\* A step that changes no tables leaves every server as it is.
LEMMA Untouched ==
  ASSUME NEW s, UNCHANGED tableVars
  PROVE  Frame(s)
  BY DEF tableVars, Frame

\* Elections, replication, and snapshots that begin or fail.
LEMMA QuietType ==
  ASSUME TypeOK, NEW s \in Servers,
         \/ Elect(s) \/ Replicate(s) \/ Snapshot(s) \/ PersistFails(s) \/ RemovePeers(s)
  PROVE  TypeOK' /\ UNCHANGED tableVars
<1>1. CASE Elect(s)
  BY <1>1 DEF TypeOK, Elect, tableVars, Nothing
<1>2. CASE Replicate(s)
  <2>1. received' = [received EXCEPT ![s] = received[s] + 1]
    BY <1>2 DEF Replicate
  <2>2. received[s] + 1 \in 0..Len(log)
    BY SMT, <1>2 DEF TypeOK, Replicate
  <2>3. received' \in [Servers -> 0..Len(log)]
    BY <2>1, <2>2 DEF TypeOK
  <2> QED
    BY <1>2, <2>3 DEF TypeOK, Replicate, tableVars, Nothing
<1>3. CASE Snapshot(s)
  <2>1. taking' \in [Servers -> (0..Len(log)) \cup {Nothing}]
    BY <1>3 DEF TypeOK, Snapshot
  <2> QED
    BY <1>3, <2>1 DEF TypeOK, Snapshot, tableVars, Nothing
<1>4. CASE PersistFails(s)
  <2>1. taking' \in [Servers -> (0..Len(log)) \cup {Nothing}]
    BY <1>4 DEF TypeOK, PersistFails
  <2> QED
    BY <1>4, <2>1 DEF TypeOK, PersistFails, tableVars, Nothing
<1>5. CASE RemovePeers(s)
  BY <1>5 DEF TypeOK, RemovePeers, tableVars, Nothing
<1> QED
  BY <1>1, <1>2, <1>3, <1>4, <1>5

\* The FSM goroutine applies an entry of the log.
LEMMA ApplyNextType ==
  ASSUME TypeOK, NEW s \in Servers, NEW tick \in Nat, ApplyNext(s, tick)
  PROVE  /\ TypeOK' /\ Frame(s)
         /\ applied[s] + 1 \in 1..Len(log) /\ log[applied[s] + 1] \in Command
         /\ applied'[s] = applied[s] + 1 /\ snap' = snap /\ clean' = clean
         /\ store'[s] = ApplyCommand(store[s], log[applied[s] + 1], tick)
<1> DEFINE i == applied[s] + 1
           t == ApplyCommand(store[s], log[i], tick)
<1>1. i \in 1..Len(log) /\ i \in 0..Len(log) /\ log[i] \in Command
  BY SMT DEF TypeOK, ApplyNext
<1>2. t \in Tables
  <2>1. store[s] \in Tables
    BY DEF TypeOK
  <2> QED
    BY <1>1, <2>1, ApplyType
<1>3. store' = [store EXCEPT ![s] = t] /\ applied' = [applied EXCEPT ![s] = i]
  BY DEF ApplyNext
<1>4. /\ log' = log /\ leader' = leader /\ up' = up /\ received' = received /\ snap' = snap
      /\ taking' = taking /\ clean' = clean /\ s \in up
  BY DEF ApplyNext
<1> HIDE DEF i, t
<1>5. store' \in [Servers -> Tables] /\ applied' \in [Servers -> 0..Len(log)]
  BY <1>1, <1>2, <1>3 DEF TypeOK
<1>6. \A r \in Servers \ {s} : store'[r] = store[r] /\ applied'[r] = applied[r]
  BY <1>3 DEF TypeOK
<1>7. store'[s] = t /\ applied'[s] = i
  BY <1>3 DEF TypeOK
<1>8. TypeOK'
  BY <1>4, <1>5, <1>6 DEF TypeOK, Nothing
<1>9. Frame(s)
  BY <1>4, <1>6 DEF Frame
<1> QED
  BY <1>1, <1>4, <1>7, <1>8, <1>9 DEF i, t

\* Persist saves well-formed tables, those between two transactions included.
LEMMA PersistType ==
  ASSUME TypeOK, NEW s \in Servers, NEW saved \in Tables, Persist(s, saved)
  PROVE  /\ TypeOK' /\ Frame(s) /\ store' = store /\ applied' = applied /\ clean' = clean
         /\ snap'[s] = [index |-> taking[s], tables |-> saved,
                        clean |-> clean[s] /\ applied[s] = taking[s] /\ saved = store[s]]
<1> DEFINE r == [index |-> taking[s], tables |-> saved,
                 clean |-> clean[s] /\ applied[s] = taking[s] /\ saved = store[s]]
<1>1. taking[s] \in 0..Len(log)
  BY DEF TypeOK, Persist
<1>2. r \in [index : 0..Len(log), tables : Tables, clean : BOOLEAN]
  BY <1>1
<1>3. snap' = [snap EXCEPT ![s] = r]
  BY DEF Persist
<1> HIDE DEF r
<1>4. /\ log' = log /\ leader' = leader /\ up' = up /\ received' = received /\ store' = store
      /\ applied' = applied /\ clean' = clean /\ taking' = [taking EXCEPT ![s] = Nothing]
  BY DEF Persist
<1>5. taking' \in [Servers -> (0..Len(log)) \cup {Nothing}]
  BY <1>4 DEF TypeOK
<1>6. snap' \in [Servers -> [index : 0..Len(log), tables : Tables, clean : BOOLEAN]]
  BY <1>2, <1>3 DEF TypeOK
<1>7. \A q \in Servers \ {s} : snap'[q] = snap[q]
  BY <1>3 DEF TypeOK
<1>8. snap'[s] = r
  BY <1>3 DEF TypeOK
<1>9. TypeOK'
  BY <1>4, <1>5, <1>6 DEF TypeOK, Nothing
<1>10. Frame(s)
  BY <1>4, <1>7 DEF Frame
<1> QED
  BY <1>4, <1>8, <1>9, <1>10 DEF r

\* What Persist may find between two transactions.
LEMMA BetweenType ==
  ASSUME TypeOK, NEW s \in Servers, NEW tick \in Nat
  PROVE  Between(s, tick) \subseteq Tables
<1>1. CASE applied[s] < received[s]
  <2>1. log[applied[s] + 1] \in Command
    BY SMT, <1>1 DEF TypeOK
  <2>2. store[s] \in Tables
    BY DEF TypeOK
  <2> QED
    BY <1>1, <2>1, <2>2, HalvesType DEF Between
<1>2. CASE ~(applied[s] < received[s])
  BY <1>2 DEF Between
<1> QED
  BY <1>1, <1>2

\* A server that gets the leader's snapshot restores it over its store.
LEMMA InstallType ==
  ASSUME TypeOK, NEW s \in Servers, InstallSnapshot(s)
  PROVE  /\ TypeOK' /\ Frame(s) /\ leader \in Servers
         /\ snap'[s] = snap[leader] /\ applied'[s] = snap[leader].index
         /\ clean'[s] => snap[leader].clean /\ store'[s] = snap[leader].tables
<1> DEFINE r == snap[leader]
           t == Load(store[s], r.tables)
<1>1. leader \in Servers
  BY DEF TypeOK, InstallSnapshot
<1>2. r \in [index : 0..Len(log), tables : Tables, clean : BOOLEAN]
  BY <1>1 DEF TypeOK
<1>3. r.index \in 0..Len(log) /\ r.tables \in Tables /\ r.clean \in BOOLEAN
  BY <1>2
<1>4. t \in Tables
  <2>1. store[s] \in Tables
    BY DEF TypeOK
  <2> QED
    BY <1>3, <2>1, LoadType
<1>5. store' = [store EXCEPT ![s] = t]
  BY DEF InstallSnapshot
<1>6. store' \in [Servers -> Tables] /\ store'[s] = t /\ \A q \in Servers \ {s} : store'[q] = store[q]
  <2> HIDE DEF t
  <2> QED
    BY <1>4, <1>5 DEF TypeOK
<1>7. /\ log' = log /\ leader' = leader /\ up' = up /\ taking' = taking /\ s \in up
      /\ snap' = [snap EXCEPT ![s] = r]
      /\ applied' = [applied EXCEPT ![s] = r.index]
      /\ received' = [received EXCEPT ![s] = r.index]
      /\ clean' = [clean EXCEPT ![s] = r.clean /\ store'[s] = r.tables]
  BY DEF InstallSnapshot
<1> HIDE DEF r, t
<1>8. /\ snap' \in [Servers -> [index : 0..Len(log), tables : Tables, clean : BOOLEAN]]
      /\ snap'[s] = r /\ \A q \in Servers \ {s} : snap'[q] = snap[q]
  BY <1>2, <1>7 DEF TypeOK
<1>9. /\ applied' \in [Servers -> 0..Len(log)]
      /\ applied'[s] = r.index /\ \A q \in Servers \ {s} : applied'[q] = applied[q]
  BY <1>3, <1>7 DEF TypeOK
<1>10. received' \in [Servers -> 0..Len(log)]
  BY <1>3, <1>7 DEF TypeOK
<1>11. /\ clean' \in [Servers -> BOOLEAN]
       /\ clean'[s] = (r.clean /\ store'[s] = r.tables)
       /\ \A q \in Servers \ {s} : clean'[q] = clean[q]
  <2> DEFINE b == r.clean /\ store'[s] = r.tables
  <2>1. b \in BOOLEAN /\ clean' = [clean EXCEPT ![s] = b]
    BY <1>3, <1>7
  <2> HIDE DEF b
  <2>2. /\ clean' \in [Servers -> BOOLEAN] /\ clean'[s] = b
        /\ \A q \in Servers \ {s} : clean'[q] = clean[q]
    BY <2>1 DEF TypeOK
  <2> QED
    BY <2>2 DEF b
<1>12. TypeOK'
  <2>1. \A q \in Servers \ up' : store'[q] = Blank
    BY <1>6, <1>7 DEF TypeOK
  <2>2. log' \in Seq(Command) /\ leader' \in Servers \cup {NoServer} /\ up' \subseteq Servers
    BY <1>7 DEF TypeOK
  <2>3. taking' \in [Servers -> (0..Len(log)) \cup {Nothing}]
    BY <1>7 DEF TypeOK
  <2> QED
    BY <1>6, <1>7, <1>8, <1>9, <1>10, <1>11, <2>1, <2>2, <2>3 DEF TypeOK, Nothing
<1>13. Frame(s)
  BY <1>6, <1>7, <1>8, <1>9, <1>11 DEF Frame
<1> QED
  BY <1>1, <1>8, <1>9, <1>11, <1>12, <1>13 DEF r

\* A crash loses the store.
LEMMA CrashType ==
  ASSUME TypeOK, NEW s \in Servers, NEW file, Crash(s, file)
  PROVE  TypeOK' /\ Frame(s) /\ store'[s] = Blank /\ applied'[s] = 0 /\ snap' = snap
<1>1. /\ log' = log /\ leader' \in {leader, NoServer} /\ up' = up \ {s}
      /\ received' = received /\ snap' = snap
      /\ store' = [store EXCEPT ![s] = Blank] /\ applied' = [applied EXCEPT ![s] = 0]
      /\ taking' = [taking EXCEPT ![s] = Nothing] /\ clean' = [clean EXCEPT ![s] = TRUE]
  BY DEF Crash
<1>2. 0 \in 0..Len(log)
  BY SMT DEF TypeOK
<1>3. /\ store' \in [Servers -> Tables] /\ store'[s] = Blank
      /\ \A q \in Servers \ {s} : store'[q] = store[q]
  BY <1>1, BlankType DEF TypeOK
<1>4. /\ applied' \in [Servers -> 0..Len(log)] /\ applied'[s] = 0
      /\ \A q \in Servers \ {s} : applied'[q] = applied[q]
  BY <1>1, <1>2 DEF TypeOK
<1>5. taking' \in [Servers -> (0..Len(log)) \cup {Nothing}]
  BY <1>1 DEF TypeOK
<1>6. clean' \in [Servers -> BOOLEAN] /\ \A q \in Servers \ {s} : clean'[q] = clean[q]
  BY <1>1 DEF TypeOK
<1>7. TypeOK'
  <2>1. leader' \in Servers \cup {NoServer} /\ up' \subseteq Servers
    BY <1>1 DEF TypeOK
  <2>2. \A q \in Servers \ up' : store'[q] = Blank
    BY <1>1, <1>3 DEF TypeOK
  <2> QED
    BY <1>1, <1>3, <1>4, <1>5, <1>6, <2>1, <2>2 DEF TypeOK, Nothing
<1>8. Frame(s)
  BY <1>1, <1>3, <1>4, <1>6 DEF Frame
<1> QED
  BY <1>1, <1>3, <1>4, <1>7, <1>8

\* A start restores the latest snapshot into a new store.
LEMMA StartType ==
  ASSUME TypeOK, NEW s \in Servers, Start(s)
  PROVE  /\ TypeOK' /\ Frame(s) /\ snap' = snap
         /\ store'[s] = snap[s].tables /\ applied'[s] = snap[s].index /\ clean'[s] = snap[s].clean
<1> DEFINE r == snap[s]
<1>1. r.index \in 0..Len(log) /\ r.tables \in Tables /\ r.clean \in BOOLEAN
  <2>1. r \in [index : 0..Len(log), tables : Tables, clean : BOOLEAN]
    BY DEF TypeOK
  <2> QED
    BY <2>1
<1>2. store[s] = Blank
  BY DEF TypeOK, Start
<1>3. store' = [store EXCEPT ![s] = r.tables]
  <2>1. store' = [store EXCEPT ![s] = Load(store[s], r.tables)]
    BY DEF Start
  <2> QED
    BY <1>1, <1>2, <2>1, LoadBlank
<1>4. /\ log' = log /\ leader' = leader /\ up' = up \cup {s} /\ received' = received
      /\ snap' = snap /\ taking' = taking
      /\ applied' = [applied EXCEPT ![s] = r.index] /\ clean' = [clean EXCEPT ![s] = r.clean]
  BY DEF Start
<1> HIDE DEF r
<1>5. /\ store' \in [Servers -> Tables] /\ store'[s] = r.tables
      /\ \A q \in Servers \ {s} : store'[q] = store[q]
  BY <1>1, <1>3 DEF TypeOK
<1>6. /\ applied' \in [Servers -> 0..Len(log)] /\ applied'[s] = r.index
      /\ \A q \in Servers \ {s} : applied'[q] = applied[q]
  BY <1>1, <1>4 DEF TypeOK
<1>7. /\ clean' \in [Servers -> BOOLEAN] /\ clean'[s] = r.clean
      /\ \A q \in Servers \ {s} : clean'[q] = clean[q]
  BY <1>1, <1>4 DEF TypeOK
<1>8. TypeOK'
  BY <1>4, <1>5, <1>6, <1>7 DEF TypeOK, Nothing
<1>9. Frame(s)
  BY <1>4, <1>5, <1>6, <1>7 DEF Frame
<1> QED
  BY <1>4, <1>5, <1>6, <1>7, <1>8, <1>9 DEF r

-----------------------------------------------------------------------------
(* The history of the log. *)

\* h[i] are the tables after the first i entries of the log, by a clock that
\* stands still.
History(h) ==
  /\ h \in [0..Len(log) -> Tables]
  /\ h[0] = Blank
  /\ \A i \in 1..Len(log) : h[i] = ApplyCommand(h[i - 1], log[i], 0)

\* What a server and its snapshot hold is the history at their index, Next
\* aside, if they come from the log alone.
Follows(h, s) ==
  /\ clean[s] => AlikeTables(store[s], h[applied[s]])
  /\ snap[s].clean => AlikeTables(snap[s].tables, h[snap[s].index])

\* The inductive invariant.
HistoryInv == TypeOK /\ \E h : History(h) /\ \A s \in Servers : Follows(h, s)

\* A step of one server, after which that server follows the history.
LEMMA FollowsStep ==
  ASSUME TypeOK, TypeOK', NEW s \in Servers, Frame(s), NEW h, History(h),
         \A r \in Servers : Follows(h, r), Follows(h, s)'
  PROVE  HistoryInv'
<1>1. History(h)'
  BY DEF Frame, History
<1>2. ASSUME NEW r \in Servers PROVE Follows(h, r)'
  <2>1. CASE r = s
    BY <2>1
  <2>2. CASE r # s
    BY <2>2 DEF Frame, Follows
  <2> QED
    BY <2>1, <2>2
<1> QED
  BY <1>1, <1>2 DEF HistoryInv

\* A command that is submitted makes the history longer.
LEMMA HistorySubmit ==
  ASSUME HistoryInv, NEW c \in Commands, Submit(c)
  PROVE  HistoryInv'
<1>1. TypeOK /\ TypeOK'
  BY TypeSubmit DEF HistoryInv
<1>2. PICK h : History(h) /\ \A s \in Servers : Follows(h, s)
  BY DEF HistoryInv
<1> DEFINE n == Len(log)
<1>. PICK longer :
       longer = [i \in 0..(n + 1) |-> IF i = n + 1 THEN ApplyCommand(h[n], c, 0) ELSE h[i]]
  OBVIOUS
<1>3. c \in Command /\ log \in Seq(Command) /\ log' = Append(log, c)
  BY <1>1, ReplicasAssumption DEF TypeOK, Submit
<1>4. /\ n \in Nat /\ Len(log)' = n + 1 /\ log'[n + 1] = c
      /\ \A i \in 1..n : log'[i] = log[i]
  BY SMT, <1>3
<1>5. \A i \in 0..n : i \in 0..(n + 1) /\ i # n + 1
  BY SMT, <1>4
<1>6. \A i \in 0..n : longer[i] = h[i]
  BY <1>5
<1>7. n + 1 \in 0..(n + 1) /\ n \in 0..n /\ 0 \in 0..n /\ (n + 1) - 1 = n /\ 0 \in Nat
  BY SMT, <1>4
<1>8. longer[n + 1] = ApplyCommand(h[n], c, 0)
  BY <1>7
<1>9. History(longer)'
  <2>1. ApplyCommand(h[n], c, 0) \in Tables
    <3>1. h[n] \in Tables
      BY <1>2, <1>7 DEF History
    <3> QED
      BY <1>3, <1>7, <3>1, ApplyType
  <2>2. longer \in [0..(n + 1) -> Tables]
    <3>1. \A i \in 0..(n + 1) : i = n + 1 \/ i \in 0..n
      BY SMT, <1>4
    <3>2. \A i \in 0..n : h[i] \in Tables
      BY <1>2 DEF History
    <3> QED
      BY <2>1, <3>1, <3>2
  <2>3. longer[0] = Blank
    BY <1>2, <1>6, <1>7 DEF History
  <2>4. ASSUME NEW i \in 1..(n + 1)
        PROVE  longer[i] = ApplyCommand(longer[i - 1], log'[i], 0)
    <3>1. CASE i = n + 1
      BY <1>4, <1>6, <1>7, <1>8, <3>1
    <3>2. CASE i # n + 1
      <4>1. i \in 1..n /\ i \in 0..n /\ i - 1 \in 0..n
        BY SMT, <1>4, <3>2
      <4>2. h[i] = ApplyCommand(h[i - 1], log[i], 0)
        BY <1>2, <4>1 DEF History
      <4> QED
        BY <1>4, <1>6, <4>1, <4>2
    <3> QED
      BY <3>1, <3>2
  <2> QED
    BY <1>4, <2>2, <2>3, <2>4 DEF History
<1>10. ASSUME NEW s \in Servers PROVE Follows(longer, s)'
  <2>1. applied[s] \in 0..n /\ snap[s].index \in 0..n
    BY <1>1 DEF TypeOK
  <2>2. Follows(h, s)
    BY <1>2
  <2> QED
    BY <1>6, <2>1, <2>2 DEF Follows, Submit
<1> QED
  BY <1>1, <1>9, <1>10 DEF HistoryInv

\* Every step of a server keeps to the history.
LEMMA HistoryServer ==
  ASSUME HistoryInv, NEW s \in Servers,
         \/ Progress(s) \/ Snapshot(s) \/ PersistFails(s)
         \/ \E tick \in Clock[s] : \E saved \in Between(s, tick) : Persist(s, saved)
         \/ \E file \in Files \cup {"none"} : Crash(s, file)
  PROVE  HistoryInv'
<1>1. TypeOK
  BY DEF HistoryInv
<1>2. PICK h : History(h) /\ \A r \in Servers : Follows(h, r)
  BY DEF HistoryInv
<1>3. Follows(h, s)
  BY <1>2
<1>4. Clock[s] \subseteq Nat
  BY ReplicasAssumption
<1>5. CASE Elect(s) \/ Replicate(s) \/ Snapshot(s) \/ PersistFails(s) \/ RemovePeers(s)
  <2>1. TypeOK' /\ UNCHANGED tableVars
    BY <1>1, <1>5, QuietType
  <2>2. Frame(s)
    BY <2>1, Untouched
  <2>3. Follows(h, s)'
    BY <1>3, <2>1 DEF Follows, tableVars
  <2> QED
    BY <1>1, <1>2, <2>1, <2>2, <2>3, FollowsStep
<1>6. ASSUME NEW tick \in Clock[s], ApplyNext(s, tick) PROVE HistoryInv'
  <2> DEFINE i == applied[s] + 1
  <2>1. /\ TypeOK' /\ Frame(s) /\ i \in 1..Len(log) /\ log[i] \in Command
        /\ applied'[s] = i /\ snap' = snap /\ clean' = clean
        /\ store'[s] = ApplyCommand(store[s], log[i], tick)
    BY <1>1, <1>4, <1>6, ApplyNextType
  <2>2. h[i] = ApplyCommand(h[applied[s]], log[i], 0)
    <3>1. i - 1 = applied[s]
      BY SMT, <1>1 DEF TypeOK
    <3> QED
      BY <1>2, <2>1, <3>1 DEF History
  <2>3. ASSUME clean[s] PROVE AlikeTables(store'[s], h[i])
    <3>1. AlikeTables(store[s], h[applied[s]])
      BY <1>3, <2>3 DEF Follows
    <3>2. tick \in Nat /\ 0 \in Nat
      BY SMT, <1>4
    <3>3. AlikeTables(ApplyCommand(store[s], log[i], tick), ApplyCommand(h[applied[s]], log[i], 0))
      BY <2>1, <3>1, <3>2, ApplyAlike
    <3> QED
      BY <2>1, <2>2, <3>3
  <2>4. Follows(h, s)'
    BY <1>3, <2>1, <2>3 DEF Follows
  <2> QED
    BY <1>1, <1>2, <2>1, <2>4, FollowsStep
<1>7. ASSUME NEW saved \in Tables, Persist(s, saved) PROVE HistoryInv'
  <2> DEFINE r == [index |-> taking[s], tables |-> saved,
                   clean |-> clean[s] /\ applied[s] = taking[s] /\ saved = store[s]]
  <2>1. /\ TypeOK' /\ Frame(s) /\ store' = store /\ applied' = applied /\ clean' = clean
        /\ snap'[s] = r
    BY <1>1, <1>7, PersistType
  <2>2. /\ r.index = taking[s] /\ r.tables = saved
        /\ r.clean = (clean[s] /\ applied[s] = taking[s] /\ saved = store[s])
    OBVIOUS
  <2> HIDE DEF r
  <2>3. Follows(h, s)'
    BY <1>3, <2>1, <2>2 DEF Follows
  <2> QED
    BY <1>1, <1>2, <2>1, <2>3, FollowsStep
<1>8. CASE InstallSnapshot(s)
  <2>1. /\ TypeOK' /\ Frame(s) /\ leader \in Servers
        /\ snap'[s] = snap[leader] /\ applied'[s] = snap[leader].index
        /\ clean'[s] => snap[leader].clean /\ store'[s] = snap[leader].tables
    BY <1>1, <1>8, InstallType
  <2>2. snap[leader].clean => AlikeTables(snap[leader].tables, h[snap[leader].index])
    BY <1>2, <2>1 DEF Follows
  <2>3. Follows(h, s)'
    BY <2>1, <2>2 DEF Follows
  <2> QED
    BY <1>1, <1>2, <2>1, <2>3, FollowsStep
<1>9. ASSUME NEW file, Crash(s, file) PROVE HistoryInv'
  <2>1. TypeOK' /\ Frame(s) /\ store'[s] = Blank /\ applied'[s] = 0 /\ snap' = snap
    BY <1>1, <1>9, CrashType
  <2>2. AlikeTables(Blank, h[0])
    BY <1>2, BlankType, AlikeSelf DEF History
  <2>3. Follows(h, s)'
    BY <1>3, <2>1, <2>2 DEF Follows
  <2> QED
    BY <1>1, <1>2, <2>1, <2>3, FollowsStep
<1>10. CASE Start(s)
  <2>1. /\ TypeOK' /\ Frame(s) /\ snap' = snap
        /\ store'[s] = snap[s].tables /\ applied'[s] = snap[s].index /\ clean'[s] = snap[s].clean
    BY <1>1, <1>10, StartType
  <2>2. Follows(h, s)'
    BY <1>3, <2>1 DEF Follows
  <2> QED
    BY <1>1, <1>2, <2>1, <2>2, FollowsStep
<1>11. store[s] \in Tables
  BY <1>1 DEF TypeOK
<1>12. \A tick \in Clock[s] : Between(s, tick) \subseteq Tables
  BY <1>1, <1>4, BetweenType
<1>13. CASE Progress(s)
  BY <1>5, <1>6, <1>7, <1>8, <1>10, <1>11, <1>13 DEF Progress
<1>14. CASE \E tick \in Clock[s] : \E saved \in Between(s, tick) : Persist(s, saved)
  BY <1>7, <1>12, <1>14
<1> QED
  BY <1>5, <1>9, <1>13, <1>14

\* Every reachable state has a history that explains it.
LEMMA HistoryInvariant == Spec => []HistoryInv
<1>1. Init => HistoryInv
  <2> SUFFICES ASSUME Init PROVE HistoryInv
    OBVIOUS
  <2>1. Len(log) = 0 /\ log \in Seq(Command)
    BY SMT DEF Init
  <2>2. 0..0 = {0} /\ 1..0 = {}
    BY SMT
  <2>3. TypeOK
    BY <2>1, <2>2, BlankType DEF Init, TypeOK, Nothing
  <2> DEFINE h == [i \in 0..0 |-> Blank]
  <2>4. h[0] = Blank /\ h \in [0..0 -> Tables]
    BY <2>2, BlankType
  <2> HIDE DEF h
  <2>5. History(h)
    BY <2>1, <2>2, <2>4 DEF History
  <2>6. \A s \in Servers : Follows(h, s)
    BY <2>4, BlankType, AlikeSelf DEF Init, Follows
  <2> QED
    BY <2>3, <2>5, <2>6 DEF HistoryInv
<1>2. HistoryInv /\ [Next]_vars => HistoryInv'
  <2> SUFFICES ASSUME HistoryInv, [Next]_vars PROVE HistoryInv'
    OBVIOUS
  <2>1. CASE UNCHANGED vars
    BY <2>1 DEF HistoryInv, TypeOK, History, Follows, vars, Nothing
  <2>2. CASE Next
    BY <2>2, HistorySubmit, HistoryServer DEF Next
  <2> QED
    BY <2>1, <2>2
<1> QED
  BY <1>1, <1>2, PTL DEF Spec

\* The tables of every server, and those of every snapshot, are well formed,
\* also when a snapshot was saved between two transactions of a command.
THEOREM TablesSafe == Spec => []TypeOK
<1>1. HistoryInv => TypeOK
  BY DEF HistoryInv
<1> QED
  BY <1>1, HistoryInvariant, PTL

\* Tables that differ at most in Next are the same when Next is forgotten.
LEMMA ForgetAlike ==
  ASSUME NEW t, NEW u, NEW v, AlikeTables(t, v), AlikeTables(u, v)
  PROVE  Forget(t) = Forget(u)
<1> DEFINE j == [n \in Names |-> [t.jobs[n] EXCEPT !.next = 0]]
           k == [n \in Names |-> [u.jobs[n] EXCEPT !.next = 0]]
<1>1. t \in Tables /\ u \in Tables /\ t.execs = u.execs
  BY DEF AlikeTables
<1>2. ASSUME NEW n \in Names PROVE [t.jobs[n] EXCEPT !.next = 0] = [u.jobs[n] EXCEPT !.next = 0]
  <2> DEFINE a == t.jobs[n]
             b == u.jobs[n]
  <2>1. a \in Job /\ SameJob(a, v.jobs[n])
    BY AlikeJobs DEF AlikeTables
  <2>2. b \in Job /\ SameJob(b, v.jobs[n])
    BY AlikeJobs DEF AlikeTables
  <2>3. SameJob(a, b)
    BY <2>1, <2>2 DEF SameJob
  <2> HIDE DEF a, b
  <2>4. [a EXCEPT !.next = 0] = [b EXCEPT !.next = 0]
    BY SMT, <2>1, <2>2, <2>3 DEF SameJob, Job
  <2> QED
    BY <2>4 DEF a, b
<1>3. j = k
  BY <1>2
<1>4. Forget(t) = [t EXCEPT !.jobs = j] /\ Forget(u) = [u EXCEPT !.jobs = k]
  BY DEF Forget
<1> HIDE DEF j, k
<1>5. [t EXCEPT !.jobs = j] = [jobs |-> j, execs |-> t.execs]
  BY <1>1, TablesExcept
<1>6. [u EXCEPT !.jobs = k] = [jobs |-> k, execs |-> u.execs]
  BY <1>1, TablesExcept
<1> QED
  BY <1>1, <1>3, <1>4, <1>5, <1>6

\* Servers that applied the same entries hold the same tables, Next aside,
\* through snapshots, crashes, restarts and installed snapshots, whatever their
\* clocks, as long as no snapshot was saved after further commands or loaded over
\* keys it does not have (fsm.go:133-161, store.go:585-592).
THEOREM ReplicasAgree == Spec => []SameLogSameTables
<1>1. ASSUME HistoryInv PROVE SameLogSameTables
  <2>1. PICK h : \A s \in Servers : Follows(h, s)
    BY <1>1 DEF HistoryInv
  <2> SUFFICES ASSUME NEW s \in up, NEW t \in up, clean[s], clean[t], applied[s] = applied[t]
               PROVE  Forget(store[s]) = Forget(store[t])
    BY DEF SameLogSameTables
  <2>2. s \in Servers /\ t \in Servers
    BY <1>1 DEF HistoryInv, TypeOK
  <2>3. AlikeTables(store[s], h[applied[s]]) /\ AlikeTables(store[t], h[applied[s]])
    BY <2>1, <2>2 DEF Follows
  <2> QED
    BY <2>3, ForgetAlike
<1> QED
  BY <1>1, HistoryInvariant, PTL

=============================================================================
