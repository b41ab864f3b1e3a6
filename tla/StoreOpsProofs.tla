--------------------------- MODULE StoreOpsProofs ---------------------------
(***************************************************************************)
(* What the operators of StoreOps return, for every set of names, every    *)
(* table and every job: the facts that the proofs about the modules built  *)
(* on them share.                                                          *)
(***************************************************************************)
EXTENDS StoreOps, TLAPS

\* Zenon checks every step that does not name SMT.
USE Zenon

Tables == [Names -> Job]

\* Two jobs that differ at most in their dependents.
SameButDeps(f, g) ==
  /\ g.stored = f.stored
  /\ g.parent = f.parent
  /\ g.status = f.status
  /\ g.successCount = f.successCount
  /\ g.errorCount = f.errorCount

-----------------------------------------------------------------------------
(* Lemmas about the store's operators. *)

\* The zero job is a job.
LEMMA ZeroJobType == ZeroJob \in Job
  BY StoreAssumption DEF ZeroJob, Job, NoDeps, Status, NoName, NoSchedule

\* What SetJob's transaction writes is a job.
LEMMA MergeType ==
  ASSUME NEW job \in Job, NEW ej \in Job, NEW copy \in BOOLEAN, NEW tick \in Nat
  PROVE  Merge(job, ej, copy, tick) \in Job
  BY DEF Merge, Job, Larger, KeepStatus

\* Writing a parent with new dependents changes nothing else of any job.
LEMMA SaveParentFrame ==
  ASSUME NEW jb \in Tables, NEW p \in Names, jb[p].stored,
         NEW deps \in [Names -> Nat]
  PROVE  LET r == SaveParent(jb, p, deps)
         IN /\ r.jobs \in Tables
            /\ \A m \in Names : SameButDeps(jb[m], r.jobs[m])
            /\ \A m \in Names \ {p} : r.jobs[m] = jb[m]
            /\ ParentFound(jb, jb[p]) =>
                 r.err = "none" /\ r.jobs[p].deps = deps
            /\ ~ParentFound(jb, jb[p]) =>
                 r.err = "ErrParentJobNotFound" /\ r.jobs = jb
  <1> DEFINE new == Merge([jb[p] EXCEPT !.deps = deps], jb[p], FALSE, 0)
  <1>1. jb[p] \in Job /\ [jb[p] EXCEPT !.deps = deps] \in Job
    BY DEF Tables, Job
  <1>2. new \in Job
    BY <1>1, MergeType
  <1>3. SameButDeps(jb[p], new) /\ new.deps = deps
    BY <1>1 DEF Merge, Larger, KeepStatus, SameButDeps, Job
  <1>4. CASE ParentFound(jb, jb[p])
    <2>1. SaveParent(jb, p, deps) = [jobs |-> [jb EXCEPT ![p] = new], err |-> "none"]
      BY <1>4 DEF SaveParent
    <2>2. [jb EXCEPT ![p] = new] \in Tables
      BY <1>2 DEF Tables
    <2>3. \A m \in Names \ {p} : [jb EXCEPT ![p] = new][m] = jb[m]
      BY DEF Tables
    <2>4. [jb EXCEPT ![p] = new][p] = new
      BY DEF Tables
    <2>5. \A m \in Names : SameButDeps(jb[m], [jb EXCEPT ![p] = new][m])
      <3> TAKE m \in Names
      <3>1. CASE m = p
        BY <1>3, <2>4, <3>1
      <3>2. CASE m # p
        BY <2>3, <3>2 DEF SameButDeps
      <3> QED
        BY <3>1, <3>2
    <2> HIDE DEF new
    <2> QED
      BY SMT, <1>3, <1>4, <2>1, <2>2, <2>3, <2>4, <2>5
  <1>5. CASE ~ParentFound(jb, jb[p])
    BY <1>5 DEF SaveParent, SameButDeps
  <1> QED
    BY <1>4, <1>5

\* The outcomes of the updates of a parent, of SetJob and of DeleteJob.
ParentResponses == {"none", "ErrParentJobNotFound"}
SetResponses == ParentResponses \cup {"invalid"}
DeleteResponses == ParentResponses \cup {"ErrNotFound", "ErrDependentJobs"}

\* removeFromParent changes the dependents of the parent only.
LEMMA RemoveFromParentFrame ==
  ASSUME NEW jb \in Tables, NEW n \in Names, NEW p \in Names \cup {NoName}
  PROVE  LET r == RemoveFromParent(jb, n, p)
         IN /\ r.jobs \in Tables
            /\ r.err \in ParentResponses
            /\ \A m \in Names : SameButDeps(jb[m], r.jobs[m])
            /\ \A m \in Names \ {p} : r.jobs[m] = jb[m]
            /\ p = NoName => r.err = "none" /\ r.jobs = jb
            /\ p # NoName /\ jb[p].stored /\ ParentFound(jb, jb[p]) =>
                 /\ r.err = "none"
                 /\ r.jobs[p].deps[n] = 0
                 /\ \A c \in Names \ {n} : r.jobs[p].deps[c] = jb[p].deps[c]
  <1>1. CASE p = NoName
    BY <1>1 DEF RemoveFromParent, SameButDeps, ParentResponses
  <1>2. CASE p # NoName /\ ~jb[p].stored
    BY <1>2 DEF RemoveFromParent, SameButDeps, ParentResponses
  <1>3. CASE p # NoName /\ jb[p].stored
    <2> DEFINE deps == [jb[p].deps EXCEPT ![n] = 0]
    <2>1. p \in Names /\ jb[p] \in Job /\ deps \in [Names -> Nat]
      BY <1>3 DEF Tables, Job
    <2>2. RemoveFromParent(jb, n, p) = SaveParent(jb, p, deps)
      BY <1>3 DEF RemoveFromParent
    <2>a. deps[n] = 0 /\ \A c \in Names \ {n} : deps[c] = jb[p].deps[c]
      BY <2>1 DEF Job
    <2> HIDE DEF deps
    <2>3. LET r == SaveParent(jb, p, deps)
          IN /\ r.jobs \in Tables
             /\ r.err \in ParentResponses
             /\ \A m \in Names : SameButDeps(jb[m], r.jobs[m])
             /\ \A m \in Names \ {p} : r.jobs[m] = jb[m]
             /\ ParentFound(jb, jb[p]) => r.err = "none" /\ r.jobs[p].deps = deps
      BY SMT, <1>3, <2>1, SaveParentFrame DEF ParentResponses
    <2> QED
      BY ZenonT(60), <1>3, <2>a, <2>2, <2>3
  <1> QED
    BY <1>1, <1>2, <1>3

\* addToParent changes the dependents of the parent only.
LEMMA AddToParentFrame ==
  ASSUME NEW jb \in Tables, NEW n \in Names, NEW p \in Names \cup {NoName}
  PROVE  LET r == AddToParent(jb, n, p)
         IN /\ r.jobs \in Tables
            /\ r.err \in ParentResponses
            /\ \A m \in Names : SameButDeps(jb[m], r.jobs[m])
            /\ \A m \in Names \ {p} : r.jobs[m] = jb[m]
            /\ p = NoName => r.err = "none" /\ r.jobs = jb
            /\ p # NoName /\ jb[p].stored /\ ParentFound(jb, jb[p]) =>
                 /\ r.err = "none"
                 /\ r.jobs[p].deps[n] = jb[p].deps[n] + 1
                 /\ \A c \in Names \ {n} : r.jobs[p].deps[c] = jb[p].deps[c]
  <1>1. CASE p = NoName
    BY <1>1 DEF AddToParent, SameButDeps, ParentResponses
  <1>2. CASE p # NoName /\ ~jb[p].stored
    BY <1>2 DEF AddToParent, SameButDeps, ParentResponses
  <1>3. CASE p # NoName /\ jb[p].stored
    <2> DEFINE deps == [jb[p].deps EXCEPT ![n] = @ + 1]
    <2>1. p \in Names /\ jb[p] \in Job /\ deps \in [Names -> Nat]
      BY SMT, <1>3 DEF Tables, Job
    <2>2. AddToParent(jb, n, p) = SaveParent(jb, p, deps)
      BY <1>3 DEF AddToParent
    <2>a. /\ deps[n] = jb[p].deps[n] + 1
          /\ \A c \in Names \ {n} : deps[c] = jb[p].deps[c]
      BY <2>1 DEF Job
    <2> HIDE DEF deps
    <2>3. LET r == SaveParent(jb, p, deps)
          IN /\ r.jobs \in Tables
             /\ r.err \in ParentResponses
             /\ \A m \in Names : SameButDeps(jb[m], r.jobs[m])
             /\ \A m \in Names \ {p} : r.jobs[m] = jb[m]
             /\ ParentFound(jb, jb[p]) => r.err = "none" /\ r.jobs[p].deps = deps
      BY SMT, <1>3, <2>1, SaveParentFrame DEF ParentResponses
    <2> QED
      BY SMT, <1>3, <2>a, <2>2, <2>3
  <1> QED
    BY <1>1, <1>2, <1>3

\* Differing in the dependents only is transitive.
LEMMA SameButDepsTrans ==
  ASSUME NEW f, NEW g, NEW h, SameButDeps(f, g), SameButDeps(g, h)
  PROVE  SameButDeps(f, h)
  BY DEF SameButDeps

\* Moving a child between parents changes dependents only.
LEMMA MoveChildFrame ==
  ASSUME NEW jb \in Tables, NEW n \in Names,
         NEW old \in Names \cup {NoName}, NEW new \in Names \cup {NoName}
  PROVE  LET r == MoveChild(jb, n, old, new)
         IN /\ r.jobs \in Tables
            /\ r.err \in ParentResponses
            /\ \A m \in Names : SameButDeps(jb[m], r.jobs[m])
  <1> DEFINE removed == RemoveFromParent(jb, n, old)
             added == AddToParent(removed.jobs, n, new)
  <1>1. /\ removed.jobs \in Tables
        /\ removed.err \in ParentResponses
        /\ \A m \in Names : SameButDeps(jb[m], removed.jobs[m])
    BY RemoveFromParentFrame
  <1>2. /\ added.jobs \in Tables
        /\ added.err \in ParentResponses
        /\ \A m \in Names : SameButDeps(removed.jobs[m], added.jobs[m])
    BY <1>1, AddToParentFrame
  <1>3. \A m \in Names : SameButDeps(jb[m], added.jobs[m])
    BY <1>1, <1>2, SameButDepsTrans
  <1>4. CASE old = new
    BY <1>4 DEF MoveChild, SameButDeps, ParentResponses
  <1>5. CASE old # new /\ removed.err # "none"
    <2>1. MoveChild(jb, n, old, new) = removed
      BY <1>5 DEF MoveChild
    <2> QED
      BY <1>1, <2>1
  <1>6. CASE old # new /\ removed.err = "none"
    <2>1. MoveChild(jb, n, old, new) = added
      BY <1>6 DEF MoveChild
    <2> QED
      BY <1>2, <1>3, <2>1
  <1> QED
    BY <1>4, <1>5, <1>6

\* SetJob rewrites the job it is given; of any other job it changes at most
\* the dependents.
LEMMA SetJobFrame ==
  ASSUME NEW jb \in Tables, NEW n \in Names, NEW job \in Job, NEW tick \in Nat
  PROVE  LET r == SetJob(jb, n, job, FALSE, tick)
         IN /\ r.jobs \in Tables
            /\ r.err \in SetResponses
            /\ \A m \in Names \ {n} : SameButDeps(jb[m], r.jobs[m])
            /\ \/ SameButDeps(jb[n], r.jobs[n])
               \/ SameButDeps(Merge(job, jb[n], FALSE, tick), r.jobs[n])
  <1> DEFINE saved == [jb EXCEPT ![n] = Merge(job, @, FALSE, tick)]
             moved == MoveChild(saved, n, jb[n].parent, job.parent)
  <1>1. CASE ~Validate(n, job) \/ ~ParentFound(jb, job)
    BY <1>1 DEF SetJob, SameButDeps, ParentResponses, SetResponses
  <1>2. CASE Validate(n, job) /\ ParentFound(jb, job)
    <2>1. SetJob(jb, n, job, FALSE, tick) = moved
      BY <1>2 DEF SetJob
    <2>2. jb[n] \in Job
      BY DEF Tables
    <2>3. Merge(job, jb[n], FALSE, tick) \in Job
      BY <2>2, MergeType
    <2>4. /\ saved \in Tables
          /\ saved[n] = Merge(job, jb[n], FALSE, tick)
          /\ \A m \in Names \ {n} : saved[m] = jb[m]
      BY <2>3 DEF Tables
    <2>5. jb[n].parent \in Names \cup {NoName} /\ job.parent \in Names \cup {NoName}
      BY <2>2 DEF Job
    <2> HIDE DEF saved
    <2>6. /\ moved.jobs \in Tables
          /\ moved.err \in ParentResponses
          /\ \A m \in Names : SameButDeps(saved[m], moved.jobs[m])
      BY <2>4, <2>5, MoveChildFrame
    <2> QED
      BY <2>1, <2>4, <2>6 DEF ParentResponses, SetResponses
  <1> QED
    BY <1>1, <1>2

\* DeleteJob removes the job it is given; of any other job it changes at most
\* the dependents.
LEMMA DeleteJobFrame ==
  ASSUME NEW jb \in Tables, NEW n \in Names
  PROVE  LET r == DeleteJob(jb, n)
         IN /\ r.jobs \in Tables
            /\ r.err \in DeleteResponses
            /\ \A m \in Names \ {n} : SameButDeps(jb[m], r.jobs[m])
            /\ \/ SameButDeps(jb[n], r.jobs[n])
               \/ SameButDeps(ZeroJob, r.jobs[n])
  <1> DEFINE wiped == [jb EXCEPT ![n] = ZeroJob]
             result == RemoveFromParent(wiped, n, jb[n].parent)
  <1>1. CASE ~jb[n].stored \/ jb[n].deps # NoDeps
    BY <1>1 DEF DeleteJob, SameButDeps, ParentResponses, DeleteResponses
  <1>2. CASE jb[n].stored /\ jb[n].deps = NoDeps
    <2>1. DeleteJob(jb, n) = result
      BY <1>2 DEF DeleteJob
    <2>2. /\ wiped \in Tables
          /\ wiped[n] = ZeroJob
          /\ \A m \in Names \ {n} : wiped[m] = jb[m]
      BY ZeroJobType DEF Tables
    <2>3. jb[n].parent \in Names \cup {NoName}
      BY DEF Tables, Job
    <2> HIDE DEF wiped
    <2>4. /\ result.jobs \in Tables
          /\ result.err \in ParentResponses
          /\ \A m \in Names : SameButDeps(wiped[m], result.jobs[m])
      BY <2>2, <2>3, RemoveFromParentFrame
    <2> QED
      BY <2>1, <2>2, <2>4 DEF ParentResponses, DeleteResponses
  <1> QED
    BY <1>1, <1>2

\* Storing an execution stores executions.
LEMMA PutExecutionType ==
  ASSUME NEW ex \in SUBSET Execution, NEW e \in Execution
  PROVE  PutExecution(ex, e) \in SUBSET Execution
  BY DEF PutExecution

\* Counting a completion keeps a job a job.
LEMMA CountDoneType ==
  ASSUME NEW job \in Job, NEW e \in Execution, NEW st \in Status
  PROVE  CountDone(job, e, st) \in Job
  <1> DEFINE s == job.successCount + 1
             f == job.errorCount + 1
             t == e.finished
  <1>1. s \in Nat /\ f \in Nat /\ t \in Nat
    BY SMT DEF Job, Execution
  <1>2. CountDone(job, e, st) =
          IF e.success
            THEN [job EXCEPT !.successCount = s, !.lastSuccess = t, !.status = st]
            ELSE [job EXCEPT !.errorCount = f, !.lastError = t, !.status = st]
    BY DEF CountDone
  <1> HIDE DEF s, f, t
  <1>3. [job EXCEPT !.successCount = s, !.lastSuccess = t, !.status = st] \in Job
    BY <1>1 DEF Job
  <1>4. [job EXCEPT !.errorCount = f, !.lastError = t, !.status = st] \in Job
    BY <1>1 DEF Job
  <1> QED
    BY <1>2, <1>3, <1>4

\* A status that computeStatus returns is one of the four.
LEMMA ComputeStatusType ==
  ASSUME NEW ex, NEW n, NEW g
  PROVE  ComputeStatus(ex, n, g) \in Status
  BY DEF ComputeStatus, Status

\* A completion of a stored job keeps the job stored and counts one more.
LEMMA CountDoneEffect ==
  ASSUME NEW job \in Job, NEW e \in Execution, NEW st \in Status
  PROVE  LET r == CountDone(job, e, st)
         IN /\ r.stored = job.stored
            /\ r.parent = job.parent
            /\ r.deps = job.deps
            /\ r.successCount >= job.successCount
            /\ r.errorCount >= job.errorCount
            /\ r.successCount + r.errorCount = job.successCount + job.errorCount + 1
  BY SMT DEF CountDone, Job

-----------------------------------------------------------------------------
(* ParentJob and DependentJobs. *)

\* ParentJob and DependentJobs mirror each other, parents are stored, and a job
\* that is not stored has no parent.
Linked(jb) ==
  /\ \A p, c \in Names : jb[p].deps[c] = IF jb[c].parent = p THEN 1 ELSE 0
  /\ \A c \in Names : jb[c].parent # NoName => jb[jb[c].parent].stored
  /\ \A c \in Names : ~jb[c].stored => jb[c].parent = NoName

\* In `after' child n is off the list of `old' and once more on that of `new'.
Moved(jb, after, n, old, new) ==
  /\ old # NoName => after[old].deps[n] = 0
  /\ new # NoName => after[new].deps[n] = jb[new].deps[n] + 1
  /\ \A p \in Names \ {old, new} : after[p].deps[n] = jb[p].deps[n]
  /\ \A p \in Names, c \in Names \ {n} : after[p].deps[c] = jb[p].deps[c]

\* Moving a child touches its entry in the two parents and nothing else.
LEMMA MoveChildLinks ==
  ASSUME NEW jb \in Tables, NEW n \in Names,
         NEW old \in Names \cup {NoName}, NEW new \in Names \cup {NoName},
         old # new,
         old = NoName \/ (jb[old].stored /\ ParentFound(jb, jb[old])),
         new = NoName \/ (jb[new].stored /\ ParentFound(jb, jb[new]))
  PROVE  LET r == MoveChild(jb, n, old, new)
         IN r.err = "none" /\ Moved(jb, r.jobs, n, old, new)
  <1> DEFINE removed == RemoveFromParent(jb, n, old)
             mid == removed.jobs
             added == AddToParent(mid, n, new)
  <1>1. /\ mid \in Tables
        /\ removed.err = "none"
        /\ \A m \in Names : SameButDeps(jb[m], mid[m])
        /\ \A m \in Names \ {old} : mid[m] = jb[m]
        /\ old # NoName => /\ mid[old].deps[n] = 0
                           /\ \A c \in Names \ {n} : mid[old].deps[c] = jb[old].deps[c]
    BY SMT, RemoveFromParentFrame
  <1>2. MoveChild(jb, n, old, new) = added
    BY <1>1 DEF MoveChild
  <1>3. /\ old # NoName => mid[old].deps[n] = 0
        /\ \A p \in Names, c \in Names \ {n} : mid[p].deps[c] = jb[p].deps[c]
    <2> HIDE DEF mid
    <2> QED
      BY <1>1, StoreAssumption
  <1> HIDE DEF removed, mid
  <1>4. new # NoName => ParentFound(mid, mid[new])
    <2>1. new # NoName => jb[new].parent = NoName \/ jb[new].parent \in Names
      BY DEF Tables, Job
    <2> QED
      BY <1>1, <2>1 DEF ParentFound, SameButDeps
  <1>5. new # NoName => new \in Names /\ mid[new].stored
    BY <1>1 DEF SameButDeps
  <1>6. /\ added.err = "none"
        /\ \A m \in Names \ {new} : added.jobs[m] = mid[m]
        /\ new # NoName => /\ added.jobs[new].deps[n] = mid[new].deps[n] + 1
                           /\ \A c \in Names \ {n} : added.jobs[new].deps[c] = mid[new].deps[c]
    BY SMT, <1>1, <1>4, <1>5, AddToParentFrame
  <1> HIDE DEF added
  <1>7. /\ old # NoName => added.jobs[old].deps[n] = 0
        /\ new # NoName => added.jobs[new].deps[n] = jb[new].deps[n] + 1
        /\ \A p \in Names \ {old, new} : added.jobs[p].deps[n] = jb[p].deps[n]
    BY <1>1, <1>3, <1>6
  <1>8. ASSUME NEW p \in Names, NEW c \in Names \ {n}
        PROVE  added.jobs[p].deps[c] = jb[p].deps[c]
    <2>1. p # NoName
      BY StoreAssumption
    <2> QED
      BY SMT, <1>3, <1>6, <2>1
  <1>9. Moved(jb, added.jobs, n, old, new)
    BY <1>7, <1>8 DEF Moved
  <1> QED
    BY <1>2, <1>6, <1>9

\* A SetJob that keeps the stored dependents keeps the links, and does nothing
\* when it returns an error.
LEMMA SetJobLinks ==
  ASSUME NEW jb \in Tables, Linked(jb), NEW n \in Names, NEW job \in Job,
         NEW tick \in Nat, job.deps = jb[n].deps
  PROVE  LET r == SetJob(jb, n, job, FALSE, tick)
         IN Linked(r.jobs) /\ (r.err # "none" => r.jobs = jb)
  <1> DEFINE saved == [jb EXCEPT ![n] = Merge(job, @, FALSE, tick)]
             old == jb[n].parent
             new == job.parent
             moved == MoveChild(saved, n, old, new)
  <1>1. CASE ~Validate(n, job) \/ ~ParentFound(jb, job)
    BY <1>1 DEF SetJob
  <1>2. CASE Validate(n, job) /\ ParentFound(jb, job)
    <2>1. SetJob(jb, n, job, FALSE, tick) = moved
      BY <1>2 DEF SetJob
    <2>2. jb[n] \in Job /\ Merge(job, jb[n], FALSE, tick) \in Job
      BY MergeType DEF Tables
    <2>3. /\ saved \in Tables
          /\ saved[n].stored = TRUE
          /\ saved[n].parent = new
          /\ saved[n].deps = jb[n].deps
          /\ \A m \in Names \ {n} : saved[m] = jb[m]
      BY <2>2 DEF Tables, Merge
    <2> HIDE DEF saved
    <2>4. old \in Names \cup {NoName} /\ new \in Names \cup {NoName}
      BY <2>2 DEF Job
    <2>5. \A p \in Names : jb[p].parent \in Names \cup {NoName} /\ jb[p].stored \in BOOLEAN
      BY DEF Tables, Job
    <2>6. \A m \in Names : jb[m].stored => saved[m].stored
      BY <2>3
    <2>7. (old # NoName => jb[old].stored) /\ (new # NoName => jb[new].stored)
      BY <1>2 DEF Linked, ParentFound
    <2>8. \A p \in Names : ParentFound(saved, saved[p])
      <3> TAKE p \in Names
      <3>1. CASE p = n
        BY <2>3, <2>4, <2>6, <2>7, <3>1 DEF ParentFound
      <3>2. CASE p # n
        <4>1. saved[p].parent \in Names \cup {NoName}
          BY <2>3, <2>5, <3>2
        <4>2. saved[p].parent # NoName => jb[saved[p].parent].stored
          BY <2>3, <3>2 DEF Linked
        <4> QED
          BY <2>6, <4>1, <4>2 DEF ParentFound
      <3> QED
        BY <3>1, <3>2
    <2>9. \A c \in Names : ~saved[c].stored => saved[c].parent = NoName
      BY <2>3 DEF Linked
    <2>10. CASE old = new
      <3>1. moved.jobs = saved /\ moved.err = "none"
        BY <2>10 DEF MoveChild
      <3>2. \A p, c \in Names : saved[p].deps[c] = IF saved[c].parent = p THEN 1 ELSE 0
        BY SMT, <2>3, <2>10 DEF Linked
      <3>3. \A c \in Names : saved[c].parent # NoName => saved[saved[c].parent].stored
        BY <2>8 DEF ParentFound
      <3>4. Linked(saved)
        BY <2>9, <3>2, <3>3 DEF Linked
      <3> QED
        BY <2>1, <3>1, <3>4
    <2>11. CASE old # new
      <3>1. moved.err = "none" /\ Moved(saved, moved.jobs, n, old, new)
        <4>1. /\ old = NoName \/ (saved[old].stored /\ ParentFound(saved, saved[old]))
              /\ new = NoName \/ (saved[new].stored /\ ParentFound(saved, saved[new]))
          BY <2>4, <2>6, <2>7, <2>8
        <4>2. saved \in Tables
          BY <2>3
        <4> HIDE DEF old, new
        <4> QED
          BY <2>4, <2>11, <4>1, <4>2, MoveChildLinks
      <3>2. \A m \in Names : SameButDeps(saved[m], moved.jobs[m])
        BY <2>3, <2>4, MoveChildFrame
      <3>3. \A p, c \in Names : saved[p].deps[c] = IF jb[c].parent = p THEN 1 ELSE 0
        BY SMT, <2>3 DEF Linked
      <3> HIDE DEF moved
      <3>4. ASSUME NEW p \in Names, NEW c \in Names
            PROVE  moved.jobs[p].deps[c] = IF moved.jobs[c].parent = p THEN 1 ELSE 0
        <4>1. moved.jobs[c].parent = saved[c].parent
          BY <3>2 DEF SameButDeps
        <4>2. CASE c = n
          BY SMT, <2>3, <2>11, <3>1, <3>3, <4>1, <4>2, StoreAssumption DEF Moved
        <4>3. CASE c # n
          BY SMT, <2>3, <3>1, <3>3, <4>1, <4>3 DEF Moved
        <4> QED
          BY <4>2, <4>3
      <3>5. \A c \in Names : /\ moved.jobs[c].parent = saved[c].parent
                             /\ moved.jobs[c].stored = saved[c].stored
        BY <3>2 DEF SameButDeps
      <3>6. \A c \in Names : saved[c].parent \in Names \cup {NoName}
        BY <2>3 DEF Tables, Job
      <3>7. \A c \in Names : moved.jobs[c].parent # NoName
                               => moved.jobs[moved.jobs[c].parent].stored
        BY <2>8, <3>5, <3>6 DEF ParentFound
      <3>8. \A c \in Names : ~moved.jobs[c].stored => moved.jobs[c].parent = NoName
        BY <2>9, <3>5
      <3>9. Linked(moved.jobs)
        BY <3>4, <3>7, <3>8 DEF Linked
      <3> QED
        BY <2>1, <3>1, <3>9
    <2> QED
      BY <2>10, <2>11
  <1> QED
    BY <1>1, <1>2

\* A valid job that SetJob does not answer with ErrParentJobNotFound has been
\* written, below a parent that is stored.
LEMMA SetJobWritten ==
  ASSUME NEW jb \in Tables, NEW n \in Names, NEW job \in Job, NEW tick \in Nat,
         Validate(n, job), SetJob(jb, n, job, FALSE, tick).err # "ErrParentJobNotFound"
  PROVE  /\ ParentFound(jb, job)
         /\ SameButDeps(Merge(job, jb[n], FALSE, tick), SetJob(jb, n, job, FALSE, tick).jobs[n])
  <1> DEFINE saved == [jb EXCEPT ![n] = Merge(job, @, FALSE, tick)]
             moved == MoveChild(saved, n, jb[n].parent, job.parent)
  <1>1. ParentFound(jb, job)
    BY DEF SetJob
  <1>2. SetJob(jb, n, job, FALSE, tick) = moved
    BY <1>1 DEF SetJob
  <1>3. jb[n] \in Job /\ Merge(job, jb[n], FALSE, tick) \in Job
    BY MergeType DEF Tables
  <1>4. saved \in Tables /\ saved[n] = Merge(job, jb[n], FALSE, tick)
    BY <1>3 DEF Tables
  <1>5. jb[n].parent \in Names \cup {NoName} /\ job.parent \in Names \cup {NoName}
    BY <1>3 DEF Job
  <1> HIDE DEF saved
  <1>6. SameButDeps(saved[n], moved.jobs[n])
    BY <1>4, <1>5, MoveChildFrame
  <1> QED
    BY <1>1, <1>2, <1>4, <1>6

\* In a store where every parent is found, a valid job whose parent is found is
\* set without an error, and every parent is found again.
LEMMA SetJobFound ==
  ASSUME NEW jb \in Tables, \A m \in Names : ParentFound(jb, jb[m]),
         NEW n \in Names, NEW job \in Job, NEW tick \in Nat,
         Validate(n, job), ParentFound(jb, job)
  PROVE  LET r == SetJob(jb, n, job, FALSE, tick)
         IN r.err = "none" /\ \A m \in Names : ParentFound(r.jobs, r.jobs[m])
  <1> DEFINE saved == [jb EXCEPT ![n] = Merge(job, @, FALSE, tick)]
             old == jb[n].parent
             new == job.parent
             moved == MoveChild(saved, n, old, new)
  <1>1. SetJob(jb, n, job, FALSE, tick) = moved
    BY DEF SetJob
  <1>2. jb[n] \in Job /\ Merge(job, jb[n], FALSE, tick) \in Job
    BY MergeType DEF Tables
  <1>3. /\ saved \in Tables /\ saved[n].stored = TRUE /\ saved[n].parent = new
        /\ \A m \in Names \ {n} : saved[m] = jb[m]
    BY <1>2 DEF Tables, Merge
  <1> HIDE DEF saved
  <1>4. /\ old \in Names \cup {NoName} /\ new \in Names \cup {NoName}
        /\ \A m \in Names : jb[m].parent \in Names \cup {NoName}
    BY <1>2 DEF Job, Tables
  <1>5. \A m \in Names : jb[m].stored => saved[m].stored
    BY <1>3
  <1>6. (old # NoName => jb[old].stored) /\ (new # NoName => jb[new].stored)
    BY DEF ParentFound
  <1>7. \A m \in Names : ParentFound(saved, saved[m])
    <2> TAKE m \in Names
    <2>1. CASE m = n
      BY <1>3, <1>4, <1>5, <1>6, <2>1 DEF ParentFound
    <2>2. CASE m # n
      <3>1. saved[m].parent = jb[m].parent /\ ParentFound(jb, jb[m])
        BY <1>3, <2>2
      <3> QED
        BY <1>4, <1>5, <3>1 DEF ParentFound
    <2> QED
      BY <2>1, <2>2
  <1>8. moved.err = "none"
    <2>1. CASE old = new
      BY <2>1 DEF MoveChild
    <2>2. CASE old # new
      <3>1. /\ old = NoName \/ (saved[old].stored /\ ParentFound(saved, saved[old]))
            /\ new = NoName \/ (saved[new].stored /\ ParentFound(saved, saved[new]))
        BY <1>4, <1>5, <1>6, <1>7
      <3>2. saved \in Tables
        BY <1>3
      <3> HIDE DEF old, new
      <3> QED
        BY <1>4, <2>2, <3>1, <3>2, MoveChildLinks
    <2> QED
      BY <2>1, <2>2
  <1>9. \A m \in Names : SameButDeps(saved[m], moved.jobs[m])
    BY <1>3, <1>4, MoveChildFrame
  <1> HIDE DEF moved
  <1>10. \A m \in Names : saved[m].parent \in Names \cup {NoName}
    BY <1>3 DEF Tables, Job
  <1>11. ASSUME NEW m \in Names PROVE ParentFound(moved.jobs, moved.jobs[m])
    <2>1. moved.jobs[m].parent = saved[m].parent
      BY <1>9 DEF SameButDeps
    <2>2. \A p \in Names : moved.jobs[p].stored = saved[p].stored
      BY <1>9 DEF SameButDeps
    <2>3. saved[m].parent = NoName \/ saved[saved[m].parent].stored
      BY <1>7 DEF ParentFound
    <2> QED
      BY <1>10, <2>1, <2>2, <2>3 DEF ParentFound
  <1> QED
    BY <1>1, <1>8, <1>11

\* DeleteJob keeps the links; once its transaction commits it cannot fail.
LEMMA DeleteJobLinks ==
  ASSUME NEW jb \in Tables, Linked(jb), NEW n \in Names
  PROVE  LET r == DeleteJob(jb, n)
         IN /\ Linked(r.jobs)
            /\ r.err # "none" => r.jobs = jb /\ ~DeleteCommits(jb, n)
  <1> DEFINE wiped == [jb EXCEPT ![n] = ZeroJob]
             old == jb[n].parent
             result == RemoveFromParent(wiped, n, old)
  <1>1. CASE ~DeleteCommits(jb, n)
    BY <1>1 DEF DeleteJob, DeleteCommits
  <1>2. CASE DeleteCommits(jb, n)
    <2>1. DeleteJob(jb, n) = result
      BY <1>2 DEF DeleteJob, DeleteCommits
    <2>2. /\ wiped \in Tables
          /\ wiped[n] = ZeroJob
          /\ \A m \in Names \ {n} : wiped[m] = jb[m]
      BY ZeroJobType DEF Tables
    <2> HIDE DEF wiped
    <2>3. /\ ZeroJob.stored = FALSE
          /\ ZeroJob.parent = NoName
          /\ \A c \in Names : ZeroJob.deps[c] = 0
      BY DEF ZeroJob, NoDeps
    <2>4. old \in Names \cup {NoName}
      BY DEF Tables, Job
    <2>5. \A c \in Names : jb[n].deps[c] = 0 /\ jb[c].parent # n
      BY SMT, <1>2 DEF DeleteCommits, NoDeps, Linked
    <2>6. \A p \in Names : jb[p].parent \in Names \cup {NoName}
      BY DEF Tables, Job
    <2>7. \A p \in Names : wiped[p].parent = NoName \/ wiped[wiped[p].parent].stored
      <3> TAKE p \in Names
      <3>1. CASE p = n
        BY <2>2, <2>3, <3>1
      <3>2. CASE p # n
        <4>1. wiped[p].parent = jb[p].parent /\ jb[p].parent # n
          BY <2>2, <2>5, <3>2
        <4>2. jb[p].parent # NoName => wiped[jb[p].parent] = jb[jb[p].parent]
          BY <2>2, <2>6, <4>1
        <4> QED
          BY <4>1, <4>2 DEF Linked
      <3> QED
        BY <3>1, <3>2
    <2>8. old # NoName => old # n /\ wiped[old].stored /\ ParentFound(wiped, wiped[old])
      BY <2>2, <2>4, <2>5, <2>7 DEF ParentFound, Linked
    <2> HIDE DEF old
    <2>9. /\ result.err = "none"
          /\ \A m \in Names : SameButDeps(wiped[m], result.jobs[m])
          /\ \A m \in Names \ {old} : result.jobs[m] = wiped[m]
          /\ old # NoName =>
               /\ result.jobs[old].deps[n] = 0
               /\ \A c \in Names \ {n} : result.jobs[old].deps[c] = wiped[old].deps[c]
      BY SMT, <2>2, <2>4, <2>8, RemoveFromParentFrame
    <2> HIDE DEF result
    <2>10. \A m \in Names : /\ result.jobs[m].parent = wiped[m].parent
                            /\ result.jobs[m].stored = wiped[m].stored
      BY <2>9 DEF SameButDeps
    <2>11. ASSUME NEW p \in Names, NEW c \in Names
           PROVE  result.jobs[p].deps[c] = IF wiped[c].parent = p THEN 1 ELSE 0
      <3>1. p # NoName
        BY StoreAssumption
      <3>2. CASE p = n
        <4>1. result.jobs[n] = ZeroJob
          BY <2>2, <2>8, <2>9, <3>1, <3>2
        <4> QED
          BY <2>2, <2>3, <2>5, <3>1, <3>2, <4>1
      <3>3. CASE p # n /\ c = n
        <4>1. wiped[c].parent # p
          BY <2>2, <2>3, <3>1, <3>3
        <4>2. p # old => jb[p].deps[n] = 0
          BY DEF Linked, old
        <4> QED
          BY <2>2, <2>9, <3>1, <3>3, <4>1, <4>2
      <3>4. CASE p # n /\ c # n
        <4>1. wiped[c].parent = jb[c].parent /\ wiped[p].deps[c] = jb[p].deps[c]
          BY <2>2, <3>4
        <4>2. result.jobs[p].deps[c] = wiped[p].deps[c]
          BY <2>9, <3>1, <3>4
        <4> QED
          BY SMT, <4>1, <4>2 DEF Linked
      <3> QED
        BY <3>2, <3>3, <3>4
    <2>12. \A c \in Names : ~wiped[c].stored => wiped[c].parent = NoName
      BY <2>2, <2>3 DEF Linked
    <2>13. \A p \in Names : wiped[p].parent \in Names \cup {NoName}
      BY <2>2 DEF Tables, Job
    <2>14. Linked(result.jobs)
      BY SMT, <2>7, <2>10, <2>11, <2>12, <2>13 DEF Linked
    <2> QED
      BY <2>1, <2>9, <2>14
  <1> QED
    BY <1>1, <1>2

=============================================================================
