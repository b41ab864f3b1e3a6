------------------------------ MODULE Restore ------------------------------
(***************************************************************************)
(* Restoring jobs from an exported file (dkron/api.go, restoreHandler).    *)
(* generateJobTree (dkron/job.go) turns the list of jobs into trees, each  *)
(* job below the parent it names; recursiveSetJob (dkron/agent.go) then    *)
(* sends the jobs to the leader one by one, a parent before its children,  *)
(* while other clients may delete jobs and calls may fail.                 *)
(***************************************************************************)
EXTENDS StoreOps, Sequences, Functions

CONSTANTS
  Listings,     \* the orders in which a file may list its jobs
  OldParents,   \* the stores to restore into: the parent of each stored job
  Tick,         \* Next of a schedule that is new to the store
  MaxDeletes,   \* bound on jobs other clients delete meanwhile
  MaxFailures   \* bound on calls of SetJob that fail

ASSUME RestoreAssumption ==
  /\ Schedules # {}
  /\ \A l \in Listings : l \in Seq(Names) /\ IsInjective(l)
  /\ \A parents \in OldParents :
       DOMAIN parents \subseteq Names /\ \A n \in DOMAIN parents :
         parents[n] \in DOMAIN parents \cup {NoName}
  /\ Tick \in Nat
  /\ MaxDeletes \in Nat
  /\ MaxFailures \in Nat

VARIABLES
  listing,    \* the names in the file, in order
  file,       \* the job of each name in the file
  before,     \* the store as the restore found it
  jobs,       \* the store
  phase,      \* tree, set, done, rejected
  top,        \* jobs that are not below another one yet, or roots
  at,         \* how many of them are known to be roots
  children,   \* ChildJobs
  todo,       \* the jobs recursiveSetJob has still to send, in order
  result,     \* per job: none, success or fail
  deletes,    \* jobs deleted by others
  failures    \* calls that failed

fileVars == <<listing, file, before>>
vars == <<listing, file, before, jobs, phase, top, at, children, todo, result, deletes, failures>>

Listed == Range(listing)

\* A table of jobs that names these parents; DependentJobs mirrors them, or
\* is left out as in a file written by hand.
Table(parents, mirrored, count) ==
  [n \in Names |->
     IF n \notin DOMAIN parents THEN ZeroJob
     ELSE [ZeroJob EXCEPT
             !.stored = TRUE, !.parent = parents[n], !.successCount = count,
             !.schedule = CHOOSE s \in Schedules : TRUE,
             !.deps = IF ~mirrored THEN NoDeps
                      ELSE [c \in Names |-> IF c \in DOMAIN parents /\ parents[c] = n
                                              THEN 1 ELSE 0]]]

Init ==
  /\ listing \in Listings
  /\ \E parents \in [Range(listing) -> Names \cup {NoName}], mirrored \in BOOLEAN :
       file = Table(parents, mirrored, 1)
  /\ \E parents \in OldParents : before = Table(parents, TRUE, 2)
  /\ jobs = before
  /\ phase = "tree"
  /\ top = listing
  /\ at = 0
  /\ children = [n \in Names |-> <<>>]
  /\ todo = <<>>
  /\ result = [n \in Names |-> "none"]
  /\ deletes = 0
  /\ failures = 0

-----------------------------------------------------------------------------
(* generateJobTree: one iteration looks at the job top[at + 1]. *)

\* A job and the jobs below it: they are in every set that has the job and,
\* with a job, its children.
Below(n) ==
  {m \in Names : \A set \in SUBSET Names :
     n \in set /\ (\A p \in set : Range(children[p]) \subseteq set) => m \in set}

\* Mutant of Found: only the jobs at the top are looked at.
FoundAtTop(n) == file[n].parent \in Range(top) \ {n}

\* The parent is a job at the top, other than the job itself, or below one.
Found(n) == file[n].parent \in UNION {Below(m) : m \in Range(top) \ {n}}

\* The job moves below its parent.
Attach(n) ==
  /\ Validate(n, file[n]) /\ file[n].parent # NoName /\ Found(n)
  /\ children' = [children EXCEPT ![file[n].parent] = Append(@, n)]
  /\ top' = SubSeq(top, 1, at) \o SubSeq(top, at + 2, Len(top))
  /\ UNCHANGED <<at, phase>>

\* The job is a root and stays.
KeepRoot(n) ==
  /\ Validate(n, file[n]) /\ file[n].parent = NoName
  /\ at' = at + 1
  /\ UNCHANGED <<top, children, phase>>

\* An invalid job, or no parent: the whole file is refused.
Reject(n) ==
  /\ ~Validate(n, file[n]) \/ (file[n].parent # NoName /\ ~Found(n))
  /\ phase' = "rejected"
  /\ UNCHANGED <<top, at, children>>

Place ==
  /\ phase = "tree" /\ at < Len(top)
  /\ LET n == top[at + 1] IN Attach(n) \/ KeepRoot(n) \/ Reject(n)
  /\ UNCHANGED <<fileVars, jobs, todo, result, deletes, failures>>

TreeDone ==
  /\ phase = "tree" /\ at = Len(top)
  /\ phase' = "set"
  /\ todo' = top
  /\ UNCHANGED <<fileVars, jobs, top, at, children, result, deletes, failures>>

-----------------------------------------------------------------------------
(* recursiveSetJob *)

\* Mutant of Answered: the error of the store is dropped.
AnsweredOK(err) == TRUE

\* applySetJob passes on this error of the store only.
Answered(err) == err # "ErrParentJobNotFound"

\* Mutant of Record: the children of a job that failed are tried as well.
RecordAndGoOn(n, ok) ==
  /\ result' = [result EXCEPT ![n] = IF ok THEN "success" ELSE "fail"]
  /\ todo' = children[n] \o Tail(todo)

\* Mutant of Record: the recursion is missing.
RecordRoot(n, ok) ==
  /\ result' = [result EXCEPT ![n] = IF ok THEN "success" ELSE "fail"]
  /\ todo' = Tail(todo)

\* After a success the children come next; after a failure they are skipped.
Record(n, ok) ==
  /\ result' = [result EXCEPT ![n] = IF ok THEN "success" ELSE "fail"]
  /\ todo' = IF ok THEN children[n] \o Tail(todo) ELSE Tail(todo)

\* The leader sets the job and answers.
SetNext ==
  LET n == Head(todo)
      set == SetJob(jobs, n, file[n], FALSE, Tick)
  IN /\ phase = "set" /\ todo # <<>>
     /\ jobs' = set.jobs
     /\ Record(n, Answered(set.err))
     /\ UNCHANGED <<fileVars, phase, top, at, children, deletes, failures>>

\* The call fails, before or after the leader set the job.
SetFails ==
  LET n == Head(todo)
  IN /\ phase = "set" /\ todo # <<>> /\ failures < MaxFailures
     /\ failures' = failures + 1
     /\ jobs' \in {jobs, SetJob(jobs, n, file[n], FALSE, Tick).jobs}
     /\ Record(n, FALSE)
     /\ UNCHANGED <<fileVars, phase, top, at, children, deletes>>

SetDone ==
  /\ phase = "set" /\ todo = <<>>
  /\ phase' = "done"
  /\ UNCHANGED <<fileVars, jobs, top, at, children, todo, result, deletes, failures>>

\* Another client deletes a job.
OtherDeletes(n) ==
  /\ phase \in {"tree", "set"} /\ deletes < MaxDeletes
  /\ DeleteCommits(jobs, n)
  /\ jobs' = DeleteJob(jobs, n).jobs
  /\ deletes' = deletes + 1
  /\ UNCHANGED <<fileVars, phase, top, at, children, todo, result, failures>>

Next ==
  \/ Place \/ TreeDone
  \/ SetNext \/ SetFails \/ SetDone
  \/ \E n \in Names : OtherDeletes(n)

Spec == Init /\ [][Next]_vars

-----------------------------------------------------------------------------
(* Properties. *)

\* The jobs a job is under, itself included, following the parents of the file,
\* and NoName above a root.
Ancestors(n) ==
  {m \in Names \cup {NoName} : \A set \in SUBSET (Names \cup {NoName}) :
     n \in set /\ (\A c \in set \cap Listed : file[c].parent \in set) => m \in set}

\* Every chain of parents ends in a root that the file lists.
IsForest == \A n \in Listed : NoName \in Ancestors(n)

\* A file is accepted exactly if its jobs form a forest: an unknown parent or
\* a cycle of parents is refused whatever the order of the jobs, although the
\* tree is built in one pass over the list.  In the tree that is built every
\* job is where the file puts it and nowhere else: at the top if it has no
\* parent, else once among its parent's children (job.go:362-424).
BuildsForest ==
  /\ phase = "rejected" => ~IsForest
  /\ phase \in {"set", "done"} =>
       /\ IsForest
       /\ \A n \in Listed : n \in Range(top) <=> file[n].parent = NoName
       /\ \A p \in Names : /\ IsInjective(children[p])
                            /\ Range(children[p]) = {c \in Listed : file[c].parent = p}

\* At the end a job has no result exactly if a job above it failed: a failure
\* costs its own subtree and nothing else (agent.go:841-852).
FailureCostsSubtree ==
  phase = "done" => \A n \in Listed :
    result[n] = "none" <=> \E m \in (Ancestors(n) \cap Listed) \ {n} : result[m] = "fail"

\* A job is answered with success only if it is in the store at that moment,
\* and its parent too, even when others delete jobs meanwhile
\* (store.go:96-101, agent.go:797-803).
SuccessMeansStored ==
  [][\A n \in Listed : result[n] = "none" /\ result'[n] = "success" =>
       /\ jobs'[n].stored /\ jobs'[n].parent = file[n].parent
       /\ file[n].parent # NoName => jobs'[file[n].parent].stored]_vars

\* Nobody deleted a job and no call failed.
Undisturbed == deletes = 0 /\ failures = 0

\* Undisturbed, a restore sets every job of the file below its parent, whatever
\* tree of jobs the store held before, and takes no completion back.
RestoresAll ==
  phase = "done" /\ Undisturbed => \A n \in Listed :
    /\ result[n] = "success"
    /\ jobs[n].stored /\ jobs[n].parent = file[n].parent
    /\ jobs[n].successCount = Larger(before[n].successCount, file[n].successCount)

\* ParentJob and DependentJobs mirror each other.
Mirrors(table) ==
  \A p, c \in Names : table[p].deps[c] = IF table[c].parent = p THEN 1 ELSE 0

SameLinks == \A n \in Names : before[n].parent = file[n].parent /\ before[n].deps = file[n].deps

\* Undisturbed, the links between jobs are consistent after a restore over the
\* jobs that were exported, and after a restore of a file without
\* DependentJobs into an empty store (store.go:155-163).
LinksRestored ==
  /\ phase = "done" /\ Undisturbed
  /\ \/ SameLinks
     \/ before = Table(<<>>, TRUE, 2) /\ \A n \in Names : file[n].deps = NoDeps
  => Mirrors(jobs)

\* upgrade.md:26: "This will restore all jobs and counters as they were in the
\* export file."  An export lists each child with its parent.
RestoredAsExported ==
  phase = "done" /\ Undisturbed /\ before = Table(<<>>, TRUE, 2) /\ Mirrors(file) =>
    \A n \in Listed : /\ jobs[n].deps = file[n].deps
                      /\ jobs[n].successCount = file[n].successCount

=============================================================================
