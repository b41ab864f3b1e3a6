----------------------------- MODULE MCJobStore -----------------------------
(***************************************************************************)
(* Small instances of JobStore for TLC.  The names are such that "a" is a  *)
(* prefix of "ab"; one execution limit, at most three executions of "a".   *)
(*                                                                         *)
(* The run of the store checks two kinds of writers, and `plan' says which *)
(* one a behaviour has: any writers of one job ("writers"), or writers of  *)
(* three jobs that never act on an old copy ("coherent").                  *)
(***************************************************************************)
EXTENDS JobStore, TLC

TwoNames == {"a", "ab"}
ThreeNames == {"a", "ab", "c"}

Prefixes2 == "a" :> {"a", "ab"} @@ "ab" :> {"ab"}
Prefixes3 == Prefixes2 @@ "c" :> {"c"}

OneSchedule == {"@every 1m"}
OneTick == {1}

\* Bodies without dependents, as a client that does not know of them sends.
NoBodyDeps == {NoDeps}

Exec(n, started, group) ==
  [job |-> n, started |-> started, group |-> group, finished |-> 0, success |-> FALSE]

\* Two executions of one group of "a", and one of a later group.
ThreeExecs == {Exec("a", 1, 1), Exec("a", 2, 1), Exec("a", 3, 2)}

\* One execution of each job.
OneExecEach == {Exec("a", 1, 1), Exec("ab", 2, 1)}

-----------------------------------------------------------------------------

VARIABLE plan

MCInit == Init /\ plan \in {"writers", "coherent"}

\* The steps of Next that are about job "a".
WritersNext ==
  \/ \E tick \in Ticks, parent \in {"a", NoName}, schedule \in Schedules \cup {NoSchedule} :
       ClientSetJob("a", parent, schedule, NoDeps, tick)
  \/ \E w \in Writers, kind \in {"run", "toggle"} : ReadJob(w, "a", kind)
  \/ \E w \in Writers, tick \in Ticks : WriteBack(w, tick)
  \/ ApplyDeleteJob("a")
  \/ ApplyExecution

\* Bounds of the plan with coherent writers: one execution, counted once, and
\* one job that is ever disabled.
FewCounts ==
  /\ jobs'["a"].successCount + jobs'["a"].errorCount <= 1
  /\ \A n \in Names \ {"a"} : ~jobs'[n].disabled
  /\ \A e \in execs' : e.started = 1 /\ e.finished <= 1

MCNext ==
  /\ \/ plan = "writers" /\ WritersNext
     \/ plan = "coherent" /\ CoherentNext /\ FewCounts
  /\ UNCHANGED plan

MCSpec == MCInit /\ [][MCNext]_<<vars, plan>>

\* All the steps of the store.
AnySpec == Init /\ plan = "any" /\ [][Next /\ UNCHANGED plan]_<<vars, plan>>

=============================================================================
