-------------------------- MODULE MCExecutionFlow --------------------------
(***************************************************************************)
(* Small instances of ExecutionFlow for TLC: one job without dependents of *)
(* its own, at most two nodes and two groups.                              *)
(***************************************************************************)
EXTENDS ExecutionFlow, TLC

OneName == {"a"}
OwnPrefix == "a" :> {"a"}
OneSchedule == {"@every 1m"}

\* The reports that lead to a dispatch, as a number.
PathRank(path) == IF path = <<>> THEN 0 ELSE IF path[Len(path)] = "client" THEN 1 ELSE 2

\* StartedAt of a dispatch; at most two nodes and one retry.
ByDispatch == [d \in Dispatches |-> 1 + PathRank(d[3]) + 3 * d[2] + 6 * d[1]]

\* One node, a retry, a broken stream and a crash.
Faults == [nodes |-> {0}, retries |-> 1, ends |-> {1}, errors |-> {1},
           maxBreaks |-> 1, maxCrashes |-> 1]

\* Two nodes, and a broken stream that is noticed before or after an
\* executor ends.
TwoNodes == [nodes |-> {0, 1}, retries |-> 0, ends |-> {2}, errors |-> {1, 3},
             maxBreaks |-> 1, maxCrashes |-> 0]

FaultsAndNodes == {Faults, TwoNodes}

\* One node, no fault.
Plain == {[nodes |-> {0}, retries |-> 0, ends |-> {1}, errors |-> {1},
           maxBreaks |-> 0, maxCrashes |-> 0]}

=============================================================================
