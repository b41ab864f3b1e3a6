----------------------------- MODULE MCReplicas -----------------------------
(***************************************************************************)
(* Small instances of Replicas for TLC: two servers, a parent "a" and its  *)
(* child "b", one execution of "a".                                        *)
(***************************************************************************)
EXTENDS Replicas, TLC

TwoNames == {"a", "b"}
OwnPrefixes == "a" :> {"a"} @@ "b" :> {"b"}
OneSchedule == {"@every 1m"}
\* The clocks disagree.
Clocks == "s1" :> {2} @@ "s2" :> {1}

\* Only s1 takes snapshots and crashes; either of the
\* two may lead.
OneOnS1 == "s1" :> 1 @@ "s2" :> 0


Set(n, parent, schedule) ==
  [type |-> "SetJob", name |-> n,
   job |-> [ZeroJob EXCEPT !.parent = parent, !.schedule = schedule]]

Delete(n) == [type |-> "DeleteJob", name |-> n]

Execution1 == [job |-> "a", started |-> 1, group |-> 1, finished |-> 0, success |-> FALSE]

Done == [type |-> "ExecutionDone", exec |-> [Execution1 EXCEPT !.finished = 1, !.success = TRUE]]

FourCommands ==
  {Set("a", NoName, "@every 1m"), Set("b", "a", NoSchedule), Delete("b"), Done}

=============================================================================
