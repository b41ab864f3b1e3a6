---------------------------- MODULE MCScheduler ----------------------------
(***************************************************************************)
(* Small instances of Scheduler for TLC: two or three jobs.                *)
(***************************************************************************)
EXTENDS Scheduler, TLC

TwoJobs == {"a", "b"}
ThreeJobs == {"a", "b", "bad"}
ByName == "a" :> 1 @@ "b" :> 2
ByName3 == ByName @@ "bad" :> 3

=============================================================================
