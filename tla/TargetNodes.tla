---------------------------- MODULE TargetNodes ----------------------------
(***************************************************************************)
(* Choosing the nodes a job runs on: processFilteredNodes (dkron/agent.go) *)
(* and the first half of Agent.Run (dkron/run.go).  A job's tag is         *)
(* "value" or "value:count".  For each tag, in any order, the nodes that   *)
(* are alive and have the value are collected, a random choice of `count'  *)
(* of them if there is a count; the job runs on the nodes collected for    *)
(* every tag.  Serf is asked for its members anew for every tag, and again *)
(* for the address of each chosen node.                                    *)
(***************************************************************************)
EXTENDS Integers, FiniteSets

CONSTANTS
  Nodes,       \* nodes of the cluster
  Keys,        \* tag keys, the region's included
  Region,      \* the key "region"
  MaxCount,    \* bound on counts
  MaxChanges   \* bound on changes of the membership

All == -1      \* a tag without a count
Bad == -2      \* a count that is not a number

ASSUME TargetAssumption ==
  /\ IsFiniteSet(Nodes)
  /\ Region \in Keys
  /\ MaxCount \in Nat
  /\ MaxChanges \in Nat

VARIABLES
  status,      \* per node: its serf status; "none" if it is not a member
  has,         \* per node: the job's tags it has
  count,       \* per tag of the job: its count, All or Bad
  pending,     \* tags still to be looked at
  candidates,  \* per tag: the nodes collected for it
  unresolved,  \* chosen nodes whose address is still to be looked up
  targets,     \* chosen nodes with their address
  phase,       \* filter, resolve, dispatched, failed
  changes      \* changes of the membership

vars == <<status, has, count, pending, candidates, unresolved, targets, phase, changes>>

\* The membership, the tags and the choice so far are well formed.
TypeOK ==
  /\ status \in [Nodes -> {"none", "alive", "failed", "left"}]
  /\ has \in [Nodes -> SUBSET Keys]
  /\ count \in [Keys -> Nat \cup {All, Bad}]
  /\ pending \subseteq Keys
  /\ candidates \in [Keys -> SUBSET Nodes]
  /\ unresolved \subseteq Nodes
  /\ targets \subseteq Nodes
  /\ phase \in {"filter", "resolve", "dispatched", "failed"}
  /\ changes \in 0..MaxChanges

\* The region tag is always the server's own, without a count.
Init ==
  /\ status \in [Nodes -> {"none", "alive"}]
  /\ has \in [Nodes -> SUBSET Keys]
  /\ count \in [Keys -> 0..MaxCount \cup {All, Bad}]
  /\ count[Region] = All
  /\ pending = Keys
  /\ candidates = [k \in Keys |-> {}]
  /\ unresolved = {}
  /\ targets = {}
  /\ phase = "filter"
  /\ changes = 0

\* The members that are alive and have the tag.
Having(k) == {n \in Nodes : status[n] = "alive" /\ k \in has[n]}

\* Mutant of Choices: one node more than the count.
OneMore(k) ==
  IF count[k] = All THEN {Having(k)}
  ELSE {s \in SUBSET Having(k) :
          Cardinality(s) = IF Cardinality(Having(k)) < count[k] + 1 THEN Cardinality(Having(k))
                                                                    ELSE count[k] + 1}

\* Mutant of Choices: the last node is never reached.
OneLess(k) ==
  IF count[k] = All THEN {Having(k)}
  ELSE {s \in SUBSET Having(k) :
          Cardinality(s) = IF Cardinality(Having(k)) <= count[k] /\ Having(k) # {}
                             THEN Cardinality(Having(k)) - 1
                             ELSE IF Having(k) = {} THEN 0 ELSE count[k]}

\* What a tag may collect: a shuffle, then as many as the count says and are there.
Choices(k) ==
  IF count[k] = All THEN {Having(k)}
  ELSE {s \in SUBSET Having(k) :
          Cardinality(s) = IF Cardinality(Having(k)) < count[k] THEN Cardinality(Having(k))
                                                                ELSE count[k]}

\* The next tag; a map is iterated in any order.
Collect(k) ==
  /\ phase = "filter" /\ k \in pending /\ count[k] # Bad
  /\ \E chosen \in Choices(k) : candidates' = [candidates EXCEPT ![k] = chosen]
  /\ pending' = pending \ {k}
  /\ UNCHANGED <<status, has, count, unresolved, targets, phase, changes>>

\* Atoi fails: Run returns the error.
BadCount(k) ==
  /\ phase = "filter" /\ k \in pending /\ count[k] = Bad
  /\ phase' = "failed"
  /\ UNCHANGED <<status, has, count, pending, candidates, unresolved, targets, changes>>

\* Mutant of Intersection: a node needs one of the tags only.
UnionOfAll == UNION {candidates[k] : k \in Keys}

Intersection == {n \in Nodes : \A k \in Keys : n \in candidates[k]}

\* The intersection over all tags.
Intersect ==
  /\ phase = "filter" /\ pending = {}
  /\ unresolved' = Intersection
  /\ phase' = "resolve"
  /\ UNCHANGED <<status, has, count, pending, candidates, targets, changes>>

\* The address of a chosen node, unless it is no member any more.
Resolve(n) ==
  /\ phase = "resolve" /\ n \in unresolved
  /\ unresolved' = unresolved \ {n}
  /\ targets' = IF status[n] = "none" THEN targets ELSE targets \cup {n}
  /\ UNCHANGED <<status, has, count, pending, candidates, phase, changes>>

\* Run: no node is an error, else the job is sent to each.
Dispatch ==
  /\ phase = "resolve" /\ unresolved = {}
  /\ phase' = IF targets = {} THEN "failed" ELSE "dispatched"
  /\ UNCHANGED <<status, has, count, pending, candidates, unresolved, targets, changes>>

\* A node joins, fails, leaves or is reaped.
Change(n, s) ==
  /\ phase \in {"filter", "resolve"} /\ changes < MaxChanges
  /\ status[n] # s
  /\ s \in {"failed", "left"} => status[n] = "alive"
  /\ s = "none" => status[n] \in {"failed", "left"}
  /\ status' = [status EXCEPT ![n] = s]
  /\ changes' = changes + 1
  /\ UNCHANGED <<has, count, pending, candidates, unresolved, targets, phase>>

Next ==
  \/ \E k \in Keys : Collect(k) \/ BadCount(k)
  \/ Intersect
  \/ \E n \in Nodes : Resolve(n)
  \/ Dispatch
  \/ \E n \in Nodes, s \in {"none", "alive", "failed", "left"} : Change(n, s)

Spec == Init /\ [][Next]_vars

-----------------------------------------------------------------------------
(* Properties. *)

Eligible == {n \in Nodes : status[n] = "alive" /\ has[n] = Keys}

Counted == {k \in Keys : count[k] # All}

\* The job never runs on more nodes than any of its counts allows, however the
\* membership changes while the tags are looked at (agent.go:729-737, 745-754).
AtMostCount ==
  \A k \in Counted : targets # {} => Cardinality(targets) <= count[k]

\* Every node the job runs on has all its tags (agent.go:742-754).
HaveAllTags == \A n \in targets : has[n] = Keys

\* While the membership is stable and at most one tag has a count, and that tag
\* tells no more nodes apart than the others do, the job runs on as many
\* nodes as the count asks for and are there, on all of them if there is no
\* count (agent.go:706-740).
EnoughTargets ==
  /\ phase = "dispatched" \/ (phase = "failed" /\ pending = {})
  /\ changes = 0
  /\ \A k, l \in Counted : k = l
  /\ \A k \in Counted : Having(k) = Eligible
  => IF Counted = {} THEN targets = Eligible
     ELSE \A k \in Counted :
            Cardinality(targets) = IF Cardinality(Eligible) < count[k] THEN Cardinality(Eligible)
                                                                       ELSE count[k]

=============================================================================
