----------------------------- MODULE Membership -----------------------------
(***************************************************************************)
(* Servers finding each other: the start of an agent (dkron/agent.go,      *)
(* retry_join.go), the handlers of serf's member events and bootstrapping  *)
(* (dkron/serf.go), and the leader keeping the raft configuration in step  *)
(* with the members (dkron/leader.go).                                     *)
(*                                                                         *)
(* Serf and raft are external.  Serf: each server has its own view of the  *)
(* members, which changes at any time and queues an event that may replace *)
(* an older one of the same member (CoalescePeriod).  Raft: a new leader   *)
(* has the last committed configuration, configurations with a repeated    *)
(* address or no voter are refused, and a leader that removes itself shuts *)
(* its raft down.                                                          *)
(*                                                                         *)
(* localPeers is written and never read; it is left out.  reconcileCh is   *)
(* never made, so localMemberEvent changes nothing.                        *)
(***************************************************************************)
EXTENDS Integers, FiniteSets, Sequences

CONSTANTS
  Servers,      \* names of dkron servers
  Local,        \* those in the region that is modelled
  Addrs,        \* per server: the addresses it may have
  Plans,        \* what is set up and how much of it happens
  MaxAttempts   \* RetryJoinMaxAttemptsLAN

\* A plan: bootstrap-expect of each server, 0 for none; the servers whose own
\* steps are modelled; bounds on changes of views and peers removed by hand, and
\* on crashes and stops.
Plan == [tag : [Servers -> Nat], running : SUBSET Local, changes : Nat, halts : Nat]

ASSUME MembershipAssumption ==
  /\ IsFiniteSet(Servers)
  /\ Local \subseteq Servers
  /\ \A p \in Plans : p \in Plan
  /\ MaxAttempts \in Nat

VARIABLES
  plan,       \* the plan that is followed
  life,       \* off, joining, stuck, up
  attempts,   \* failed attempts to join
  view,       \* serf members: per server and member its status, address, and
              \*   whether isServer accepts its tags
  events,     \* eventCh
  peers,      \* names in peers
  expect,     \* config.BootstrapExpect
  conf,       \* latest raft configuration in its log, {} if the log is empty
  boot,       \* names it bootstrapped with (history)
  role,       \* raft: follower, leader, shutdown
  committed,  \* last committed configuration
  todo,       \* reconcile: members still to be looked at
  fix,        \* addRaftPeer in progress: the peer and the servers in its way
  changes,    \* changes so far
  halts       \* crashes and stops so far

agent == <<life, attempts, events, peers, expect, boot>>
raft == <<conf, role, committed>>
leaderVars == <<todo, fix>>
vars == <<plan, agent, view, raft, leaderVars, changes, halts>>

tag == plan.tag
Running == plan.running

NoFix == [peer |-> {}, old |-> {}]

\* What is known of a member: its status, and what isServer makes of its tags,
\* whether they are those of a server and the address in them.
Unknown(m) == [status |-> "none", valid |-> FALSE, addr |-> CHOOSE a \in Addrs[m] : TRUE]

Init ==
  /\ plan \in Plans
  /\ life = [s \in Local |-> "off"]
  /\ attempts = [s \in Local |-> 0]
  /\ view = [s \in Local |-> [m \in Servers |-> Unknown(m)]]
  /\ events = [s \in Local |-> <<>>]
  /\ peers = [s \in Local |-> {}]
  /\ expect = [s \in Local |-> tag[s]]
  /\ conf = [s \in Local |-> {}]
  /\ boot = [s \in Local |-> {}]
  /\ role = [s \in Local |-> "follower"]
  /\ committed = {}
  /\ todo = [s \in Local |-> {}]
  /\ fix = [s \in Local |-> NoFix]
  /\ changes = 0 /\ halts = 0

Ids(c) == {x.id : x \in c}

\* Raft refuses other configurations.
WellFormed(c) ==
  /\ c # {}
  /\ \A x, y \in c : x.addr = y.addr \/ x.id = y.id => x = y

-----------------------------------------------------------------------------
(* Starting and stopping *)

\* Start: setupSerf, at some address.  The event of its own join waits for
\* the event loop; it shares the map of tags that Start completes before that.
Start(s) ==
  /\ life[s] = "off"
  /\ life' = [life EXCEPT ![s] = "joining"]
  /\ \E a \in Addrs[s] :
       view' = [view EXCEPT ![s][s] = [status |-> "alive", valid |-> FALSE, addr |-> a]]
  /\ events' = [events EXCEPT ![s] = <<[type |-> "join", id |-> s, valid |-> TRUE]>>]
  /\ UNCHANGED <<plan, attempts, peers, expect, boot, raft, leaderVars, changes, halts>>

\* retryJoin: one more failed attempt; after the last the error is sent to a
\* channel that is read only after Start.
JoinFails(s) ==
  /\ life[s] = "joining" /\ MaxAttempts > 0
  /\ attempts' = [attempts EXCEPT ![s] = @ + 1]
  /\ life' = [life EXCEPT ![s] = IF attempts'[s] > MaxAttempts THEN "stuck" ELSE @]
  /\ UNCHANGED <<plan, view, events, peers, expect, boot, raft, leaderVars, changes, halts>>

\* setupRaft: a server that expects one bootstraps alone.
BootAlone(s) == tag[s] = 1 /\ conf[s] = {}

\* The join succeeded: setupRaft, SetTags, eventLoop.
Ready(s) ==
  /\ life[s] = "joining"
  /\ life' = [life EXCEPT ![s] = "up"]
  /\ view' = [view EXCEPT ![s][s].valid = TRUE]
  /\ conf' = IF BootAlone(s) THEN [conf EXCEPT ![s] = {[id |-> s, addr |-> view[s][s].addr]}]
                             ELSE conf
  /\ boot' = IF BootAlone(s) THEN [boot EXCEPT ![s] = {s}] ELSE boot
  /\ attempts' = [attempts EXCEPT ![s] = 0]
  /\ UNCHANGED <<plan, events, peers, expect, role, committed, leaderVars, changes, halts>>

\* Agent.Stop or a crash: all is forgotten but the log on disk.
Halt(s) ==
  /\ life[s] # "off" /\ halts < plan.halts
  /\ life' = [life EXCEPT ![s] = "off"]
  /\ role' = [role EXCEPT ![s] = "follower"]
  /\ todo' = [todo EXCEPT ![s] = {}]
  /\ fix' = [fix EXCEPT ![s] = NoFix]
  /\ attempts' = [attempts EXCEPT ![s] = 0]
  /\ view' = [view EXCEPT ![s] = [m \in Servers |-> Unknown(m)]]
  /\ events' = [events EXCEPT ![s] = <<>>]
  /\ peers' = [peers EXCEPT ![s] = {}]
  /\ expect' = [expect EXCEPT ![s] = tag[s]]
  /\ halts' = halts + 1
  /\ UNCHANGED <<plan, boot, conf, committed, changes>>

-----------------------------------------------------------------------------
(* Serf: how a view changes *)

\* The queue q without its i-th event.
Dropped(q, i) == SubSeq(q, 1, i - 1) \o SubSeq(q, i + 1, Len(q))

\* What serf queues: the event, after what is queued or in place of the last event
\* of the same member.
Queue(s, m, type, valid) ==
  LET e == [type |-> type, id |-> m, valid |-> valid]
      q == events[s]
  IN \/ events' = [events EXCEPT ![s] = Append(q, e)]
     \/ \E i \in 1..Len(q) :
          /\ q[i].id = m /\ \A j \in (i + 1)..Len(q) : q[j].id # m
          /\ events' = [events EXCEPT ![s] = Append(Dropped(q, i), e)]

\* m joins with the address and tags it has now; what a server that is not
\* modelled has is any of its addresses, with or without the tags set last.
Joins(s, m) ==
  /\ view[s][m].status # "alive"
  /\ m \in Running => life[m] # "off"
  /\ \E a \in Addrs[m], v \in BOOLEAN :
       /\ m \in Running => a = view[m][m].addr /\ v = view[m][m].valid
       /\ view' = [view EXCEPT ![s][m] = [status |-> "alive", valid |-> v, addr |-> a]]
       /\ Queue(s, m, "join", v)

\* SetTags of m arrives.
Updates(s, m) ==
  /\ view[s][m].status = "alive" /\ ~view[s][m].valid
  /\ m \in Running => life[m] = "up"
  /\ view' = [view EXCEPT ![s][m].valid = TRUE]
  /\ Queue(s, m, "update", TRUE)

\* m is taken for failed, or leaves.
Goes(s, m) ==
  /\ view[s][m].status = "alive"
  /\ \E x \in {<<"failed", "failed">>, <<"left", "leave">>} :
       /\ x[1] = "left" /\ m \in Running => life[m] = "off"
       /\ view' = [view EXCEPT ![s][m].status = x[1]]
       /\ Queue(s, m, x[2], view[s][m].valid)

\* A member that failed or left is forgotten.
Reaped(s, m) ==
  /\ view[s][m].status \in {"failed", "left"}
  /\ view' = [view EXCEPT ![s][m] = Unknown(m)]
  /\ Queue(s, m, "reap", view[s][m].valid)

Change(s, m) ==
  /\ life[s] # "off" /\ m # s /\ changes < plan.changes
  /\ Joins(s, m) \/ Updates(s, m) \/ Goes(s, m) \/ Reaped(s, m)
  /\ changes' = changes + 1
  /\ UNCHANGED <<plan, life, attempts, peers, expect, boot, raft, leaderVars, halts>>

-----------------------------------------------------------------------------
(* The event loop *)

\* The next event; one that does not name a server changes nothing, and neither
\* do updates and reaps.
Handle(s, types) ==
  /\ life[s] = "up" /\ events[s] # <<>>
  /\ Head(events[s]).type \in types
  /\ events' = [events EXCEPT ![s] = Tail(@)]
  /\ UNCHANGED <<plan, life, attempts, view, role, committed, leaderVars, changes, halts>>

\* The servers of the region among the members, whatever their status.
Found(s) == {m \in Local : view[s][m].status # "none" /\ view[s][m].valid}

\* Mutant of Enough: one server less will do.
OneMissing(s) == Cardinality(Found(s)) + 1 >= expect[s]

Enough(s) == Cardinality(Found(s)) >= expect[s]

Conflict(s) == \E m \in Found(s) : tag[m] \notin {0, expect[s]} \/ tag[m] = 1

Seen(s) == {[id |-> m, addr |-> view[s][m].addr] : m \in Found(s)}

MaybeBootstrap(s) ==
  \/ /\ expect[s] = 0 \/ (conf[s] = {} /\ (Conflict(s) \/ ~Enough(s)))
     /\ UNCHANGED <<expect, conf, boot>>
  \/ /\ expect[s] # 0 /\ conf[s] # {}
     /\ expect' = [expect EXCEPT ![s] = 0]
     /\ UNCHANGED <<conf, boot>>
  \/ /\ expect[s] # 0 /\ conf[s] = {} /\ ~Conflict(s) /\ Enough(s)
     /\ expect' = [expect EXCEPT ![s] = 0]
     /\ conf' = [conf EXCEPT ![s] = IF WellFormed(Seen(s)) THEN Seen(s) ELSE {}]
     /\ boot' = [boot EXCEPT ![s] = Ids(conf'[s])]

NodeJoin(s) ==
  /\ Handle(s, {"join"})
  /\ LET e == Head(events[s]) IN
       IF e.valid
         THEN peers' = [peers EXCEPT ![s] = @ \cup {e.id}] /\ MaybeBootstrap(s)
         ELSE UNCHANGED <<peers, expect, conf, boot>>

\* Mutant of NodeFailed: only members that leave are removed.
NodeLeft(s) ==
  /\ Handle(s, {"failed", "leave"})
  /\ LET e == Head(events[s]) IN
       peers' = IF e.valid /\ e.type = "leave" THEN [peers EXCEPT ![s] = @ \ {e.id}] ELSE peers
  /\ UNCHANGED <<expect, conf, boot>>

NodeFailed(s) ==
  /\ Handle(s, {"failed", "leave"})
  /\ LET e == Head(events[s]) IN
       peers' = IF e.valid THEN [peers EXCEPT ![s] = @ \ {e.id}] ELSE peers
  /\ UNCHANGED <<expect, conf, boot>>

IgnoreEvent(s) ==
  /\ Handle(s, {"update", "reap"})
  /\ UNCHANGED <<peers, expect, conf, boot>>

-----------------------------------------------------------------------------
(* Raft *)

\* A leader that is elected has the last committed configuration.
Acquire(s) ==
  /\ life[s] = "up" /\ role[s] = "follower" /\ s \in Ids(conf[s])
  /\ \A t \in Running : role[t] # "leader"
  /\ committed \in {{}, conf[s]}
  /\ role' = [role EXCEPT ![s] = "leader"]
  /\ committed' = conf[s]
  /\ UNCHANGED <<plan, agent, view, conf, leaderVars, changes, halts>>

\* The pass of a leader that is one no more ends with an error.
Lose(s) ==
  /\ role[s] = "leader"
  /\ role' = [role EXCEPT ![s] = "follower"]
  /\ todo' = [todo EXCEPT ![s] = {}]
  /\ fix' = [fix EXCEPT ![s] = NoFix]
  /\ UNCHANGED <<plan, agent, view, conf, committed, changes, halts>>

\* The leader's log reaches a server at the address of the configuration.
Replicate(s, t) ==
  /\ role[t] = "leader" /\ life[s] = "up" /\ role[s] = "follower"
  /\ [id |-> s, addr |-> view[s][s].addr] \in conf[t]
  /\ conf[s] # conf[t]
  /\ conf' = [conf EXCEPT ![s] = conf[t]]
  /\ UNCHANGED <<plan, agent, view, role, committed, leaderVars, changes, halts>>

\* The configuration of the leader becomes c, unless raft refuses it.  If the
\* leader is not part of it its raft shuts down, and nothing more is done.
Commit(s, c, left, next) ==
  LET out == s \notin Ids(c)
      ok == WellFormed(c)
  IN /\ conf' = IF ok THEN [conf EXCEPT ![s] = c] ELSE conf
     /\ committed' = IF ok THEN c ELSE committed
     /\ role' = IF ok /\ out THEN [role EXCEPT ![s] = "shutdown"] ELSE role
     /\ todo' = [todo EXCEPT ![s] = IF ok /\ ~out THEN left ELSE {}]
     /\ fix' = [fix EXCEPT ![s] = IF ok /\ ~out THEN next ELSE NoFix]

Without(c, id) == {x \in c : x.id # id}

-----------------------------------------------------------------------------
(* Reconciliation *)

Reconciling(s) == todo[s] # {} \/ fix[s] # NoFix

\* A pass starts: the members reconcileMember does something for, as they are now.
Reconcile(s) ==
  /\ role[s] = "leader" /\ ~Reconciling(s)
  /\ todo' = [todo EXCEPT ![s] =
       {[id |-> m, addr |-> view[s][m].addr, status |-> view[s][m].status] :
          m \in {n \in Found(s) : view[s][n].status # "failed"}}]
  /\ UNCHANGED <<plan, agent, view, raft, fix, changes, halts>>

\* addRaftPeer does not add a second server in bootstrap mode.
OtherBootstraps(s, id) ==
  tag[id] = 1 /\ \E m \in Servers \ {id} : view[s][m].status # "none" /\ view[s][m].valid /\ tag[m] = 1

\* Mutant of InConf: the address is not compared.
InConfById(s, r) == r.id \in Ids(conf[s])

\* Mutant of InConf: a server that is there is replaced all the same.
NeverInConf(s, r) == FALSE

InConf(s, r) == [id |-> r.id, addr |-> r.addr] \in conf[s]

\* Mutant of InTheWay: only the ID is compared.
SameId(s, r) == {x \in conf[s] : x.id = r.id}

\* Servers with the address or the ID of the peer.
InTheWay(s, r) == {x \in conf[s] : x.addr = r.addr \/ x.id = r.id}

\* addRaftPeer up to the first call that changes the configuration.
AddRaftPeer(s, r) ==
  /\ r.status = "alive"
  /\ fix' = IF \/ OtherBootstraps(s, r.id)
               \/ r.id = s /\ Cardinality(conf[s]) < 3
               \/ InConf(s, r)
              THEN fix
              ELSE [fix EXCEPT ![s] = [peer |-> {[id |-> r.id, addr |-> r.addr]},
                                       old |-> InTheWay(s, r)]]
  /\ todo' = [todo EXCEPT ![s] = @ \ {r}]
  /\ UNCHANGED raft

RemoveRaftPeer(s, r) ==
  /\ r.status = "left"
  /\ IF r.id \in Ids(conf[s])
       THEN Commit(s, Without(conf[s], r.id), todo[s] \ {r}, NoFix)
       ELSE todo' = [todo EXCEPT ![s] = @ \ {r}] /\ UNCHANGED <<fix, raft>>

\* The next member of the pass, in any order.
ReconcileMember(s) ==
  /\ fix[s] = NoFix
  /\ \E r \in todo[s] : AddRaftPeer(s, r) \/ RemoveRaftPeer(s, r)
  /\ UNCHANGED <<plan, agent, view, changes, halts>>

\* addRaftPeer: RemoveServer of what is in the way, then AddVoter.
FixPeer(s) ==
  /\ fix[s] # NoFix
  /\ \/ \E x \in fix[s].old :
          Commit(s, Without(conf[s], x.id), todo[s], [fix[s] EXCEPT !.old = @ \ {x}])
     \/ \E p \in fix[s].peer :
          fix[s].old = {} /\ Commit(s, Without(conf[s], p.id) \cup {p}, todo[s], NoFix)
  /\ UNCHANGED <<plan, agent, view, changes, halts>>

\* An operator removes a peer by its ID.
RaftRemovePeerByID(s, id) ==
  /\ role[s] = "leader" /\ changes < plan.changes
  /\ id \in Ids(conf[s])
  /\ WellFormed(Without(conf[s], id))
  /\ Commit(s, Without(conf[s], id), todo[s], fix[s])
  /\ changes' = changes + 1
  /\ UNCHANGED <<plan, agent, view, halts>>

LeaderStep(s) == Reconcile(s) \/ ReconcileMember(s) \/ FixPeer(s)

Next ==
  \/ \E s \in Running :
       \/ Start(s) \/ JoinFails(s) \/ Ready(s) \/ Halt(s)
       \/ NodeJoin(s) \/ NodeFailed(s) \/ IgnoreEvent(s)
       \/ Acquire(s) \/ Lose(s)
       \/ Reconcile(s) \/ ReconcileMember(s) \/ FixPeer(s)
  \/ \E s \in Running, m \in Servers : Change(s, m) \/ RaftRemovePeerByID(s, m)
  \/ \E s, t \in Running : Replicate(s, t)

Spec == Init /\ [][Next]_vars

\* A leader's passes go on as long as it leads: the interval ends, and raft
\* commits what a leader asks for.
FairSpec == Spec /\ \A s \in Local : WF_vars(LeaderStep(s))

-----------------------------------------------------------------------------
(* Properties. *)

\* The servers of the region agree on how many they expect.
Agreed(n) == n > 1 /\ \A m \in Local : tag[m] \in {0, n}

Majorities(c) == {q \in SUBSET c : 2 * Cardinality(q) > Cardinality(c)}

\* If the servers agree on how many are expected, and half of that many and one
\* is more than half of all servers there are, no two of them bootstrap
\* configurations that could elect a leader each, whatever they know of each
\* other, failed members, restarts and changed addresses included
\* (serf.go:82-134).
OneCluster ==
  \A n \in {tag[s] : s \in Running} :
    Agreed(n) /\ 2 * (n \div 2 + 1) > Cardinality(Local) =>
      \A s, t \in Running : \A p \in Majorities(boot[s]), q \in Majorities(boot[t]) :
        p # {} /\ q # {} => p \cap q # {}

\* When all events are handled, no server is listed as a peer that serf has
\* for failed or gone with its tags, however joins and failures were merged
\* (serf.go:17-54, 143-178).
PeersFollow ==
  \A s \in Running : life[s] = "up" /\ events[s] = <<>> =>
    \A m \in peers[s] : view[s][m].valid => view[s][m].status = "alive"

\* When a pass comes to add a peer, nothing in the configuration has its ID or
\* address any more, so raft does not refuse it, though the configuration was
\* read before the removals and peers are removed by hand (leader.go:239-270).
AddIsAccepted ==
  \A s \in Running : fix[s] # NoFix /\ fix[s].old = {} =>
    \A p \in fix[s].peer, x \in conf[s] : x.id # p.id /\ x.addr # p.addr

Own(s) == [id |-> s, addr |-> view[s][s].addr]

\* A pass removes the leader itself, which shuts its raft down, only if its
\* address in the configuration is wrong or another member has it
\* (leader.go:218-257).
KeepsItself ==
  [][\A s \in Local :
       role[s] = "leader" /\ Own(s) \in conf[s] /\ Own(s) \notin conf'[s] =>
         changes' # changes \/ \E p \in fix[s].peer : p.id # s /\ p.addr = Own(s).addr]_vars

\* Every other server of the region that is alive is a voter at its address,
\* and none that has left is one.
InStep(s) ==
  \A m \in Found(s) \ {s} :
    LET x == [id |-> m, addr |-> view[s][m].addr] IN
    /\ view[s][m].status = "alive" => x \in conf[s] \/ OtherBootstraps(s, m)
    /\ view[s][m].status = "left" => m \notin Ids(conf[s])

\* No two members are alive at one address, the leader's in the configuration included.
Apart(s) ==
  /\ Own(s) \in conf[s]
  /\ \A m, n \in Found(s) :
       view[s][m].status = "alive" /\ view[s][n].status = "alive"
         /\ view[s][m].addr = view[s][n].addr => m = n

\* If a leader stays, the members it sees come to rest at addresses of their
\* own, and the configuration is in step with them from some time on: no order
\* of passes, changes and removals by hand leaves a live server out or a gone
\* one in (leader.go:142-176).
Converges ==
  \A s \in Local : <>[](role[s] = "leader" /\ Apart(s)) => <>[]InStep(s)

=============================================================================
