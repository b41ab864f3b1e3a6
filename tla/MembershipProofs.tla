-------------------------- MODULE MembershipProofs --------------------------
(***************************************************************************)
(* Servers that agree on how many they expect never bootstrap two          *)
(* clusters; a pass never asks raft for a peer that is in conflict with    *)
(* the configuration, and removes the leader itself only with a cause; and *)
(* with no event queued no server that serf has for failed is listed.  All *)
(* for any number of servers, plans and addresses.                         *)
(***************************************************************************)
EXTENDS Membership, FiniteSetTheorems, TLAPS

\* Zenon checks every step that does not name SMT.
USE Zenon

\* What a server bootstrapped with: at least as many servers as it expects,
\* all of its region, unless it expects one.
BootInv ==
  /\ plan \in Plans
  /\ DOMAIN conf = Local
  /\ expect \in [Local -> Nat]
  /\ \A s \in Local : expect[s] \in {0, tag[s]}
  /\ boot \in [Local -> SUBSET Local]
  /\ \A s \in Local : boot[s] # {} => \/ tag[s] = 1
                                      \/ tag[s] # 0 /\ Cardinality(boot[s]) >= tag[s]

\* The names of what a server sees are the servers it has found.
LEMMA SeenIds ==
  ASSUME NEW s PROVE Ids(Seen(s)) = Found(s)
<1>1. ASSUME NEW i \in Ids(Seen(s)) PROVE i \in Found(s)
  <2>1. PICK x \in Seen(s) : i = x.id
    BY DEF Ids
  <2>2. PICK m \in Found(s) : x = [id |-> m, addr |-> view[s][m].addr]
    BY DEF Seen
  <2> QED
    BY <2>1, <2>2
<1>2. ASSUME NEW m \in Found(s) PROVE m \in Ids(Seen(s))
  <2>1. [id |-> m, addr |-> view[s][m].addr] \in Seen(s)
    BY DEF Seen
  <2>2. [id |-> m, addr |-> view[s][m].addr].id = m
    OBVIOUS
  <2> QED
    BY <2>1, <2>2 DEF Ids
<1> QED
  BY <1>1, <1>2

\* A plan gives every server an expectation, and only local servers run.
LEMMA PlanTyped ==
  ASSUME plan \in Plans
  PROVE  tag \in [Servers -> Nat] /\ Running \subseteq Local /\ Local \subseteq Servers
  BY MembershipAssumption DEF MembershipAssumption, Plan, tag, Running

\* maybeBootstrap keeps the invariant (serf.go:57-141).
LEMMA BootstrapStep ==
  ASSUME BootInv, NEW s \in Running, MaybeBootstrap(s), UNCHANGED plan
  PROVE  BootInv'
<1>1. tag \in [Servers -> Nat] /\ s \in Local /\ Local \subseteq Servers
  BY PlanTyped DEF BootInv
<1>2. tag' = tag
  BY DEF tag
<1>3. CASE UNCHANGED <<expect, conf, boot>>
  BY <1>2, <1>3 DEF BootInv
<1>4. CASE expect' = [expect EXCEPT ![s] = 0] /\ UNCHANGED <<conf, boot>>
  BY <1>1, <1>2, <1>4 DEF BootInv
<1>5. CASE /\ expect[s] # 0 /\ Enough(s)
           /\ expect' = [expect EXCEPT ![s] = 0]
           /\ conf' = [conf EXCEPT ![s] = IF WellFormed(Seen(s)) THEN Seen(s) ELSE {}]
           /\ boot' = [boot EXCEPT ![s] = Ids(conf'[s])]
  <2>1. conf'[s] = Seen(s) \/ conf'[s] = {}
    BY <1>1, <1>5 DEF BootInv
  <2>2. Ids(conf'[s]) = Found(s) \/ Ids(conf'[s]) = {}
    BY <2>1, SeenIds DEF Ids
  <2>3. Found(s) \subseteq Local
    BY DEF Found
  <2>4. expect[s] = tag[s] /\ Cardinality(Found(s)) >= tag[s]
    BY <1>1, <1>5 DEF BootInv, Enough
  <2>5. \A t \in Local : boot'[t] = IF t = s THEN Ids(conf'[s]) ELSE boot[t]
    BY <1>1, <1>5 DEF BootInv
  <2>6. boot' \in [Local -> SUBSET Local]
    BY SMT, <1>1, <1>5, <2>2, <2>3 DEF BootInv
  <2>7. \A t \in Local : boot'[t] # {} => \/ tag[t] = 1
                                          \/ tag[t] # 0 /\ Cardinality(boot'[t]) >= tag[t]
    BY <1>1, <1>5, <2>2, <2>4, <2>5 DEF BootInv
  <2>8. DOMAIN conf' = Local /\ expect' \in [Local -> Nat]
        /\ \A t \in Local : expect'[t] \in {0, tag[t]}
    BY <1>1, <1>5 DEF BootInv
  <2> QED
    BY <1>2, <2>6, <2>7, <2>8 DEF BootInv
<1> QED
  BY <1>3, <1>4, <1>5 DEF MaybeBootstrap

\* Only Ready, Halt and NodeJoin touch what a server expects or bootstrapped with.
LEMMA BootKept ==
  ASSUME BootInv, UNCHANGED <<plan, expect, boot>>, DOMAIN conf' = DOMAIN conf
  PROVE  BootInv'
  BY DEF BootInv, tag

\* Every step keeps the invariant.
LEMMA BootStep ==
  ASSUME BootInv, [Next]_vars
  PROVE  BootInv'
<1> USE DEF agent, raft, leaderVars
<1>0. tag \in [Servers -> Nat] /\ Running \subseteq Local /\ Local \subseteq Servers
  BY PlanTyped DEF BootInv
<1>1. ASSUME NEW s \in Running, Start(s) \/ JoinFails(s) \/ NodeFailed(s) \/ IgnoreEvent(s)
      PROVE BootInv'
  BY <1>1, BootKept DEF Start, JoinFails, NodeFailed, IgnoreEvent, Handle
<1>2. ASSUME NEW s \in Running, Ready(s) PROVE BootInv'
  <2>1. UNCHANGED <<plan, expect>> /\ DOMAIN conf' = Local /\ tag' = tag
    BY <1>2 DEF Ready, BootInv, tag
  <2>2. CASE BootAlone(s)
    <3>1. tag[s] = 1 /\ boot' = [boot EXCEPT ![s] = {s}]
      BY <1>2, <2>2 DEF Ready, BootAlone
    <3> QED
      BY <1>0, <2>1, <3>1 DEF BootInv
  <2>3. CASE ~BootAlone(s)
    BY <1>2, <2>1, <2>3, BootKept DEF Ready, BootInv
  <2> QED
    BY <2>2, <2>3
<1>3. ASSUME NEW s \in Running, Halt(s) PROVE BootInv'
  <2>1. UNCHANGED <<plan, conf, boot>> /\ expect' = [expect EXCEPT ![s] = tag[s]] /\ tag' = tag
    BY <1>3 DEF Halt, tag
  <2> QED
    BY <1>0, <2>1 DEF BootInv
<1>4. ASSUME NEW s \in Running, NodeJoin(s) PROVE BootInv'
  <2>1. UNCHANGED plan
    BY <1>4 DEF NodeJoin, Handle
  <2>2. MaybeBootstrap(s) \/ UNCHANGED <<expect, conf, boot>>
    BY <1>4 DEF NodeJoin
  <2> QED
    BY <2>1, <2>2, BootstrapStep, BootKept
<1>5. ASSUME NEW s \in Running, Acquire(s) \/ Lose(s) \/ Reconcile(s) PROVE BootInv'
  BY <1>5, BootKept DEF Acquire, Lose, Reconcile
<1>6. ASSUME NEW s \in Running, NEW c, NEW x, NEW y, Commit(s, c, x, y)
      PROVE DOMAIN conf' = DOMAIN conf
  BY <1>6 DEF Commit
<1>7. ASSUME NEW s \in Running, ReconcileMember(s) PROVE BootInv'
  <2>1. UNCHANGED <<plan, expect, boot>>
    BY <1>7 DEF ReconcileMember
  <2>2. PICK r \in todo[s] : AddRaftPeer(s, r) \/ RemoveRaftPeer(s, r)
    BY <1>7 DEF ReconcileMember
  <2>3. DOMAIN conf' = DOMAIN conf
    BY <1>6, <2>2 DEF AddRaftPeer, RemoveRaftPeer
  <2> QED
    BY <2>1, <2>3, BootKept
<1>8. ASSUME NEW s \in Running, FixPeer(s) PROVE BootInv'
  <2>1. UNCHANGED <<plan, expect, boot>>
    BY <1>8 DEF FixPeer
  <2>2. DOMAIN conf' = DOMAIN conf
    BY <1>6, <1>8 DEF FixPeer
  <2> QED
    BY <2>1, <2>2, BootKept
<1>9. ASSUME NEW s \in Running, NEW m \in Servers, Change(s, m) \/ RaftRemovePeerByID(s, m)
      PROVE BootInv'
  <2>1. UNCHANGED <<plan, expect, boot>>
    BY <1>9 DEF Change, RaftRemovePeerByID
  <2>2. DOMAIN conf' = DOMAIN conf
    BY <1>6, <1>9 DEF Change, RaftRemovePeerByID
  <2> QED
    BY <2>1, <2>2, BootKept
<1>10. ASSUME NEW s \in Running, NEW t \in Running, Replicate(s, t) PROVE BootInv'
  BY <1>10, BootKept DEF Replicate
<1>11. CASE UNCHANGED vars
  BY <1>11, BootKept DEF vars
<1> QED
  BY <1>1, <1>2, <1>3, <1>4, <1>5, <1>7, <1>8, <1>9, <1>10, <1>11 DEF Next

\* Two majorities of sets of at least n servers meet if half of n and one, twice,
\* is more than there are servers.
LEMMA MajoritiesMeet ==
  ASSUME NEW L, IsFiniteSet(L), NEW n \in Nat, 2 * (n \div 2 + 1) > Cardinality(L),
         NEW b \in SUBSET L, NEW c \in SUBSET L, Cardinality(b) >= n, Cardinality(c) >= n,
         NEW p \in Majorities(b), NEW q \in Majorities(c)
  PROVE  p \cap q # {}
<1>1. p \subseteq L /\ q \subseteq L /\ 2 * Cardinality(p) > Cardinality(b)
      /\ 2 * Cardinality(q) > Cardinality(c)
  BY DEF Majorities
<1>2. IsFiniteSet(p) /\ IsFiniteSet(q) /\ IsFiniteSet(b) /\ IsFiniteSet(c) /\ p \cup q \subseteq L
  BY <1>1, FS_Subset
<1>3. /\ Cardinality(p) \in Nat /\ Cardinality(q) \in Nat /\ Cardinality(L) \in Nat
      /\ Cardinality(b) \in Nat /\ Cardinality(c) \in Nat
  BY <1>2, FS_CardinalityType
<1>4. Cardinality(p \cup q) <= Cardinality(L)
  BY <1>2, FS_Subset
<1>5. SUFFICES ASSUME p \cap q = {} PROVE FALSE
  OBVIOUS
<1>6. Cardinality(p \cup q) = Cardinality(p) + Cardinality(q)
  <2>1. Cardinality(p \cup q) = Cardinality(p) + Cardinality(q) - Cardinality(p \cap q)
    BY <1>2, FS_Union
  <2>2. Cardinality(p \cap q) = 0
    BY <1>5, FS_EmptySet
  <2> QED
    BY SMT, <1>3, <2>1, <2>2
<1>7. Cardinality(p) >= n \div 2 + 1 /\ Cardinality(q) >= n \div 2 + 1
  BY SMT, <1>1, <1>3
<1> QED
  BY SMT, <1>3, <1>4, <1>6, <1>7

\* Servers that agree on bootstrap-expect never bootstrap two clusters, for any
\* number of servers and whatever serf tells each of them (serf.go:57-141).
THEOREM ClusterSafe == Spec => []OneCluster
<1>1. Init => BootInv
  <2> SUFFICES ASSUME Init PROVE BootInv
    OBVIOUS
  <2>1. tag \in [Servers -> Nat] /\ Local \subseteq Servers
    BY PlanTyped DEF Init
  <2> QED
    BY <2>1 DEF Init, BootInv
<1>2. BootInv /\ [Next]_vars => BootInv'
  BY BootStep
<1>3. BootInv => OneCluster
  <2> SUFFICES ASSUME BootInv, NEW n \in {tag[s] : s \in Running}, Agreed(n),
                      2 * (n \div 2 + 1) > Cardinality(Local),
                      NEW s \in Running, NEW t \in Running,
                      NEW p \in Majorities(boot[s]), NEW q \in Majorities(boot[t]),
                      p # {}, q # {}
               PROVE  p \cap q # {}
    BY DEF OneCluster
  <2>1. tag \in [Servers -> Nat] /\ Running \subseteq Local /\ Local \subseteq Servers
    BY PlanTyped DEF BootInv
  <2>2. n \in Nat /\ n > 1 /\ tag[s] \in {0, n} /\ tag[t] \in {0, n}
    BY <2>1 DEF Agreed
  <2>3. boot[s] # {} /\ boot[t] # {} /\ boot[s] \subseteq Local /\ boot[t] \subseteq Local
    BY <2>1 DEF Majorities, BootInv
  <2>4. Cardinality(boot[s]) >= n /\ Cardinality(boot[t]) >= n
    BY SMT, <2>1, <2>2, <2>3 DEF BootInv
  <2>5. IsFiniteSet(Local)
    BY MembershipAssumption, FS_Subset DEF MembershipAssumption
  <2> QED
    BY <2>2, <2>3, <2>4, <2>5, MajoritiesMeet
<1> QED
  BY <1>1, <1>2, <1>3, PTL DEF Spec

-----------------------------------------------------------------------------

Clash(x, p) == x.id = p.id \/ x.addr = p.addr

\* Only a leader reconciles; it has a configuration; and what is in the way of
\* the peer it is adding is still to be removed.
FixOK(s) ==
  /\ DOMAIN fix[s] = {"peer", "old"}
  /\ role[s] = "leader" => conf[s] # {}
  /\ todo[s] # {} \/ fix[s] # NoFix => role[s] = "leader"
  /\ \A p \in fix[s].peer, x \in conf[s] : Clash(x, p) => x \in fix[s].old

FixInv ==
  /\ plan \in Plans
  /\ DOMAIN conf = Local /\ DOMAIN role = Local /\ DOMAIN todo = Local /\ DOMAIN fix = Local
  /\ \A s \in Local : FixOK(s)

\* Nothing is in the way of no peer.
LEMMA NoFixFields == NoFix.peer = {} /\ NoFix.old = {} /\ DOMAIN NoFix = {"peer", "old"}
  BY DEF NoFix

\* A step that leaves the configurations and the passes alone keeps the invariant.
LEMMA FixKept ==
  ASSUME FixInv, UNCHANGED <<plan, conf, role, todo, fix>>
  PROVE  FixInv'
  BY DEF FixInv, FixOK, Clash

\* So does a change of the configuration of a server that does not lead.
LEMMA FollowerConf ==
  ASSUME FixInv, NEW s \in Local, role[s] # "leader", NEW c, conf' = [conf EXCEPT ![s] = c],
         UNCHANGED <<plan, role, todo, fix>>
  PROVE  FixInv'
<1>1. fix[s] = NoFix
  BY DEF FixInv, FixOK
<1>2. FixOK(s)'
  BY <1>1, NoFixFields DEF FixInv, FixOK
<1>3. ASSUME NEW t \in Local, t # s PROVE FixOK(t)'
  <2>1. conf'[t] = conf[t]
    BY <1>3 DEF FixInv
  <2> QED
    BY <1>3, <2>1 DEF FixInv, FixOK, Clash
<1> QED
  BY <1>2, <1>3 DEF FixInv

\* And the end of a pass, whatever becomes of the role.
LEMMA PassEnds ==
  ASSUME FixInv, NEW s \in Local, NEW r, r # "leader", role' = [role EXCEPT ![s] = r],
         todo' = [todo EXCEPT ![s] = {}], fix' = [fix EXCEPT ![s] = NoFix],
         UNCHANGED <<plan, conf>>
  PROVE  FixInv'
<1>1. FixOK(s)'
  BY NoFixFields DEF FixInv, FixOK
<1>2. ASSUME NEW t \in Local, t # s PROVE FixOK(t)'
  <2>1. role'[t] = role[t] /\ todo'[t] = todo[t] /\ fix'[t] = fix[t]
    BY <1>2 DEF FixInv
  <2> QED
    BY <1>2, <2>1 DEF FixInv, FixOK, Clash
<1> QED
  BY <1>1, <1>2 DEF FixInv

\* A leader's change of the configuration keeps the invariant if what goes on
\* after it does.
LEMMA CommitKeeps ==
  ASSUME FixInv, NEW s \in Local, role[s] = "leader", NEW c, NEW left, NEW next,
         Commit(s, c, left, next), UNCHANGED plan, DOMAIN next = {"peer", "old"},
         \A p \in next.peer, x \in c : Clash(x, p) => x \in next.old
  PROVE  FixInv'
<1>1. /\ DOMAIN conf' = Local /\ DOMAIN role' = Local /\ DOMAIN todo' = Local /\ DOMAIN fix' = Local
  BY DEF FixInv, Commit
<1>2. FixOK(s)'
  <2>1. CASE WellFormed(c) /\ s \in Ids(c)
    <3>1. conf'[s] = c /\ c # {} /\ role'[s] = "leader" /\ fix'[s] = next
      BY <2>1 DEF FixInv, Commit, WellFormed
    <3> QED
      BY <3>1 DEF FixOK, Clash
  <2>2. CASE WellFormed(c) /\ s \notin Ids(c)
    <3>1. conf'[s] = c /\ c # {} /\ fix'[s] = NoFix /\ todo'[s] = {}
      BY <2>2 DEF FixInv, Commit, WellFormed
    <3> QED
      BY <3>1, NoFixFields DEF FixOK
  <2>3. CASE ~WellFormed(c)
    <3>1. conf'[s] = conf[s] /\ role'[s] = role[s] /\ fix'[s] = NoFix /\ todo'[s] = {}
      BY <2>3 DEF FixInv, Commit
    <3> QED
      BY <3>1, NoFixFields DEF FixInv, FixOK
  <2> QED
    BY <2>1, <2>2, <2>3
<1>3. ASSUME NEW t \in Local, t # s PROVE FixOK(t)'
  <2>1. conf'[t] = conf[t] /\ role'[t] = role[t] /\ todo'[t] = todo[t] /\ fix'[t] = fix[t]
    BY <1>3 DEF FixInv, Commit
  <2> QED
    BY <1>3, <2>1 DEF FixInv, FixOK, Clash
<1> QED
  BY <1>1, <1>2, <1>3 DEF FixInv

\* The next member of a pass.
LEMMA MemberStep ==
  ASSUME FixInv, NEW s \in Local, ReconcileMember(s)
  PROVE  FixInv'
<1>1. UNCHANGED plan /\ fix[s] = NoFix
  BY DEF ReconcileMember
<1>2. PICK r \in todo[s] : AddRaftPeer(s, r) \/ RemoveRaftPeer(s, r)
  BY DEF ReconcileMember
<1>3. role[s] = "leader"
  BY <1>2 DEF FixInv, FixOK
<1>4. ASSUME UNCHANGED <<conf, role>>, todo' = [todo EXCEPT ![s] = @ \ {r}],
             NEW f, DOMAIN fix' = Local, fix'[s] = f, \A t \in Local \ {s} : fix'[t] = fix[t],
             DOMAIN f = {"peer", "old"},
             \A p \in f.peer, x \in conf[s] : Clash(x, p) => x \in f.old
      PROVE  FixInv'
  <2>1. FixOK(s)'
    BY <1>3, <1>4 DEF FixInv, FixOK, Clash
  <2>2. ASSUME NEW t \in Local, t # s PROVE FixOK(t)'
    <3>1. todo'[t] = todo[t] /\ fix'[t] = fix[t]
      BY <1>4, <2>2 DEF FixInv
    <3> QED
      BY <1>4, <2>2, <3>1 DEF FixInv, FixOK, Clash
  <2> QED
    BY <1>1, <1>4, <2>1, <2>2 DEF FixInv
<1>5. CASE AddRaftPeer(s, r)
  <2> DEFINE f == [peer |-> {[id |-> r.id, addr |-> r.addr]}, old |-> InTheWay(s, r)]
  <2>1. UNCHANGED <<conf, role>> /\ todo' = [todo EXCEPT ![s] = @ \ {r}]
    BY <1>5 DEF AddRaftPeer, raft
  <2>2. CASE fix' = [fix EXCEPT ![s] = f]
    <3>1. DOMAIN f = {"peer", "old"}
      OBVIOUS
    <3>2. \A p \in f.peer, x \in conf[s] : Clash(x, p) => x \in f.old
      BY SMT DEF Clash, InTheWay
    <3> HIDE DEF f
    <3>3. DOMAIN fix' = Local /\ fix'[s] = f /\ \A t \in Local \ {s} : fix'[t] = fix[t]
      BY <2>2 DEF FixInv
    <3> QED
      BY <1>4, <2>1, <3>1, <3>2, <3>3
  <2>3. CASE fix' = fix
    <3>1. DOMAIN fix' = Local /\ fix'[s] = NoFix /\ \A t \in Local \ {s} : fix'[t] = fix[t]
      BY <1>1, <2>3 DEF FixInv
    <3> QED
      BY <1>4, <2>1, <3>1, NoFixFields
  <2> QED
    BY <1>5, <2>2, <2>3 DEF AddRaftPeer
<1>6. CASE RemoveRaftPeer(s, r)
  <2>1. CASE Commit(s, Without(conf[s], r.id), todo[s] \ {r}, NoFix)
    BY <1>1, <1>3, <2>1, CommitKeeps, NoFixFields
  <2>2. CASE todo' = [todo EXCEPT ![s] = @ \ {r}] /\ UNCHANGED <<fix, raft>>
    <3>1. /\ DOMAIN fix' = Local /\ fix'[s] = NoFix /\ \A t \in Local \ {s} : fix'[t] = fix[t]
          /\ UNCHANGED <<conf, role>>
      BY <1>1, <2>2 DEF FixInv, raft
    <3> QED
      BY <1>4, <2>2, <3>1, NoFixFields
  <2> QED
    BY <1>6, <2>1, <2>2 DEF RemoveRaftPeer
<1> QED
  BY <1>2, <1>5, <1>6

\* One change of the configuration by addRaftPeer.
LEMMA PeerStep ==
  ASSUME FixInv, NEW s \in Local, FixPeer(s)
  PROVE  FixInv'
<1>1. UNCHANGED plan /\ role[s] = "leader" /\ DOMAIN fix[s] = {"peer", "old"}
  BY DEF FixPeer, FixInv, FixOK
<1>2. ASSUME NEW x \in fix[s].old,
             Commit(s, Without(conf[s], x.id), todo[s], [fix[s] EXCEPT !.old = @ \ {x}])
      PROVE  FixInv'
  <2> DEFINE f == [fix[s] EXCEPT !.old = @ \ {x}]
  <2>1. DOMAIN f = {"peer", "old"} /\ f.peer = fix[s].peer /\ f.old = fix[s].old \ {x}
    BY <1>1
  <2>2. \A p \in f.peer, y \in Without(conf[s], x.id) : Clash(y, p) => y \in f.old
    BY <2>1 DEF FixInv, FixOK, Without
  <2>3. Commit(s, Without(conf[s], x.id), todo[s], f)
    BY <1>2
  <2> HIDE DEF f
  <2> QED
    BY <1>1, <2>1, <2>2, <2>3, CommitKeeps
<1>3. ASSUME NEW p \in fix[s].peer,
             Commit(s, Without(conf[s], p.id) \cup {p}, todo[s], NoFix)
      PROVE  FixInv'
  BY <1>1, <1>3, CommitKeeps, NoFixFields
<1> QED
  BY <1>2, <1>3 DEF FixPeer

\* Every step keeps the invariant.
LEMMA FixStep ==
  ASSUME FixInv, [Next]_vars
  PROVE  FixInv'
<1> USE DEF agent, raft, leaderVars
<1>0. Running \subseteq Local
  BY PlanTyped DEF FixInv
<1>1. ASSUME NEW s \in Running, Start(s) \/ JoinFails(s) \/ NodeFailed(s) \/ IgnoreEvent(s)
      PROVE FixInv'
  BY <1>1, FixKept DEF Start, JoinFails, NodeFailed, IgnoreEvent, Handle
<1>2. ASSUME NEW s \in Running, Ready(s) PROVE FixInv'
  <2>1. UNCHANGED <<plan, role, todo, fix>>
    BY <1>2 DEF Ready
  <2>2. CASE BootAlone(s)
    <3>1. role[s] # "leader"
      BY <1>0, <2>2 DEF BootAlone, FixInv, FixOK
    <3>2. conf' = [conf EXCEPT ![s] = {[id |-> s, addr |-> view[s][s].addr]}]
      BY <1>2, <2>2 DEF Ready
    <3> QED
      BY <1>0, <2>1, <3>1, <3>2, FollowerConf
  <2>3. CASE ~BootAlone(s)
    BY <1>2, <2>1, <2>3, FixKept DEF Ready
  <2> QED
    BY <2>2, <2>3
<1>3. ASSUME NEW s \in Running, Halt(s) \/ Lose(s) PROVE FixInv'
  BY <1>0, <1>3, PassEnds DEF Halt, Lose
<1>4. ASSUME NEW s \in Running, NodeJoin(s) PROVE FixInv'
  <2>1. UNCHANGED <<plan, role, todo, fix>>
    BY <1>4 DEF NodeJoin, Handle
  <2>2. CASE UNCHANGED conf
    BY <2>1, <2>2, FixKept
  <2>3. CASE /\ conf[s] = {}
             /\ conf' = [conf EXCEPT ![s] = IF WellFormed(Seen(s)) THEN Seen(s) ELSE {}]
    <3>1. role[s] # "leader"
      BY <1>0, <2>3 DEF FixInv, FixOK
    <3> QED
      BY <1>0, <2>1, <2>3, <3>1, FollowerConf
  <2> QED
    BY <1>4, <2>2, <2>3 DEF NodeJoin, MaybeBootstrap
<1>5. ASSUME NEW s \in Running, Acquire(s) PROVE FixInv'
  <2>1. UNCHANGED <<plan, conf, todo, fix>> /\ conf[s] # {} /\ role' = [role EXCEPT ![s] = "leader"]
    BY <1>5 DEF Acquire, Ids
  <2> QED
    BY <1>0, <2>1 DEF FixInv, FixOK, Clash
<1>6. ASSUME NEW s \in Running, Reconcile(s) PROVE FixInv'
  <2>1. PICK q : todo' = [todo EXCEPT ![s] = q]
    BY <1>6 DEF Reconcile
  <2>2. UNCHANGED <<plan, conf, role, fix>> /\ role[s] = "leader"
    BY <1>6 DEF Reconcile
  <2> QED
    BY <1>0, <2>1, <2>2 DEF FixInv, FixOK, Clash
<1>7. ASSUME NEW s \in Running, ReconcileMember(s) \/ FixPeer(s) PROVE FixInv'
  BY <1>0, <1>7, MemberStep, PeerStep
<1>8. ASSUME NEW s \in Running, NEW m \in Servers, Change(s, m) PROVE FixInv'
  BY <1>8, FixKept DEF Change
<1>9. ASSUME NEW s \in Running, NEW m \in Servers, RaftRemovePeerByID(s, m) PROVE FixInv'
  <2>1. /\ role[s] = "leader" /\ UNCHANGED plan
        /\ Commit(s, Without(conf[s], m), todo[s], fix[s])
    BY <1>9 DEF RaftRemovePeerByID
  <2>2. /\ DOMAIN fix[s] = {"peer", "old"}
        /\ \A p \in fix[s].peer, x \in Without(conf[s], m) : Clash(x, p) => x \in fix[s].old
    BY <1>0 DEF FixInv, FixOK, Without
  <2> QED
    BY <1>0, <2>1, <2>2, CommitKeeps
<1>10. ASSUME NEW s \in Running, NEW t \in Running, Replicate(s, t) PROVE FixInv'
  BY <1>0, <1>10, FollowerConf DEF Replicate
<1>11. CASE UNCHANGED vars
  BY <1>11, FixKept DEF vars
<1> QED
  BY <1>1, <1>2, <1>3, <1>4, <1>5, <1>6, <1>7, <1>8, <1>9, <1>10, <1>11 DEF Next

\* When a pass comes to AddVoter, no server of the configuration has the ID or
\* the address of the peer, for any number of servers (leader.go:239-270).
THEOREM AddSafe == Spec => []AddIsAccepted
<1>1. Init => FixInv
  BY NoFixFields DEF Init, FixInv, FixOK
<1>2. FixInv /\ [Next]_vars => FixInv'
  BY FixStep
<1>3. FixInv => AddIsAccepted
  <2> SUFFICES ASSUME FixInv, NEW s \in Running, fix[s].old = {},
                      NEW p \in fix[s].peer, NEW x \in conf[s]
               PROVE  x.id # p.id /\ x.addr # p.addr
    BY DEF AddIsAccepted
  <2>1. s \in Local
    BY PlanTyped DEF FixInv
  <2> QED
    BY <2>1 DEF FixInv, FixOK, Clash
<1> QED
  BY <1>1, <1>2, <1>3, PTL DEF Spec

-----------------------------------------------------------------------------

\* What a server that has not started knows, and that a started one, a leader
\* in particular, has itself for alive.
LifeInv ==
  /\ plan \in Plans
  /\ DOMAIN life = Local /\ DOMAIN role = Local /\ DOMAIN view = Local
  /\ \A s \in Local : DOMAIN view[s] = Servers
  /\ \A s \in Local, m \in Servers :
       DOMAIN view[s][m] = {"status", "valid", "addr"} /\ view[s][m].valid \in BOOLEAN
  /\ \A s \in Local :
       /\ role[s] = "leader" => life[s] = "up"
       /\ life[s] # "off" => view[s][s].status = "alive"
       /\ life[s] = "off" => \A m \in Servers : ~view[s][m].valid

\* What server s knows of m becomes v.
Became(s, m, v) == view' = [view EXCEPT ![s][m] = v]

\* What becomes of a view when one member in it changes.
LEMMA ViewOfOne ==
  ASSUME LifeInv, NEW s \in Local, NEW m \in Servers, NEW v, Became(s, m, v)
  PROVE  /\ DOMAIN view' = Local /\ \A t \in Local : DOMAIN view'[t] = Servers
         /\ view'[s][m] = v
         /\ \A t \in Local, n \in Servers : t # s \/ n # m => view'[t][n] = view[t][n]
  BY DEF LifeInv, Became

\* A change of what a server knows of another member, or of its own tags.
LEMMA LifeView ==
  ASSUME LifeInv, NEW s \in Local, NEW m \in Servers, life[s] # "off", NEW v,
         DOMAIN v = {"status", "valid", "addr"}, v.valid \in BOOLEAN,
         m = s => v.status = "alive",
         Became(s, m, v), DOMAIN life' = Local,
         life'[s] # "off" /\ \A t \in Local \ {s} : life'[t] = life[t],
         role[s] = "leader" => life'[s] = "up",
         UNCHANGED <<plan, role>>
  PROVE  LifeInv'
<1> USE PlanTyped
<1>1. s \in Servers /\ Local \subseteq Servers
  BY DEF LifeInv
<1>2. /\ DOMAIN view' = Local /\ \A t \in Local : DOMAIN view'[t] = Servers
      /\ view'[s][m] = v
      /\ \A t \in Local, n \in Servers : t # s \/ n # m => view'[t][n] = view[t][n]
  BY SMT, ViewOfOne
<1>3. \A t \in Local, n \in Servers :
        DOMAIN view'[t][n] = {"status", "valid", "addr"} /\ view'[t][n].valid \in BOOLEAN
  BY SMT, <1>2 DEF LifeInv
<1>4. ASSUME NEW t \in Local
      PROVE  /\ role'[t] = "leader" => life'[t] = "up"
             /\ life'[t] # "off" => view'[t][t].status = "alive"
             /\ life'[t] = "off" => \A n \in Servers : ~view'[t][n].valid
  <2>1. CASE t = s
    BY SMT, <1>1, <1>2, <2>1 DEF LifeInv
  <2>2. CASE t # s
    BY SMT, <1>1, <1>2, <2>2 DEF LifeInv
  <2> QED
    BY <2>1, <2>2
<1> QED
  BY <1>2, <1>3, <1>4 DEF LifeInv

\* A step that leaves views alone, starts and stops no server, and makes leaders of
\* servers that are up only.
LEMMA LifeKept ==
  ASSUME LifeInv, UNCHANGED <<plan, view>>, DOMAIN life' = Local, DOMAIN role' = Local,
         \A s \in Local : /\ life'[s] = "off" <=> life[s] = "off"
                          /\ role'[s] = "leader" => life'[s] = "up"
  PROVE  LifeInv'
  BY DEF LifeInv

EventTypes == {"join", "update", "failed", "leave", "reap"}

\* What server s knows of m becomes v, and an event is queued; if m has its tags and
\* is not alive then, the event says that it went.
Changed(s, m, v, type, valid) ==
  /\ DOMAIN v = {"status", "valid", "addr"} /\ v.valid \in BOOLEAN
  /\ Became(s, m, v)
  /\ Queue(s, m, type, valid)
  /\ v.valid /\ v.status # "alive" => valid /\ type \in {"failed", "leave"}

\* Every change of a view is of that kind.
LEMMA MemberChange ==
  ASSUME LifeInv, NEW s \in Local, NEW m \in Servers, Change(s, m)
  PROVE  \E v : \E type \in EventTypes : \E valid \in BOOLEAN : Changed(s, m, v, type, valid)
<1> USE DEF EventTypes
<1>0. DOMAIN view[s][m] = {"status", "valid", "addr"} /\ view[s][m].valid \in BOOLEAN
  BY DEF LifeInv
<1>1. CASE Joins(s, m)
  <2>1. PICK a \in Addrs[m], b \in BOOLEAN :
          /\ view' = [view EXCEPT ![s][m] = [status |-> "alive", valid |-> b, addr |-> a]]
          /\ Queue(s, m, "join", b)
    BY <1>1 DEF Joins
  <2> DEFINE v == [status |-> "alive", valid |-> b, addr |-> a]
  <2>2. DOMAIN v = {"status", "valid", "addr"} /\ v.valid = b /\ v.status = "alive"
    OBVIOUS
  <2>3. Became(s, m, v)
    BY <2>1 DEF Became
  <2> HIDE DEF v
  <2>4. Changed(s, m, v, "join", b)
    BY <2>1, <2>2, <2>3 DEF Changed
  <2> QED
    BY <2>4
<1>2. CASE Updates(s, m)
  <2> DEFINE v == [view[s][m] EXCEPT !.valid = TRUE]
  <2>1. view[s][m].status = "alive" /\ Became(s, m, v) /\ Queue(s, m, "update", TRUE)
    BY <1>2 DEF Updates, Became
  <2>2. DOMAIN v = {"status", "valid", "addr"} /\ v.valid = TRUE /\ v.status = "alive"
    BY <1>0, <2>1
  <2> HIDE DEF v
  <2>3. Changed(s, m, v, "update", TRUE)
    BY <2>1, <2>2 DEF Changed
  <2> QED
    BY <2>3
<1>3. CASE Goes(s, m)
  <2>1. PICK x \in {<<"failed", "failed">>, <<"left", "leave">>} :
          view' = [view EXCEPT ![s][m].status = x[1]] /\ Queue(s, m, x[2], view[s][m].valid)
    BY <1>3 DEF Goes
  <2> DEFINE v == [view[s][m] EXCEPT !.status = x[1]]
  <2>2. DOMAIN v = {"status", "valid", "addr"} /\ v.valid = view[s][m].valid
    BY <1>0
  <2>3. Became(s, m, v)
    BY <2>1 DEF Became
  <2>4. x[2] \in {"failed", "leave"}
    BY SMT
  <2> HIDE DEF v
  <2>5. Changed(s, m, v, x[2], view[s][m].valid)
    BY <1>0, <2>1, <2>2, <2>3, <2>4 DEF Changed
  <2> QED
    BY <1>0, <2>4, <2>5
<1>4. CASE Reaped(s, m)
  <2>1. Became(s, m, Unknown(m)) /\ Queue(s, m, "reap", view[s][m].valid)
    BY <1>4 DEF Reaped, Became
  <2>2. DOMAIN Unknown(m) = {"status", "valid", "addr"} /\ Unknown(m).valid = FALSE
    BY DEF Unknown
  <2>3. Changed(s, m, Unknown(m), "reap", view[s][m].valid)
    BY <2>1, <2>2 DEF Changed
  <2> QED
    BY <1>0, <2>3
<1> QED
  BY <1>1, <1>2, <1>3, <1>4 DEF Change

\* Every step keeps the invariant.
LEMMA LifeStep ==
  ASSUME LifeInv, [Next]_vars
  PROVE  LifeInv'
<1> USE DEF agent, raft, leaderVars
<1>0. Running \subseteq Local /\ Local \subseteq Servers
  BY PlanTyped DEF LifeInv
<1>1. ASSUME NEW s \in Running, Start(s) PROVE LifeInv'
  <2>1. PICK a \in Addrs[s] :
          view' = [view EXCEPT ![s][s] = [status |-> "alive", valid |-> FALSE, addr |-> a]]
    BY <1>1 DEF Start
  <2> DEFINE v == [status |-> "alive", valid |-> FALSE, addr |-> a]
  <2>2. DOMAIN v = {"status", "valid", "addr"} /\ v.valid = FALSE /\ v.status = "alive"
    OBVIOUS
  <2>3. Became(s, s, v)
    BY <2>1 DEF Became
  <2> HIDE DEF v
  <2>4. s \in Local /\ s \in Servers
    BY <1>0
  <2>5. /\ DOMAIN view' = Local /\ \A t \in Local : DOMAIN view'[t] = Servers
        /\ view'[s][s] = v
        /\ \A t \in Local, n \in Servers : t # s \/ n # s => view'[t][n] = view[t][n]
    BY <2>3, <2>4, ViewOfOne
  <2>6. /\ life[s] = "off" /\ life' = [life EXCEPT ![s] = "joining"] /\ UNCHANGED <<plan, role>>
    BY <1>1 DEF Start
  <2>7. \A t \in Local, n \in Servers :
          DOMAIN view'[t][n] = {"status", "valid", "addr"} /\ view'[t][n].valid \in BOOLEAN
    <3> SUFFICES ASSUME NEW t \in Local, NEW n \in Servers
                 PROVE  DOMAIN view'[t][n] = {"status", "valid", "addr"} /\ view'[t][n].valid \in BOOLEAN
      OBVIOUS
    <3>1. view'[t][n] = v \/ view'[t][n] = view[t][n]
      BY <2>5
    <3>2. DOMAIN view[t][n] = {"status", "valid", "addr"} /\ view[t][n].valid \in BOOLEAN
      BY DEF LifeInv
    <3>3. v.valid \in BOOLEAN
      BY <2>2
    <3> QED
      BY <2>2, <3>1, <3>2, <3>3
  <2>8. ASSUME NEW t \in Local
        PROVE  /\ role'[t] = "leader" => life'[t] = "up"
               /\ life'[t] # "off" => view'[t][t].status = "alive"
               /\ life'[t] = "off" => \A n \in Servers : ~view'[t][n].valid
    <3>1. CASE t = s
      BY <2>2, <2>4, <2>5, <2>6, <3>1 DEF LifeInv
    <3>2. CASE t # s
      BY <1>0, <2>5, <2>6, <3>2 DEF LifeInv
    <3> QED
      BY <3>1, <3>2
  <2> QED
    BY <2>5, <2>6, <2>7, <2>8 DEF LifeInv
<1>2. ASSUME NEW s \in Running, JoinFails(s) PROVE LifeInv'
  <2>1. /\ life[s] = "joining" /\ UNCHANGED <<plan, view, role>>
        /\ life' = [life EXCEPT ![s] = IF attempts'[s] > MaxAttempts THEN "stuck" ELSE @]
    BY <1>2 DEF JoinFails
  <2>2. DOMAIN life' = Local /\ life'[s] \in {"stuck", "joining"} /\ \A t \in Local \ {s} : life'[t] = life[t]
    BY <1>0, <2>1 DEF LifeInv
  <2> QED
    BY <1>0, <2>1, <2>2, LifeKept DEF LifeInv
<1>3. ASSUME NEW s \in Running, Ready(s) PROVE LifeInv'
  <2> DEFINE v == [view[s][s] EXCEPT !.valid = TRUE]
  <2>1. /\ life[s] = "joining" /\ life' = [life EXCEPT ![s] = "up"] /\ UNCHANGED <<plan, role>>
        /\ Became(s, s, v)
    BY <1>3 DEF Ready, Became
  <2>2. s \in Local /\ s \in Servers
    BY <1>0
  <2>3. DOMAIN v = {"status", "valid", "addr"} /\ v.valid \in BOOLEAN /\ v.status = "alive"
    BY <2>1, <2>2 DEF LifeInv
  <2> HIDE DEF v
  <2>4. /\ DOMAIN life' = Local /\ life'[s] = "up" /\ life[s] # "off"
        /\ \A t \in Local \ {s} : life'[t] = life[t]
    BY <2>1, <2>2 DEF LifeInv
  <2> QED
    BY <2>1, <2>2, <2>3, <2>4, LifeView
<1>4. ASSUME NEW s \in Running, Halt(s) PROVE LifeInv'
  <2> DEFINE w == [m \in Servers |-> Unknown(m)]
  <2>1. /\ life' = [life EXCEPT ![s] = "off"] /\ role' = [role EXCEPT ![s] = "follower"]
        /\ view' = [view EXCEPT ![s] = w] /\ UNCHANGED plan
    BY <1>4 DEF Halt
  <2>2. DOMAIN w = Servers
    OBVIOUS
  <2>3. \A m \in Servers : DOMAIN w[m] = {"status", "valid", "addr"} /\ w[m].valid = FALSE
    BY DEF Unknown
  <2> HIDE DEF w
  <2> QED
    BY <1>0, <2>1, <2>2, <2>3 DEF LifeInv
<1>5. ASSUME NEW s \in Running, NodeJoin(s) \/ NodeFailed(s) \/ IgnoreEvent(s) PROVE LifeInv'
  BY <1>5, LifeKept DEF NodeJoin, NodeFailed, IgnoreEvent, Handle, LifeInv
<1>6. ASSUME NEW s \in Running, Acquire(s) PROVE LifeInv'
  BY <1>0, <1>6, LifeKept DEF Acquire, LifeInv
<1>7. ASSUME NEW s \in Running, Lose(s) PROVE LifeInv'
  BY <1>0, <1>7, LifeKept DEF Lose, LifeInv
<1>8. ASSUME NEW s \in Running, NEW c, NEW x, NEW y, Commit(s, c, x, y), UNCHANGED <<plan, view, life>>
      PROVE LifeInv'
  BY <1>0, <1>8, LifeKept DEF Commit, LifeInv
<1>9. ASSUME UNCHANGED <<plan, view, life, role>> PROVE LifeInv'
  BY <1>9, LifeKept DEF LifeInv
<1>10. ASSUME NEW s \in Running, Reconcile(s) PROVE LifeInv'
  BY <1>9, <1>10 DEF Reconcile
<1>11. ASSUME NEW s \in Running, ReconcileMember(s) PROVE LifeInv'
  <2>1. UNCHANGED <<plan, view, life>>
    BY <1>11 DEF ReconcileMember
  <2>2. PICK r \in todo[s] : AddRaftPeer(s, r) \/ RemoveRaftPeer(s, r)
    BY <1>11 DEF ReconcileMember
  <2> QED
    BY <1>8, <1>9, <2>1, <2>2 DEF AddRaftPeer, RemoveRaftPeer
<1>12. ASSUME NEW s \in Running, FixPeer(s) PROVE LifeInv'
  BY <1>8, <1>12 DEF FixPeer
<1>13. ASSUME NEW s \in Running, NEW m \in Servers, RaftRemovePeerByID(s, m) PROVE LifeInv'
  BY <1>8, <1>13 DEF RaftRemovePeerByID
<1>14. ASSUME NEW s \in Running, NEW m \in Servers, Change(s, m) PROVE LifeInv'
  <2>1. s \in Local /\ life[s] # "off" /\ m # s /\ UNCHANGED <<plan, life, role>>
    BY <1>0, <1>14 DEF Change
  <2>2. PICK v : \E type \in EventTypes : \E valid \in BOOLEAN : Changed(s, m, v, type, valid)
    BY <1>14, <2>1, MemberChange
  <2>3. Became(s, m, v) /\ v.valid \in BOOLEAN /\ DOMAIN v = {"status", "valid", "addr"}
    BY <2>2 DEF Changed
  <2> QED
    BY <2>1, <2>3, LifeView DEF LifeInv
<1>15. ASSUME NEW s \in Running, NEW t \in Running, Replicate(s, t) PROVE LifeInv'
  BY <1>9, <1>15 DEF Replicate
<1>16. CASE UNCHANGED vars
  BY <1>9, <1>16 DEF vars
<1> QED
  BY <1>1, <1>2, <1>3, <1>4, <1>5, <1>6, <1>7, <1>10, <1>11, <1>12, <1>13, <1>14, <1>15, <1>16 DEF Next

-----------------------------------------------------------------------------

\* A server's configuration is one raft accepts.  A pass takes the leader for
\* alive at its own address, removes only what is in the way of the peer, as it
\* is in the configuration, and does not replace a leader that is in it as it is.
SelfOK(s) ==
  /\ conf[s] = {} \/ WellFormed(conf[s])
  /\ \A r \in todo[s] : r.id = s => r.status = "alive" /\ r.addr = view[s][s].addr
  /\ fix[s].old # {} => fix[s].peer # {}
  /\ \A x \in fix[s].old, p \in fix[s].peer : Clash(x, p)
  /\ \A x \in fix[s].old, y \in conf[s] : x.id = y.id => x = y
  /\ \A p \in fix[s].peer : p.id = s => Own(s) \notin conf[s]

SelfInv == FixInv /\ LifeInv /\ changes \in Nat /\ \A s \in Local : SelfOK(s)

\* A server nothing changes for.
LEMMA SelfKept ==
  ASSUME NEW s \in Local, SelfOK(s), conf'[s] = conf[s], todo'[s] = todo[s], fix'[s] = fix[s],
         view'[s][s].addr = view[s][s].addr
  PROVE  SelfOK(s)'
<1>1. conf'[s] = {} \/ WellFormed(conf'[s])
  BY DEF SelfOK
<1>2. \A r \in todo'[s] : r.id = s => r.status = "alive" /\ r.addr = view'[s][s].addr
  BY DEF SelfOK
<1>3. /\ fix'[s].old # {} => fix'[s].peer # {}
      /\ \A x \in fix'[s].old, p \in fix'[s].peer : Clash(x, p)
      /\ \A x \in fix'[s].old, y \in conf'[s] : x.id = y.id => x = y
  BY DEF SelfOK
<1>4. Own(s)' = Own(s)
  BY DEF Own
<1>5. \A p \in fix'[s].peer : p.id = s => Own(s)' \notin conf'[s]
  BY <1>4 DEF SelfOK
<1> QED
  BY <1>1, <1>2, <1>3, <1>5 DEF SelfOK, WellFormed, Clash

\* A server that is not in a pass.
LEMMA SelfIdle ==
  ASSUME NEW s \in Local, conf'[s] = {} \/ WellFormed(conf'[s]), todo'[s] = {}, fix'[s] = NoFix
  PROVE  SelfOK(s)'
  BY NoFixFields DEF SelfOK, WellFormed

\* A server that does not lead is not in a pass.
LEMMA FollowerIdle ==
  ASSUME FixInv, NEW s \in Local, role[s] # "leader"
  PROVE  todo[s] = {} /\ fix[s] = NoFix
  BY DEF FixInv, FixOK

\* A leader has a configuration that raft accepts.
LEMMA LeaderConf ==
  ASSUME SelfInv, NEW s \in Local, role[s] = "leader"
  PROVE  WellFormed(conf[s])
  BY DEF SelfInv, FixInv, FixOK, SelfOK

\* A change of the leader's configuration, with nothing to do after it or less
\* of what there was.
LEMMA SelfCommit ==
  ASSUME SelfInv, NEW s \in Local, NEW c, NEW left, NEW next, Commit(s, c, left, next),
         view' = view, left \subseteq todo[s],
         \/ next.peer = {} /\ next.old = {}
         \/ next.peer = fix[s].peer /\ next.old \subseteq fix[s].old /\ c \subseteq conf[s]
  PROVE  SelfOK(s)'
<1>0. SelfOK(s) /\ DOMAIN conf = Local /\ DOMAIN todo = Local /\ DOMAIN fix = Local
  BY DEF SelfInv, FixInv
<1>1. CASE WellFormed(c) /\ s \in Ids(c)
  <2>1. conf'[s] = c /\ todo'[s] = left /\ fix'[s] = next
    BY <1>0, <1>1 DEF Commit
  <2>2. WellFormed(conf'[s])
    BY <1>1, <2>1
  <2>3. \A r \in todo'[s] : r.id = s => r.status = "alive" /\ r.addr = view'[s][s].addr
    BY <1>0, <2>1 DEF SelfOK
  <2>4. /\ fix'[s].old # {} => fix'[s].peer # {}
        /\ \A x \in fix'[s].old, p \in fix'[s].peer : Clash(x, p)
    BY <1>0, <2>1 DEF SelfOK
  <2>5. \A x \in fix'[s].old, y \in conf'[s] : x.id = y.id => x = y
    BY <1>0, <2>1 DEF SelfOK
  <2>6. Own(s)' = Own(s)
    BY DEF Own
  <2>7. \A p \in fix'[s].peer : p.id = s => Own(s)' \notin conf'[s]
    BY <1>0, <2>1, <2>6 DEF SelfOK
  <2> QED
    BY <2>2, <2>3, <2>4, <2>5, <2>7 DEF SelfOK, WellFormed, Clash
<1>2. CASE ~(WellFormed(c) /\ s \in Ids(c))
  <2>1. todo'[s] = {} /\ fix'[s] = NoFix
    BY <1>0, <1>2 DEF Commit
  <2>2. conf'[s] = conf[s] \/ (conf'[s] = c /\ WellFormed(c))
    BY <1>0 DEF Commit
  <2>3. conf'[s] = {} \/ WellFormed(conf'[s])
    BY <1>0, <2>2 DEF SelfOK
  <2> QED
    BY <2>1, <2>3, SelfIdle
<1> QED
  BY <1>1, <1>2

\* What is left of a configuration is part of it.
LEMMA WithoutPart == \A c, id : Without(c, id) \subseteq c
  BY DEF Without

\* The next member of a pass.
LEMMA SelfMember ==
  ASSUME SelfInv, NEW s \in Local, ReconcileMember(s)
  PROVE  SelfOK(s)'
<1>0. /\ SelfOK(s) /\ DOMAIN conf = Local /\ DOMAIN todo = Local /\ DOMAIN fix = Local
      /\ fix[s] = NoFix /\ view' = view
  BY DEF SelfInv, FixInv, ReconcileMember
<1>1. PICK r \in todo[s] : AddRaftPeer(s, r) \/ RemoveRaftPeer(s, r)
  BY DEF ReconcileMember
<1>2. role[s] = "leader"
  BY <1>1, FollowerIdle DEF SelfInv
<1>3. WellFormed(conf[s])
  BY <1>2, LeaderConf
<1>4. ASSUME conf' = conf, todo' = [todo EXCEPT ![s] = @ \ {r}], fix' = fix PROVE SelfOK(s)'
  <2>1. todo'[s] = todo[s] \ {r} /\ conf'[s] = conf[s] /\ fix'[s].peer = {} /\ fix'[s].old = {}
    BY <1>0, <1>4, NoFixFields
  <2>2. \A q \in todo'[s] : q.id = s => q.status = "alive" /\ q.addr = view'[s][s].addr
    BY <1>0, <2>1 DEF SelfOK
  <2> QED
    BY <1>3, <2>1, <2>2 DEF SelfOK, WellFormed
<1>5. CASE AddRaftPeer(s, r)
  <2>1. conf' = conf /\ todo' = [todo EXCEPT ![s] = @ \ {r}]
    BY <1>5 DEF AddRaftPeer, raft
  <2>2. CASE fix' = fix
    BY <1>4, <2>1, <2>2
  <2>3. CASE ~InConf(s, r) /\ fix' = [fix EXCEPT ![s] = [peer |-> {[id |-> r.id, addr |-> r.addr]},
                                                         old |-> InTheWay(s, r)]]
    <3>1. /\ fix'[s].peer = {[id |-> r.id, addr |-> r.addr]} /\ fix'[s].old = InTheWay(s, r)
          /\ conf'[s] = conf[s] /\ todo'[s] = todo[s] \ {r}
      BY <1>0, <2>1, <2>3
    <3>2. \A q \in todo'[s] : q.id = s => q.status = "alive" /\ q.addr = view'[s][s].addr
      BY <1>0, <3>1 DEF SelfOK
    <3>3. \A x \in fix'[s].old, p \in fix'[s].peer : Clash(x, p)
      BY SMT, <3>1 DEF InTheWay, Clash
    <3>4. \A x \in fix'[s].old, y \in conf'[s] : x.id = y.id => x = y
      BY <1>3, <3>1 DEF InTheWay, WellFormed
    <3>5. ASSUME r.id = s PROVE Own(s)' \notin conf'[s]
      <4>1. r.addr = view[s][s].addr
        BY <1>0, <3>5 DEF SelfOK
      <4> QED
        BY <1>0, <2>3, <3>1, <3>5, <4>1 DEF Own, InConf
    <3>6. \A p \in fix'[s].peer : p.id = r.id
      <4>1. [id |-> r.id, addr |-> r.addr].id = r.id
        OBVIOUS
      <4> QED
        BY <3>1, <4>1
    <3>7. fix'[s].peer # {} /\ WellFormed(conf'[s])
      BY <1>3, <3>1
    <3> QED
      BY <3>2, <3>3, <3>4, <3>5, <3>6, <3>7 DEF SelfOK, WellFormed, Clash
  <2> QED
    BY <1>5, <2>2, <2>3 DEF AddRaftPeer
<1>6. CASE RemoveRaftPeer(s, r)
  <2>1. CASE Commit(s, Without(conf[s], r.id), todo[s] \ {r}, NoFix)
    <3>1. todo[s] \ {r} \subseteq todo[s]
      OBVIOUS
    <3> QED
      BY <1>0, <2>1, <3>1, NoFixFields, SelfCommit
  <2>2. CASE todo' = [todo EXCEPT ![s] = @ \ {r}] /\ UNCHANGED <<fix, raft>>
    BY <1>4, <2>2 DEF raft
  <2> QED
    BY <1>6, <2>1, <2>2 DEF RemoveRaftPeer
<1> QED
  BY <1>1, <1>5, <1>6

\* One change of the configuration by addRaftPeer.
LEMMA SelfPeer ==
  ASSUME SelfInv, NEW s \in Local, FixPeer(s)
  PROVE  SelfOK(s)'
<1>0. DOMAIN fix[s] = {"peer", "old"} /\ view' = view
  BY DEF SelfInv, FixInv, FixOK, FixPeer
<1>1. ASSUME NEW x \in fix[s].old,
             Commit(s, Without(conf[s], x.id), todo[s], [fix[s] EXCEPT !.old = @ \ {x}])
      PROVE  SelfOK(s)'
  <2> DEFINE f == [fix[s] EXCEPT !.old = @ \ {x}]
  <2>1. f.peer = fix[s].peer /\ f.old \subseteq fix[s].old
    BY <1>0
  <2>2. Commit(s, Without(conf[s], x.id), todo[s], f)
    BY <1>1
  <2> HIDE DEF f
  <2>3. todo[s] \subseteq todo[s]
    OBVIOUS
  <2> QED
    BY <1>0, <2>1, <2>2, <2>3, WithoutPart, SelfCommit
<1>2. ASSUME NEW p \in fix[s].peer,
             Commit(s, Without(conf[s], p.id) \cup {p}, todo[s], NoFix)
      PROVE  SelfOK(s)'
  <2>1. todo[s] \subseteq todo[s]
    OBVIOUS
  <2> QED
    BY <1>0, <1>2, <2>1, NoFixFields, SelfCommit
<1> QED
  BY <1>1, <1>2 DEF FixPeer

\* A change of one server's configuration, pass and view of itself leaves the others.
LEMMA SelfOthers ==
  ASSUME SelfInv, NEW s \in Local, SelfOK(s)',
         \A t \in Local \ {s} : /\ conf'[t] = conf[t] /\ todo'[t] = todo[t] /\ fix'[t] = fix[t]
                                /\ view'[t][t].addr = view[t][t].addr
  PROVE  \A t \in Local : SelfOK(t)'
<1>1. ASSUME NEW t \in Local, t # s PROVE SelfOK(t)'
  BY <1>1, SelfKept DEF SelfInv
<1> QED
  BY <1>1

\* A leader's step leaves the configurations and the passes of the others.
LEMMA PassOthers ==
  ASSUME SelfInv, NEW s \in Local, ReconcileMember(s) \/ FixPeer(s)
  PROVE  \A t \in Local \ {s} : conf'[t] = conf[t] /\ todo'[t] = todo[t] /\ fix'[t] = fix[t]
<1>0. DOMAIN conf = Local /\ DOMAIN todo = Local /\ DOMAIN fix = Local
  BY DEF SelfInv, FixInv
<1>1. ASSUME NEW c, NEW left, NEW next, Commit(s, c, left, next)
      PROVE  \A t \in Local \ {s} : conf'[t] = conf[t] /\ todo'[t] = todo[t] /\ fix'[t] = fix[t]
  BY <1>0, <1>1 DEF Commit
<1>2. CASE ReconcileMember(s)
  <2>1. PICK r \in todo[s] : AddRaftPeer(s, r) \/ RemoveRaftPeer(s, r)
    BY <1>2 DEF ReconcileMember
  <2>2. CASE AddRaftPeer(s, r)
    BY <1>0, <2>2 DEF AddRaftPeer, raft
  <2>3. CASE RemoveRaftPeer(s, r)
    BY <1>0, <1>1, <2>3 DEF RemoveRaftPeer, raft
  <2> QED
    BY <2>1, <2>2, <2>3
<1>3. CASE FixPeer(s)
  BY <1>1, <1>3 DEF FixPeer
<1> QED
  BY <1>2, <1>3

\* Every step keeps every server's part.
LEMMA SelfStep ==
  ASSUME SelfInv, [Next]_vars
  PROVE  \A s \in Local : SelfOK(s)'
<1> USE DEF agent, raft, leaderVars
<1>0. /\ Running \subseteq Local /\ Local \subseteq Servers /\ LifeInv /\ FixInv
      /\ DOMAIN conf = Local /\ DOMAIN todo = Local /\ DOMAIN fix = Local /\ DOMAIN view = Local
      /\ \A s \in Local : SelfOK(s) /\ DOMAIN view[s] = Servers
  BY PlanTyped DEF SelfInv, FixInv, LifeInv
<1>1. ASSUME UNCHANGED <<conf, todo, fix, view>> PROVE \A s \in Local : SelfOK(s)'
  BY <1>0, <1>1, SelfKept
<1>2. ASSUME NEW s \in Running, Start(s) PROVE \A t \in Local : SelfOK(t)'
  <2>1. s \in Local /\ life[s] = "off" /\ UNCHANGED <<conf, todo, fix>>
    BY <1>0, <1>2 DEF Start
  <2>2. role[s] # "leader"
    BY <1>0, <2>1 DEF LifeInv
  <2>3. SelfOK(s)'
    <3>1. conf'[s] = {} \/ WellFormed(conf'[s])
      BY <1>0, <2>1 DEF SelfOK
    <3> QED
      BY <1>0, <2>1, <2>2, <3>1, FollowerIdle, SelfIdle
  <2>4. \A t \in Local \ {s} : view'[t] = view[t]
    BY <1>0, <1>2 DEF Start
  <2> QED
    BY <2>1, <2>3, <2>4, SelfOthers
<1>3. ASSUME NEW s \in Running, Ready(s) PROVE \A t \in Local : SelfOK(t)'
  <2>1. s \in Local /\ life[s] = "joining" /\ UNCHANGED <<todo, fix>>
    BY <1>0, <1>3 DEF Ready
  <2>2. role[s] # "leader"
    BY <1>0, <2>1 DEF LifeInv
  <2>3. CASE BootAlone(s)
    <3>1. conf' = [conf EXCEPT ![s] = {[id |-> s, addr |-> view[s][s].addr]}]
      BY <1>3, <2>3 DEF Ready
    <3>2. WellFormed(conf'[s])
      BY <1>0, <2>1, <3>1 DEF WellFormed
    <3>3. SelfOK(s)'
      BY <1>0, <2>1, <2>2, <3>2, FollowerIdle, SelfIdle
    <3>4. \A t \in Local \ {s} : view'[t] = view[t] /\ conf'[t] = conf[t]
      BY <1>0, <1>3, <3>1 DEF Ready
    <3> QED
      BY <2>1, <3>3, <3>4, SelfOthers
  <2>4. CASE ~BootAlone(s)
    <3>1. UNCHANGED conf
      BY <1>3, <2>4 DEF Ready
    <3>2. conf'[s] = {} \/ WellFormed(conf'[s])
      BY <1>0, <2>1, <3>1 DEF SelfOK
    <3>3. SelfOK(s)'
      BY <1>0, <2>1, <2>2, <3>2, FollowerIdle, SelfIdle
    <3>4. \A t \in Local \ {s} : view'[t] = view[t]
      BY <1>0, <1>3 DEF Ready
    <3> QED
      BY <2>1, <3>1, <3>3, <3>4, SelfOthers
  <2> QED
    BY <2>3, <2>4
<1>4. ASSUME NEW s \in Running, Halt(s) \/ Lose(s) PROVE \A t \in Local : SelfOK(t)'
  <2>1. /\ s \in Local /\ UNCHANGED conf /\ todo' = [todo EXCEPT ![s] = {}]
        /\ fix' = [fix EXCEPT ![s] = NoFix] /\ \A t \in Local \ {s} : view'[t] = view[t]
    BY <1>0, <1>4 DEF Halt, Lose
  <2>2. SelfOK(s)'
    <3>1. conf'[s] = {} \/ WellFormed(conf'[s])
      BY <1>0, <2>1 DEF SelfOK
    <3> QED
      BY <1>0, <2>1, <3>1, SelfIdle
  <2>3. \A t \in Local \ {s} : todo'[t] = todo[t] /\ fix'[t] = fix[t]
    BY <1>0, <2>1
  <2> QED
    BY <2>1, <2>2, <2>3, SelfOthers
<1>5. ASSUME NEW s \in Running, NodeJoin(s) PROVE \A t \in Local : SelfOK(t)'
  <2>1. s \in Local /\ UNCHANGED <<view, todo, fix>>
    BY <1>0, <1>5 DEF NodeJoin, Handle
  <2>2. CASE UNCHANGED conf
    BY <1>1, <2>1, <2>2
  <2>3. CASE /\ conf[s] = {}
             /\ conf' = [conf EXCEPT ![s] = IF WellFormed(Seen(s)) THEN Seen(s) ELSE {}]
    <3>1. conf'[s] = {} \/ WellFormed(conf'[s])
      BY <1>0, <2>1, <2>3
    <3>2. role[s] # "leader"
      BY <1>0, <2>1, <2>3 DEF FixInv, FixOK
    <3>3. SelfOK(s)'
      BY <1>0, <2>1, <3>1, <3>2, FollowerIdle, SelfIdle
    <3>4. \A t \in Local \ {s} : conf'[t] = conf[t]
      BY <1>0, <2>3
    <3> QED
      BY <2>1, <3>3, <3>4, SelfOthers
  <2> QED
    BY <1>5, <2>2, <2>3 DEF NodeJoin, MaybeBootstrap
<1>6. ASSUME NEW s \in Running, Reconcile(s) PROVE \A t \in Local : SelfOK(t)'
  <2>1. /\ s \in Local /\ UNCHANGED <<view, conf, fix>> /\ role[s] = "leader"
        /\ todo' = [todo EXCEPT ![s] =
             {[id |-> m, addr |-> view[s][m].addr, status |-> view[s][m].status] :
                m \in {n \in Found(s) : view[s][n].status # "failed"}}]
    BY <1>0, <1>6 DEF Reconcile
  <2>2. view[s][s].status = "alive"
    BY <1>0, <2>1 DEF LifeInv
  <2>3. \A r \in todo'[s] : r.id = s => r.status = "alive" /\ r.addr = view[s][s].addr
    <3> SUFFICES ASSUME NEW r \in todo'[s], r.id = s
                 PROVE  r.status = "alive" /\ r.addr = view[s][s].addr
      OBVIOUS
    <3>1. todo'[s] = {[id |-> m, addr |-> view[s][m].addr, status |-> view[s][m].status] :
                        m \in {n \in Found(s) : view[s][n].status # "failed"}}
      BY <1>0, <2>1
    <3>2. PICK m : r = [id |-> m, addr |-> view[s][m].addr, status |-> view[s][m].status]
      BY <3>1
    <3>3. r.id = m /\ r.addr = view[s][m].addr /\ r.status = view[s][m].status
      BY SMT, <3>2
    <3> QED
      BY <2>2, <3>3
  <2>4. SelfOK(s)'
    BY SMT, <1>0, <2>1, <2>3 DEF SelfOK, Own, WellFormed, Clash
  <2>5. \A t \in Local \ {s} : todo'[t] = todo[t]
    BY <1>0, <2>1
  <2> QED
    BY <2>1, <2>4, <2>5, SelfOthers
<1>7. ASSUME NEW s \in Running, ReconcileMember(s) \/ FixPeer(s) PROVE \A t \in Local : SelfOK(t)'
  <2>1. s \in Local /\ view' = view
    BY <1>0, <1>7 DEF ReconcileMember, FixPeer
  <2>2. SelfOK(s)'
    BY <1>7, <2>1, SelfMember, SelfPeer
  <2> QED
    BY <1>7, <2>1, <2>2, PassOthers, SelfOthers
<1>8. ASSUME NEW s \in Running, NEW m \in Servers, Change(s, m) PROVE \A t \in Local : SelfOK(t)'
  <2>1. s \in Local /\ m # s /\ UNCHANGED <<conf, todo, fix>>
    BY <1>0, <1>8 DEF Change
  <2>2. PICK v : \E type \in EventTypes : \E valid \in BOOLEAN : Changed(s, m, v, type, valid)
    BY <1>0, <1>8, <2>1, MemberChange
  <2>3. Became(s, m, v)
    BY <2>2 DEF Changed
  <2>4. \A t \in Local : view'[t][t] = view[t][t]
    BY SMT, <1>0, <2>1, <2>3, ViewOfOne
  <2> QED
    BY <1>0, <2>1, <2>4, SelfKept
<1>9. ASSUME NEW s \in Running, NEW m \in Servers, RaftRemovePeerByID(s, m)
      PROVE  \A t \in Local : SelfOK(t)'
  <2>1. s \in Local /\ view' = view /\ Commit(s, Without(conf[s], m), todo[s], fix[s])
    BY <1>0, <1>9 DEF RaftRemovePeerByID
  <2>2. todo[s] \subseteq todo[s] /\ fix[s].old \subseteq fix[s].old /\ Without(conf[s], m) \subseteq conf[s]
    BY WithoutPart
  <2>3. SelfOK(s)'
    BY <2>1, <2>2, SelfCommit
  <2>4. \A t \in Local \ {s} : conf'[t] = conf[t] /\ todo'[t] = todo[t] /\ fix'[t] = fix[t]
    BY <1>0, <2>1 DEF Commit
  <2> QED
    BY <2>1, <2>3, <2>4, SelfOthers
<1>10. ASSUME NEW s \in Running, NEW t \in Running, Replicate(s, t) PROVE \A u \in Local : SelfOK(u)'
  <2>1. /\ s \in Local /\ t \in Local /\ role[s] # "leader" /\ role[t] = "leader"
        /\ UNCHANGED <<view, todo, fix>> /\ conf' = [conf EXCEPT ![s] = conf[t]]
    BY <1>0, <1>10 DEF Replicate
  <2>2. WellFormed(conf'[s])
    BY <1>0, <2>1, LeaderConf
  <2>3. SelfOK(s)'
    BY <1>0, <2>1, <2>2, FollowerIdle, SelfIdle
  <2>4. \A u \in Local \ {s} : conf'[u] = conf[u]
    BY <1>0, <2>1
  <2> QED
    BY <2>1, <2>3, <2>4, SelfOthers
<1>11. ASSUME NEW s \in Running, JoinFails(s) \/ NodeFailed(s) \/ IgnoreEvent(s) \/ Acquire(s)
       PROVE  \A t \in Local : SelfOK(t)'
  BY <1>1, <1>11 DEF JoinFails, NodeFailed, IgnoreEvent, Handle, Acquire
<1>12. CASE UNCHANGED vars
  BY <1>1, <1>12 DEF vars
<1> QED
  BY <1>2, <1>3, <1>4, <1>5, <1>6, <1>7, <1>8, <1>9, <1>10, <1>11, <1>12 DEF Next

\* Changes are only counted up.
LEMMA ChangesStep ==
  ASSUME changes \in Nat, [Next]_vars
  PROVE  changes' = changes \/ changes' = changes + 1
<1> USE DEF agent, raft, leaderVars
<1>1. ASSUME NEW s \in Running, Start(s) \/ JoinFails(s) \/ Ready(s) \/ Halt(s) PROVE changes' = changes
  BY <1>1 DEF Start, JoinFails, Ready, Halt
<1>2. ASSUME NEW s \in Running, NodeJoin(s) \/ NodeFailed(s) \/ IgnoreEvent(s) PROVE changes' = changes
  BY <1>2 DEF NodeJoin, NodeFailed, IgnoreEvent, Handle
<1>3. ASSUME NEW s \in Running, Acquire(s) \/ Lose(s) \/ Reconcile(s) \/ ReconcileMember(s) \/ FixPeer(s)
      PROVE changes' = changes
  BY <1>3 DEF Acquire, Lose, Reconcile, ReconcileMember, FixPeer
<1>4. ASSUME NEW s \in Running, NEW m \in Servers, Change(s, m) \/ RaftRemovePeerByID(s, m)
      PROVE changes' = changes + 1
  BY <1>4 DEF Change, RaftRemovePeerByID
<1>5. ASSUME NEW s \in Running, NEW t \in Running, Replicate(s, t) PROVE changes' = changes
  BY <1>5 DEF Replicate
<1>6. CASE UNCHANGED vars
  BY <1>6 DEF vars
<1> QED
  BY <1>1, <1>2, <1>3, <1>4, <1>5, <1>6 DEF Next

\* A pass in which the leader is at its own address in the configuration takes it out
\* only for another member at that address (leader.go:218-257).
LEMMA PassKeepsItself ==
  ASSUME SelfInv, NEW s \in Local, ReconcileMember(s) \/ FixPeer(s),
         Own(s) \in conf[s], Own(s) \notin conf'[s]
  PROVE  \E p \in fix[s].peer : p.id # s /\ p.addr = Own(s).addr
<1>0. SelfOK(s) /\ DOMAIN conf = Local /\ Own(s).id = s
  BY DEF SelfInv, FixInv, Own
<1>1. ASSUME NEW c, NEW left, NEW next, Commit(s, c, left, next) PROVE Own(s) \notin c
  BY <1>0, <1>1 DEF Commit
<1>2. CASE ReconcileMember(s)
  <2>1. PICK r \in todo[s] : AddRaftPeer(s, r) \/ RemoveRaftPeer(s, r)
    BY <1>2 DEF ReconcileMember
  <2>2. r.status = "left" /\ Commit(s, Without(conf[s], r.id), todo[s] \ {r}, NoFix)
    BY <2>1 DEF AddRaftPeer, RemoveRaftPeer, raft
  <2>3. r.id = s
    BY <1>0, <1>1, <2>2 DEF Without
  <2> QED
    BY <1>0, <2>2, <2>3 DEF SelfOK
<1>3. ASSUME NEW x \in fix[s].old, Own(s) \notin Without(conf[s], x.id)
      PROVE  \E p \in fix[s].peer : p.id # s /\ p.addr = Own(s).addr
  <2>1. x.id = s /\ x = Own(s)
    BY <1>0, <1>3 DEF Without, SelfOK
  <2>2. PICK p \in fix[s].peer : Clash(x, p)
    BY <1>0 DEF SelfOK
  <2>3. p.id # s
    BY <1>0 DEF SelfOK
  <2> QED
    BY <1>0, <2>1, <2>2, <2>3 DEF Clash
<1>4. ASSUME NEW p \in fix[s].peer, Own(s) \notin Without(conf[s], p.id) \cup {p} PROVE FALSE
  <2>1. p.id = s
    BY <1>0, <1>4 DEF Without
  <2> QED
    BY <1>0, <2>1 DEF SelfOK
<1>5. CASE FixPeer(s)
  BY <1>1, <1>3, <1>4, <1>5 DEF FixPeer
<1> QED
  BY <1>2, <1>5

\* A leader's configuration changes in its own passes, and when a peer is removed by hand.
LEMMA LeaderChanges ==
  ASSUME SelfInv, [Next]_vars, NEW s \in Local, role[s] = "leader", conf'[s] # conf[s]
  PROVE  ReconcileMember(s) \/ FixPeer(s) \/ changes' # changes
<1> USE DEF agent, raft, leaderVars
<1>0. /\ Running \subseteq Local /\ DOMAIN conf = Local /\ changes \in Nat /\ conf[s] # {}
      /\ life[s] = "up"
  BY PlanTyped DEF SelfInv, FixInv, FixOK, LifeInv
<1>1. ASSUME NEW t \in Running, Start(t) \/ JoinFails(t) \/ Halt(t) PROVE FALSE
  BY <1>1 DEF Start, JoinFails, Halt
<1>2. ASSUME NEW t \in Running, Ready(t) PROVE FALSE
  BY <1>0, <1>2 DEF Ready, BootAlone
<1>3. ASSUME NEW t \in Running, NodeJoin(t) PROVE FALSE
  <2>1. UNCHANGED conf \/ (conf[t] = {} /\ \E c : conf' = [conf EXCEPT ![t] = c])
    BY <1>3 DEF NodeJoin, MaybeBootstrap
  <2> QED
    BY <1>0, <2>1
<1>4. ASSUME NEW t \in Running, NodeFailed(t) \/ IgnoreEvent(t) \/ Acquire(t) \/ Lose(t) \/ Reconcile(t)
      PROVE FALSE
  BY <1>4 DEF NodeFailed, IgnoreEvent, Acquire, Lose, Reconcile
<1>5. ASSUME NEW t \in Running, ReconcileMember(t) \/ FixPeer(t) PROVE t = s
  BY <1>0, <1>5, PassOthers
<1>6. ASSUME NEW t \in Running, NEW m \in Servers, Change(t, m) \/ RaftRemovePeerByID(t, m)
      PROVE changes' # changes
  <2>1. changes' = changes + 1
    BY <1>6 DEF Change, RaftRemovePeerByID
  <2> QED
    BY SMT, <1>0, <2>1
<1>7. ASSUME NEW t \in Running, NEW u \in Running, Replicate(t, u) PROVE FALSE
  BY <1>0, <1>7 DEF Replicate
<1>8. CASE UNCHANGED vars
  BY <1>8 DEF vars
<1> QED
  BY <1>1, <1>2, <1>3, <1>4, <1>5, <1>6, <1>7, <1>8 DEF Next

\* Nothing is known and nothing is going on before a server starts.
LEMMA SelfInit == Init => SelfInv
<1> SUFFICES ASSUME Init PROVE SelfInv
  OBVIOUS
<1>1. FixInv
  BY NoFixFields DEF Init, FixInv, FixOK
<1>2. LifeInv
  <2>1. \A m \in Servers : DOMAIN Unknown(m) = {"status", "valid", "addr"} /\ Unknown(m).valid = FALSE
    BY DEF Unknown
  <2>2. \A s \in Local : DOMAIN view[s] = Servers /\ \A m \in Servers : view[s][m] = Unknown(m)
    BY DEF Init
  <2>3. \A s \in Local, m \in Servers :
          DOMAIN view[s][m] = {"status", "valid", "addr"} /\ view[s][m].valid = FALSE
    BY <2>1, <2>2
  <2> QED
    BY <2>2, <2>3 DEF Init, LifeInv
<1>3. \A s \in Local : SelfOK(s)
  BY NoFixFields DEF Init, SelfOK
<1> QED
  BY <1>1, <1>2, <1>3 DEF Init, SelfInv

\* Every server's part holds always.
LEMMA SelfInvariant == Spec => []SelfInv
<1>1. SelfInv /\ [Next]_vars => SelfInv'
  <2> SUFFICES ASSUME SelfInv, [Next]_vars PROVE SelfInv'
    OBVIOUS
  <2>1. FixInv' /\ LifeInv'
    BY FixStep, LifeStep DEF SelfInv
  <2>2. changes' \in Nat
    BY SMT, ChangesStep DEF SelfInv
  <2>3. \A s \in Local : SelfOK(s)'
    BY SelfStep
  <2> QED
    BY <2>1, <2>2, <2>3 DEF SelfInv
<1> QED
  BY <1>1, SelfInit, PTL DEF Spec

\* A leader that is in the configuration at its own address removes itself in no
\* pass but one that adds another member at that address, for any number of servers,
\* plans and addresses, and whatever was removed by hand meanwhile (leader.go:218-257).
THEOREM ItselfSafe == Spec => KeepsItself
<1>1. ASSUME SelfInv, [Next]_vars
      PROVE  [\A s \in Local :
                role[s] = "leader" /\ Own(s) \in conf[s] /\ Own(s) \notin conf'[s] =>
                  changes' # changes \/ \E p \in fix[s].peer : p.id # s /\ p.addr = Own(s).addr]_vars
  <2> SUFFICES ASSUME NEW s \in Local, role[s] = "leader", Own(s) \in conf[s], Own(s) \notin conf'[s],
                      changes' = changes
               PROVE  \E p \in fix[s].peer : p.id # s /\ p.addr = Own(s).addr
    OBVIOUS
  <2>1. ReconcileMember(s) \/ FixPeer(s)
    BY <1>1, LeaderChanges
  <2> QED
    BY <1>1, <2>1, PassKeepsItself
<1> QED
  BY <1>1, SelfInvariant, PTL DEF Spec, KeepsItself

-----------------------------------------------------------------------------

Event == [type : EventTypes, id : Servers, valid : BOOLEAN]

\* Events that take member m off the peers, and that put it there.
Gone(e, m) == e.id = m /\ e.valid /\ e.type \in {"failed", "leave"}
Back(e, m) == e.id = m /\ e.valid /\ e.type = "join"

\* Once the events of q are handled m is no peer: it is not in `known', or it goes,
\* and no join of it is queued after that.
Out(q, m, known) ==
  \E i \in 0..Len(q) :
    /\ i = 0 => m \notin known
    /\ i > 0 => Gone(q[i], m)
    /\ \A j \in (i + 1)..Len(q) : ~Back(q[j], m)

\* An event that is not a join of m leaves it out.
LEMMA OutAppend ==
  ASSUME NEW q \in Seq(Event), NEW e \in Event, NEW m, NEW known, Out(q, m, known), ~Back(e, m)
  PROVE  Out(Append(q, e), m, known)
<1>1. PICK i \in 0..Len(q) : /\ i = 0 => m \notin known
                             /\ i > 0 => Gone(q[i], m)
                             /\ \A j \in (i + 1)..Len(q) : ~Back(q[j], m)
  BY DEF Out
<1>2. /\ Len(Append(q, e)) = Len(q) + 1 /\ Len(q) \in Nat
      /\ \A j \in 1..Len(q) : Append(q, e)[j] = q[j] /\ Append(q, e)[Len(q) + 1] = e
  BY SMT
<1>3. Append(q, e)[Len(q) + 1] = e
  BY SMT
<1> DEFINE r == Append(q, e)
<1> HIDE DEF r
<1>4. i \in 0..Len(r) /\ (i > 0 => r[i] = q[i])
  BY SMT, <1>2 DEF r
<1>5. ASSUME NEW j \in (i + 1)..Len(r) PROVE ~Back(r[j], m)
  <2>1. CASE j = Len(q) + 1
    BY <1>3, <2>1 DEF r
  <2>2. CASE j # Len(q) + 1
    <3>1. j \in (i + 1)..Len(q) /\ j \in 1..Len(q)
      BY SMT, <1>2, <2>2 DEF r
    <3> QED
      BY <1>1, <1>2, <3>1 DEF r
  <2> QED
    BY <2>1, <2>2
<1>6. Out(r, m, known)
  BY <1>1, <1>4, <1>5 DEF Out
<1> QED
  BY <1>6 DEF r

\* The event that m goes puts it out.
LEMMA OutGone ==
  ASSUME NEW q \in Seq(Event), NEW e \in Event, NEW m, NEW known, Gone(e, m)
  PROVE  Out(Append(q, e), m, known)
<1> DEFINE r == Append(q, e)
<1>1. Len(r) = Len(q) + 1 /\ Len(q) \in Nat /\ r[Len(q) + 1] = e
  BY SMT
<1> HIDE DEF r
<1>2. /\ Len(r) \in 0..Len(r) /\ Len(r) > 0 /\ Gone(r[Len(r)], m)
      /\ \A j \in (Len(r) + 1)..Len(r) : ~Back(r[j], m)
  BY SMT, <1>1
<1>3. Out(r, m, known)
  BY SMT, <1>2 DEF Out
<1> QED
  BY <1>3 DEF r

\* Leaving out an event moves those after it by one.
LEMMA DroppedIs ==
  ASSUME NEW q \in Seq(Event), NEW i \in 1..Len(q)
  PROVE  /\ Dropped(q, i) \in Seq(Event) /\ Len(Dropped(q, i)) = Len(q) - 1
         /\ \A j \in 1..(Len(q) - 1) : Dropped(q, i)[j] = IF j < i THEN q[j] ELSE q[j + 1]
<1> DEFINE a == SubSeq(q, 1, i - 1)
           b == SubSeq(q, i + 1, Len(q))
<1>1. Len(q) \in Nat /\ i \in Nat
  BY SMT
<1>2. a \in Seq(Event) /\ Len(a) = i - 1 /\ \A j \in 1..(i - 1) : a[j] = q[j]
  BY SMT, <1>1
<1>3. b \in Seq(Event) /\ Len(b) = Len(q) - i /\ \A j \in 1..(Len(q) - i) : b[j] = q[i + j]
  BY SMT, <1>1
<1> HIDE DEF a, b
<1>4. a \o b \in Seq(Event) /\ Len(a \o b) = Len(q) - 1
  <2>1. a \in Seq(Event) /\ b \in Seq(Event)
    BY <1>2, <1>3
  <2>2. a \o b \in Seq(Event) /\ Len(a \o b) = Len(a) + Len(b)
    BY SMT, <2>1
  <2>3. Len(a) + Len(b) = Len(q) - 1
    BY SMT, <1>1, <1>2, <1>3
  <2> QED
    BY <2>2, <2>3
<1>5. ASSUME NEW j \in 1..(Len(q) - 1) PROVE (a \o b)[j] = IF j < i THEN q[j] ELSE q[j + 1]
  <2>1. (a \o b)[j] = IF j <= Len(a) THEN a[j] ELSE b[j - Len(a)]
    BY SMT, <1>1, <1>2, <1>3
  <2>2. CASE j < i
    BY SMT, <1>1, <1>2, <2>1, <2>2
  <2>3. CASE ~(j < i)
    <3>1. j - (i - 1) \in 1..(Len(q) - i) /\ i + (j - (i - 1)) = j + 1
      BY SMT, <1>1, <2>3
    <3>2. b[j - (i - 1)] = q[j + 1]
      BY <1>3, <3>1
    <3>3. (a \o b)[j] = b[j - (i - 1)]
      BY SMT, <1>1, <1>2, <2>1, <2>3
    <3> QED
      BY <2>3, <3>2, <3>3
  <2> QED
    BY <2>2, <2>3
<1> QED
  BY <1>4, <1>5 DEF Dropped, a, b

\* Leaving out an event of another member leaves m out.
LEMMA OutDropped ==
  ASSUME NEW q \in Seq(Event), NEW k \in 1..Len(q), NEW m, NEW known, Out(q, m, known),
         q[k].id # m
  PROVE  Out(Dropped(q, k), m, known)
<1>1. PICK i \in 0..Len(q) : /\ i = 0 => m \notin known
                             /\ i > 0 => Gone(q[i], m)
                             /\ \A j \in (i + 1)..Len(q) : ~Back(q[j], m)
  BY DEF Out
<1> DEFINE r == Dropped(q, k)
<1>2. /\ Len(r) = Len(q) - 1
      /\ \A j \in 1..(Len(q) - 1) : r[j] = IF j < k THEN q[j] ELSE q[j + 1]
  BY DroppedIs
<1> HIDE DEF r
<1>3. Len(q) \in Nat /\ i # k
  BY SMT, <1>1 DEF Gone
<1> DEFINE l == IF i < k THEN i ELSE i - 1
<1>4. l \in 0..Len(r) /\ (l = 0 => i = 0) /\ (l > 0 => r[l] = q[i] /\ i > 0)
  BY SMT, <1>2, <1>3
<1>5. ASSUME NEW j \in (l + 1)..Len(r) PROVE ~Back(r[j], m)
  <2>1. j \in 1..(Len(q) - 1) /\ (j < k => j \in (i + 1)..Len(q)) /\ (~(j < k) => j + 1 \in (i + 1)..Len(q))
    BY SMT, <1>2, <1>3
  <2> QED
    BY <1>1, <1>2, <2>1
<1> HIDE DEF l
<1>6. Out(r, m, known)
  BY <1>1, <1>4, <1>5 DEF Out
<1> QED
  BY <1>6 DEF r

\* What the handler of event e makes of the peers.
PeersAfter(e, known) ==
  IF ~e.valid THEN known
  ELSE IF e.type = "join" THEN known \cup {e.id}
  ELSE IF e.type \in {"failed", "leave"} THEN known \ {e.id} ELSE known

\* Handling the first event leaves out who is out after all of them.
LEMMA OutHandled ==
  ASSUME NEW q \in Seq(Event), q # <<>>, NEW m, NEW known, Out(q, m, known)
  PROVE  Out(Tail(q), m, PeersAfter(Head(q), known))
<1>1. PICK i \in 0..Len(q) : /\ i = 0 => m \notin known
                             /\ i > 0 => Gone(q[i], m)
                             /\ \A j \in (i + 1)..Len(q) : ~Back(q[j], m)
  BY DEF Out
<1> DEFINE r == Tail(q)
<1>2. /\ Len(q) \in Nat /\ Len(q) > 0 /\ Len(r) = Len(q) - 1 /\ Head(q) = q[1]
      /\ \A j \in 1..(Len(q) - 1) : r[j] = q[j + 1]
  BY SMT
<1> HIDE DEF r
<1> DEFINE l == IF i = 0 THEN 0 ELSE i - 1
<1>3. l \in 0..Len(r) /\ (l > 0 => r[l] = q[i] /\ i > 0)
  BY SMT, <1>2
<1>4. ASSUME NEW j \in (l + 1)..Len(r) PROVE ~Back(r[j], m)
  <2>1. j \in 1..(Len(q) - 1) /\ j + 1 \in (i + 1)..Len(q)
    BY SMT, <1>2
  <2> QED
    BY <1>1, <1>2, <2>1
<1>5. ASSUME l = 0 PROVE m \notin PeersAfter(Head(q), known)
  <2>1. CASE i = 0
    <3>1. m \notin known /\ ~Back(Head(q), m)
      BY SMT, <1>1, <1>2, <2>1
    <3> QED
      BY <3>1 DEF PeersAfter, Back
  <2>2. CASE i # 0
    <3>1. Gone(Head(q), m)
      BY SMT, <1>1, <1>2, <1>5, <2>2
    <3> QED
      BY <3>1 DEF PeersAfter, Gone
  <2> QED
    BY <2>1, <2>2
<1> HIDE DEF l
<1>6. Out(r, m, PeersAfter(Head(q), known))
  BY <1>1, <1>3, <1>4, <1>5 DEF Out
<1> QED
  BY <1>6 DEF r

\* A member that serf has for failed or gone, with its tags, is no peer once the
\* events that are queued are handled.
FollowInv ==
  /\ LifeInv
  /\ events \in [Local -> Seq(Event)]
  /\ peers \in [Local -> SUBSET Servers]
  /\ \A s \in Local, m \in Servers :
       view[s][m].valid /\ view[s][m].status # "alive" => Out(events[s], m, peers[s])

\* What a server queues is a queue of events, and leaves out of the peers the other
\* members that were, and the member of the event if it goes.
LEMMA QueueIs ==
  ASSUME FollowInv, NEW s \in Local, NEW m \in Servers, NEW type \in EventTypes,
         NEW valid \in BOOLEAN, Queue(s, m, type, valid)
  PROVE  /\ events' \in [Local -> Seq(Event)]
         /\ \A t \in Local \ {s} : events'[t] = events[t]
         /\ \A n \in Servers \ {m} : Out(events[s], n, peers[s]) => Out(events'[s], n, peers[s])
         /\ valid /\ type \in {"failed", "leave"} => Out(events'[s], m, peers[s])
<1> DEFINE e == [type |-> type, id |-> m, valid |-> valid]
           q == events[s]
<1>1. e \in Event /\ e.id = m /\ e.valid = valid /\ e.type = type
  BY DEF Event
<1>2. PICK r \in Seq(Event) : /\ events' = [events EXCEPT ![s] = Append(r, e)]
                              /\ \A n \in Servers \ {m} : Out(q, n, peers[s]) => Out(r, n, peers[s])
  <2>1. q \in Seq(Event)
    BY DEF FollowInv
  <2>2. CASE events' = [events EXCEPT ![s] = Append(q, e)]
    BY <2>1, <2>2
  <2>3. ASSUME NEW i \in 1..Len(q), q[i].id = m, events' = [events EXCEPT ![s] = Append(Dropped(q, i), e)]
        PROVE  \E r \in Seq(Event) :
                 /\ events' = [events EXCEPT ![s] = Append(r, e)]
                 /\ \A n \in Servers \ {m} : Out(q, n, peers[s]) => Out(r, n, peers[s])
    <3>1. Dropped(q, i) \in Seq(Event)
      BY <2>1, DroppedIs
    <3>2. \A n \in Servers \ {m} : Out(q, n, peers[s]) => Out(Dropped(q, i), n, peers[s])
      BY <2>1, <2>3, OutDropped
    <3> QED
      BY <2>3, <3>1, <3>2
  <2> QED
    BY <2>2, <2>3 DEF Queue
<1> HIDE DEF e, q
<1>3. Append(r, e) \in Seq(Event)
  BY SMT, <1>1
<1>4. /\ events' \in [Local -> Seq(Event)] /\ events'[s] = Append(r, e)
      /\ \A t \in Local \ {s} : events'[t] = events[t]
  BY <1>2, <1>3 DEF FollowInv
<1>5. ASSUME NEW n \in Servers \ {m}, Out(q, n, peers[s]) PROVE Out(events'[s], n, peers[s])
  <2>1. Out(r, n, peers[s]) /\ ~Back(e, n)
    BY <1>1, <1>2, <1>5 DEF Back
  <2> QED
    BY <1>1, <1>4, <2>1, OutAppend
<1>6. ASSUME valid, type \in {"failed", "leave"} PROVE Out(events'[s], m, peers[s])
  <2>1. Gone(e, m)
    BY <1>1, <1>6 DEF Gone
  <2> QED
    BY <1>1, <1>4, <2>1, OutGone
<1> QED
  BY <1>4, <1>5, <1>6 DEF q

\* A handled event.
LEMMA FollowHandled ==
  ASSUME FollowInv, LifeInv', NEW s \in Local, events[s] # <<>>,
         events' = [events EXCEPT ![s] = Tail(@)], view' = view,
         peers' = [peers EXCEPT ![s] = PeersAfter(Head(events[s]), @)]
  PROVE  FollowInv'
<1>0. events[s] \in Seq(Event)
  BY DEF FollowInv
<1>1. events[s] \in Seq(Event) /\ Head(events[s]) \in Event /\ Tail(events[s]) \in Seq(Event)
  BY SMT, <1>0
<1>2. /\ events' \in [Local -> Seq(Event)] /\ events'[s] = Tail(events[s])
      /\ \A t \in Local \ {s} : events'[t] = events[t]
  BY <1>1 DEF FollowInv
<1>3. Head(events[s]).id \in Servers
  BY <1>1 DEF Event
<1>4. PeersAfter(Head(events[s]), peers[s]) \in SUBSET Servers
  BY <1>3 DEF PeersAfter, FollowInv
<1>5. /\ peers' \in [Local -> SUBSET Servers] /\ peers'[s] = PeersAfter(Head(events[s]), peers[s])
      /\ \A t \in Local \ {s} : peers'[t] = peers[t]
  BY <1>4 DEF FollowInv
<1>6. ASSUME NEW t \in Local, NEW m \in Servers, view[t][m].valid, view[t][m].status # "alive"
      PROVE  Out(events'[t], m, peers'[t])
  <2>1. Out(events[t], m, peers[t])
    BY <1>6 DEF FollowInv
  <2>2. CASE t = s
    BY <1>1, <1>2, <1>5, <2>1, <2>2, OutHandled
  <2>3. CASE t # s
    BY <1>2, <1>5, <2>1, <2>3
  <2> QED
    BY <2>2, <2>3
<1> QED
  BY <1>2, <1>5, <1>6 DEF FollowInv

\* A change of a view.
LEMMA FollowChange ==
  ASSUME FollowInv, LifeInv', NEW s \in Local, NEW m \in Servers, Change(s, m)
  PROVE  FollowInv'
<1>0. LifeInv /\ peers' = peers
  BY DEF FollowInv, Change
<1>1. PICK v : \E type \in EventTypes : \E valid \in BOOLEAN : Changed(s, m, v, type, valid)
  BY <1>0, MemberChange
<1>2. PICK type \in EventTypes : \E valid \in BOOLEAN : Changed(s, m, v, type, valid)
  BY <1>1
<1>3. PICK valid \in BOOLEAN : Changed(s, m, v, type, valid)
  BY <1>2
<1>4. Queue(s, m, type, valid) /\ Became(s, m, v)
  BY <1>3 DEF Changed
<1>5. /\ view'[s][m] = v
      /\ \A t \in Local, n \in Servers : t # s \/ n # m => view'[t][n] = view[t][n]
  BY <1>0, <1>4, ViewOfOne
<1>6. /\ events' \in [Local -> Seq(Event)]
      /\ \A t \in Local \ {s} : events'[t] = events[t]
      /\ \A n \in Servers \ {m} : Out(events[s], n, peers[s]) => Out(events'[s], n, peers[s])
      /\ valid /\ type \in {"failed", "leave"} => Out(events'[s], m, peers[s])
  BY <1>4, QueueIs
<1>7. ASSUME NEW t \in Local, NEW n \in Servers, view'[t][n].valid, view'[t][n].status # "alive"
      PROVE  Out(events'[t], n, peers[t])
  <2>1. CASE t = s /\ n = m
    BY <1>3, <1>5, <1>6, <1>7, <2>1 DEF Changed
  <2>2. CASE t # s \/ n # m
    <3>1. Out(events[t], n, peers[t])
      BY <1>5, <1>7, <2>2 DEF FollowInv
    <3> QED
      BY SMT, <1>6, <2>2, <3>1
  <2> QED
    BY <2>1, <2>2
<1> QED
  BY <1>0, <1>6, <1>7 DEF FollowInv

\* A step that changes no view, queue or peer.
LEMMA FollowKept ==
  ASSUME FollowInv, LifeInv', UNCHANGED <<view, events, peers>>
  PROVE  FollowInv'
  BY DEF FollowInv

\* The steps of the event loop.
LEMMA FollowLoop ==
  ASSUME FollowInv, LifeInv', NEW s \in Local, NodeJoin(s) \/ NodeFailed(s) \/ IgnoreEvent(s)
  PROVE  FollowInv'
<1> DEFINE e == Head(events[s])
<1>1. events[s] # <<>> /\ events' = [events EXCEPT ![s] = Tail(@)] /\ view' = view
  BY DEF NodeJoin, NodeFailed, IgnoreEvent, Handle
<1>2. peers = [peers EXCEPT ![s] = peers[s]]
  BY DEF FollowInv
<1>3. peers' = [peers EXCEPT ![s] = PeersAfter(e, @)]
  <2>1. CASE NodeJoin(s)
    <3>1. e.type = "join" /\ IF e.valid THEN peers' = [peers EXCEPT ![s] = @ \cup {e.id}] ELSE peers' = peers
      BY <2>1 DEF NodeJoin, Handle
    <3> HIDE DEF e
    <3> QED
      BY <1>2, <3>1 DEF PeersAfter
  <2>2. CASE NodeFailed(s)
    <3>1. /\ e.type \in {"failed", "leave"}
          /\ peers' = IF e.valid THEN [peers EXCEPT ![s] = @ \ {e.id}] ELSE peers
      BY <2>2 DEF NodeFailed, Handle
    <3> HIDE DEF e
    <3> QED
      BY <1>2, <3>1 DEF PeersAfter
  <2>3. CASE IgnoreEvent(s)
    <3>1. e.type \in {"update", "reap"} /\ peers' = peers
      BY <2>3 DEF IgnoreEvent, Handle
    <3> HIDE DEF e
    <3> QED
      BY <1>2, <3>1 DEF PeersAfter
  <2> QED
    BY <2>1, <2>2, <2>3
<1> QED
  BY <1>1, <1>3, FollowHandled

\* Every step keeps the invariant.
LEMMA FollowStep ==
  ASSUME FollowInv, [Next]_vars
  PROVE  FollowInv'
<1> USE DEF agent, raft, leaderVars
<1>0. Running \subseteq Local /\ Local \subseteq Servers /\ LifeInv /\ LifeInv'
  BY PlanTyped, LifeStep DEF FollowInv, LifeInv
<1>1. ASSUME NEW s \in Running, Start(s) PROVE FollowInv'
  <2> DEFINE e == [type |-> "join", id |-> s, valid |-> TRUE]
  <2>1. s \in Local /\ s \in Servers /\ peers' = peers /\ life[s] = "off" /\ life'[s] = "joining"
    BY <1>0, <1>1 DEF Start, LifeInv
  <2>2. e \in Event
    BY <2>1 DEF Event, EventTypes
  <2>3. events' = [events EXCEPT ![s] = <<e>>]
    BY <1>1 DEF Start
  <2> HIDE DEF e
  <2>4. events' \in [Local -> Seq(Event)] /\ \A t \in Local \ {s} : events'[t] = events[t]
    BY SMT, <2>1, <2>2, <2>3 DEF FollowInv
  <2>5. \A t \in Local \ {s} : view'[t] = view[t]
    BY <1>0, <1>1 DEF Start, LifeInv
  <2>6. view'[s][s].status = "alive"
    BY <1>0, <2>1 DEF LifeInv
  <2>7. \A m \in Servers \ {s} : view'[s][m] = view[s][m] /\ ~view[s][m].valid
    BY SMT, <1>0, <1>1, <2>1 DEF Start, LifeInv
  <2>8. ASSUME NEW t \in Local, NEW m \in Servers, view'[t][m].valid, view'[t][m].status # "alive"
        PROVE  Out(events'[t], m, peers'[t])
    <3>1. t # s
      BY <2>6, <2>7, <2>8
    <3>2. view[t][m].valid /\ view[t][m].status # "alive"
      BY <2>5, <2>8, <3>1
    <3> QED
      BY <2>1, <2>4, <3>1, <3>2 DEF FollowInv
  <2> QED
    BY <1>0, <2>1, <2>4, <2>8 DEF FollowInv
<1>2. ASSUME NEW s \in Running, Ready(s) PROVE FollowInv'
  <2>1. s \in Local /\ s \in Servers /\ UNCHANGED <<events, peers>> /\ life'[s] = "up"
    BY <1>0, <1>2 DEF Ready, LifeInv
  <2>2. view'[s][s].status = "alive"
    BY <1>0, <2>1 DEF LifeInv
  <2>3. \A t \in Local, m \in Servers : t # s \/ m # s => view'[t][m] = view[t][m]
    BY SMT, <1>0, <1>2, <2>1 DEF Ready, LifeInv
  <2>4. ASSUME NEW t \in Local, NEW m \in Servers, view'[t][m].valid, view'[t][m].status # "alive"
        PROVE  Out(events[t], m, peers[t])
    <3>1. t # s \/ m # s
      BY <2>2, <2>4
    <3> QED
      BY <2>3, <2>4, <3>1 DEF FollowInv
  <2> QED
    BY <1>0, <2>1, <2>4 DEF FollowInv
<1>3. ASSUME NEW s \in Running, Halt(s) PROVE FollowInv'
  <2>1. /\ s \in Local /\ life'[s] = "off" /\ events' = [events EXCEPT ![s] = <<>>]
        /\ peers' = [peers EXCEPT ![s] = {}] /\ \A t \in Local \ {s} : view'[t] = view[t]
    BY <1>0, <1>3 DEF Halt, LifeInv
  <2>2. \A m \in Servers : ~view'[s][m].valid
    BY <1>0, <2>1 DEF LifeInv
  <2>3. /\ events' \in [Local -> Seq(Event)] /\ peers' \in [Local -> SUBSET Servers]
        /\ \A t \in Local \ {s} : events'[t] = events[t] /\ peers'[t] = peers[t]
    BY SMT, <2>1 DEF FollowInv
  <2>4. ASSUME NEW t \in Local, NEW m \in Servers, view'[t][m].valid, view'[t][m].status # "alive"
        PROVE  Out(events'[t], m, peers'[t])
    <3>1. t # s
      BY <2>2, <2>4
    <3> QED
      BY <2>1, <2>3, <2>4, <3>1 DEF FollowInv
  <2> QED
    BY <1>0, <2>3, <2>4 DEF FollowInv
<1>4. ASSUME NEW s \in Running, NodeJoin(s) \/ NodeFailed(s) \/ IgnoreEvent(s) PROVE FollowInv'
  BY <1>0, <1>4, FollowLoop
<1>5. ASSUME NEW s \in Running, NEW m \in Servers, Change(s, m) PROVE FollowInv'
  BY <1>0, <1>5, FollowChange
<1>6. ASSUME NEW s \in Running, JoinFails(s) \/ Acquire(s) \/ Lose(s) \/ Reconcile(s)
      PROVE FollowInv'
  BY <1>0, <1>6, FollowKept DEF JoinFails, Acquire, Lose, Reconcile
<1>7. ASSUME NEW s \in Running, ReconcileMember(s) \/ FixPeer(s) PROVE FollowInv'
  BY <1>0, <1>7, FollowKept DEF ReconcileMember, FixPeer
<1>8. ASSUME NEW s \in Running, NEW m \in Servers, RaftRemovePeerByID(s, m) PROVE FollowInv'
  BY <1>0, <1>8, FollowKept DEF RaftRemovePeerByID
<1>9. ASSUME NEW s \in Running, NEW t \in Running, Replicate(s, t) PROVE FollowInv'
  BY <1>0, <1>9, FollowKept DEF Replicate
<1>10. CASE UNCHANGED vars
  BY <1>0, <1>10, FollowKept DEF vars
<1> QED
  BY <1>1, <1>2, <1>3, <1>4, <1>5, <1>6, <1>7, <1>8, <1>9, <1>10 DEF Next

\* With no event queued, no peer is a member that serf has for failed or gone with its
\* tags, for any number of servers, queues of any length, and whichever events serf
\* merged (serf.go:17-54, 143-178).
THEOREM FollowSafe == Spec => []PeersFollow
<1>1. Init => FollowInv
  <2> SUFFICES ASSUME Init PROVE FollowInv
    OBVIOUS
  <2>1. LifeInv /\ \A s \in Local : life[s] = "off"
    BY SelfInit DEF SelfInv, Init
  <2>2. \A s \in Local, m \in Servers : ~view[s][m].valid
    BY <2>1 DEF LifeInv
  <2>3. <<>> \in Seq(Event)
    BY SMT
  <2> QED
    BY <2>1, <2>2, <2>3 DEF Init, FollowInv
<1>2. FollowInv /\ [Next]_vars => FollowInv'
  BY FollowStep
<1>3. FollowInv => PeersFollow
  <2> SUFFICES ASSUME FollowInv, NEW s \in Running, events[s] = <<>>, NEW m \in peers[s],
                      view[s][m].valid, view[s][m].status # "alive"
               PROVE  FALSE
    BY DEF PeersFollow
  <2>1. s \in Local
    BY PlanTyped DEF FollowInv, LifeInv
  <2>2. Out(events[s], m, peers[s])
    BY <2>1 DEF FollowInv
  <2>3. 0..Len(events[s]) = {0}
    BY SMT
  <2> QED
    BY <2>2, <2>3 DEF Out
<1> QED
  BY <1>1, <1>2, <1>3, PTL DEF Spec

=============================================================================
