-------------------------- MODULE SchedulerProofs --------------------------
(***************************************************************************)
(* Machine-checked proofs about Scheduler, for any jobs, versions and      *)
(* handlers and any number of terms and requests.                          *)
(***************************************************************************)
EXTENDS Scheduler, TLAPS

\* Zenon checks every step that does not name SMT.
USE Zenon

Pending == Removing \cup Adding

-----------------------------------------------------------------------------
(* Type correctness. *)

\* A call in progress is a pending call: only Idle has the pc "idle".
LEMMA PendingCall ==
  ASSUME StateOK, NEW p \in Procs, call[p].pc # "idle"
  PROVE  call[p] \in Pending
  BY SMT DEF StateOK, Call, Idle, Pending

\* Moving a call to another pc keeps it a call.
LEMMA GotoType ==
  ASSUME StateOK, NEW p \in Procs, call[p] \in Pending, NEW id \in Nat, NEW pc,
         \/ pc \in {"load", "loadRemove", "remove", "delete"}
         \/ pc \in {"add", "store"} /\ call[p].version \in Versions,
         Goto(p, pc, id)
  PROVE  /\ call' \in [Procs -> Call]
         /\ call'[p].pc = pc /\ call'[p].job = call[p].job /\ call'[p].id = id
         /\ call'[p].version = call[p].version
         /\ \A q \in Procs \ {p} : call'[q] = call[q]
  <1> DEFINE new == [pc |-> pc, job |-> call[p].job, version |-> call[p].version, id |-> id]
  <1>1. call' = [call EXCEPT ![p] = new]
    BY DEF Goto, StateOK
  <1>2. call[p].job \in Jobs /\ call[p].version \in Contents
    BY DEF Pending, Removing, Adding, Contents
  <1>3. new \in Call
    BY <1>2 DEF Call, Removing, Adding
  <1> HIDE DEF new
  <1>4. /\ call' \in [Procs -> Call]
        /\ call'[p] = new
        /\ \A q \in Procs \ {p} : call'[q] = call[q]
    BY <1>1, <1>3 DEF StateOK
  <1> QED
    BY SMT, <1>4 DEF new

\* What AddJob does once nothing is set keeps the calls calls.
LEMMA AfterRemoveType ==
  ASSUME StateOK, NEW p \in Procs, call[p] \in Pending, AfterRemove(p)
  PROVE  /\ call' \in [Procs -> Call]
         /\ \A q \in Procs \ {p} : call'[q] = call[q]
         /\ \/ call'[p] = Idle /\ call[p].version \notin Versions
            \/ /\ call'[p].pc = "add" /\ call'[p].job = call[p].job
               /\ call'[p].version = call[p].version
  <1>1. CASE call[p].version \in Versions
    <2>1. Goto(p, "add", 0)
      BY <1>1 DEF AfterRemove
    <2> QED
      BY SMT, <1>1, <2>1, GotoType
  <1>2. CASE call[p].version \notin Versions
    BY <1>2 DEF AfterRemove, StateOK, Call
  <1> QED
    BY <1>1, <1>2

\* A new call is a pending call.
LEMMA BeginType ==
  ASSUME StateOK, NEW p \in Procs, NEW j \in Jobs, NEW v \in Contents,
         NEW pc \in {"load", "loadRemove"}, Begin(p, pc, j, v)
  PROVE  /\ call' \in [Procs -> Call]
         /\ call'[p].pc = pc /\ call'[p].job = j /\ call'[p].version = v
         /\ \A q \in Procs \ {p} : call'[q] = call[q]
  <1> DEFINE new == [pc |-> pc, job |-> j, version |-> v, id |-> 0]
  <1>1. new \in Call
    BY DEF Call, Removing
  <1>2. new.pc = pc /\ new.job = j /\ new.version = v
    OBVIOUS
  <1>3. call' = [call EXCEPT ![p] = new]
    BY DEF Begin
  <1> HIDE DEF new
  <1> QED
    BY <1>1, <1>2, <1>3 DEF StateOK

\* What a step of AddJob or RemoveJob does, read off its six cases.
LEMMA CallStepType ==
  ASSUME StateOK, NEW p \in Procs, CallStep(p)
  PROVE  StateOK' /\ \A q \in Procs \ {p} : call'[q] = call[q]
  <1> DEFINE Kept == \A q \in Procs \ {p} : call'[q] = call[q]
  <1>0. call[p] \in Pending
    BY PendingCall DEF CallStep, LoadEntry, LoadId, RemoveEntry, DeleteId, AddEntry, StoreId
  <1>a. /\ call[p].job \in Jobs /\ call[p].id \in Nat /\ call[p].version \in Contents
        /\ cron.set \in BOOLEAN /\ cron.lastId \in Nat /\ cron.entries \in SUBSET Entry
    BY <1>0 DEF Pending, Removing, Adding, Contents, StateOK
  <1>1. CASE LoadEntry(p)
    <2>1. call' \in [Procs -> Call] /\ Kept
      BY <1>0, <1>1, GotoType, AfterRemoveType DEF LoadEntry
    <2> QED
      BY <1>1, <2>1 DEF CallStep, LoadEntry, StateOK
  <1>2. CASE LoadId(p)
    <2>1. entryMap[call[p].job] \in Nat
      BY <1>a DEF StateOK
    <2>2. call' \in [Procs -> Call] /\ Kept
      BY <1>0, <1>2, <2>1, GotoType, AfterRemoveType DEF LoadId
    <2> QED
      BY <1>2, <2>2 DEF CallStep, LoadId, StateOK
  <1>3. CASE RemoveEntry(p)
    <2>1. call' \in [Procs -> Call] /\ Kept
      BY <1>0, <1>3, GotoType DEF RemoveEntry
    <2>2. cron' \in [set : BOOLEAN, lastId : Nat, entries : SUBSET Entry]
      BY <1>3, <1>a DEF RemoveEntry, StateOK
    <2> QED
      BY <1>3, <1>a, <2>1, <2>2 DEF CallStep, RemoveEntry, StateOK
  <1>4. CASE DeleteId(p)
    <2>1. call' \in [Procs -> Call] /\ Kept
      BY <1>0, <1>4, AfterRemoveType DEF DeleteId
    <2>2. entryMap' \in [Jobs -> Nat]
      BY <1>4 DEF DeleteId, StateOK
    <2> QED
      BY <1>4, <2>1, <2>2 DEF CallStep, DeleteId, StateOK
  <1>5. CASE AddEntry(p)
    <2>1. cron.lastId + 1 \in Nat
      BY SMT, <1>a
    <2>2. call' \in [Procs -> Call] /\ Kept
      <3>1. call[p].version \in Versions
        BY <1>0, <1>5 DEF AddEntry, Pending, Removing, Adding
      <3> QED
        BY <1>0, <1>5, <2>1, <3>1, GotoType DEF AddEntry
    <2>3. cron' \in [set : BOOLEAN, lastId : Nat, entries : SUBSET Entry]
      <3> DEFINE new == [id |-> cron.lastId + 1, job |-> call[p].job,
                         version |-> call[p].version]
      <3>1. CASE cron.set
        <4>1. new \in Entry
          BY <1>0, <1>5, <1>a, <2>1 DEF AddEntry, Entry, Pending, Removing, Adding
        <4>2. cron' = [cron EXCEPT !.lastId = new.id, !.entries = @ \cup {new}]
          BY <1>5, <3>1 DEF AddEntry
        <4>3. new.id \in Nat
          BY <2>1
        <4> HIDE DEF new
        <4> QED
          BY <1>a, <4>1, <4>2, <4>3 DEF StateOK
      <3>2. CASE ~cron.set
        BY <1>5, <3>2 DEF AddEntry, StateOK
      <3> QED
        BY <3>1, <3>2
    <2> QED
      BY <1>5, <1>a, <2>2, <2>3 DEF CallStep, AddEntry, StateOK
  <1>6. CASE StoreId(p)
    BY <1>6, <1>a DEF CallStep, StoreId, StateOK, Call
  <1> QED
    BY <1>1, <1>2, <1>3, <1>4, <1>5, <1>6 DEF CallStep

\* The steps that are not steps of AddJob or RemoveJob.
Outer ==
  \/ Request
  \/ \E j \in Jobs : GetEntry(j)
  \/ Acquire \/ Lose
  \/ LeaderStep
  \/ AgentStop

\* They leave EntryJobMap alone, keep or drop the whole cron, and at most
\* begin a call.
OuterFrame ==
  /\ entryMap' = entryMap
  /\ cron' = cron \/ cron'.entries = {}
  /\ \A p \in Procs : \/ call'[p] = call[p]
                      \/ call[p] = Idle /\ call'[p].pc \in {"load", "loadRemove"}

LEMMA OuterStep ==
  ASSUME StateOK, Outer
  PROVE  StateOK' /\ OuterFrame
  <1>1. ASSUME NEW h \in Handlers, NEW j \in Jobs, NEW v \in Versions \cup {Off},
               SetJob(h, j, v)
        PROVE  StateOK' /\ OuterFrame
    <2>1. h \in Procs /\ v \in Contents
      BY DEF Procs, Contents
    <2>2. /\ call' \in [Procs -> Call]
          /\ call'[h].pc = "load"
          /\ \A q \in Procs \ {h} : call'[q] = call[q]
      BY <1>1, <2>1, BeginType DEF SetJob
    <2> QED
      BY SMT, <1>1, <2>1, <2>2 DEF SetJob, StateOK, OuterFrame
  <1>2. ASSUME NEW h \in Handlers, NEW j \in Jobs, DeleteJob(h, j)
        PROVE  StateOK' /\ OuterFrame
    <2>1. h \in Procs /\ Absent \in Contents
      BY DEF Procs, Contents
    <2>2. /\ call' \in [Procs -> Call]
          /\ call'[h].pc = "loadRemove"
          /\ \A q \in Procs \ {h} : call'[q] = call[q]
      BY <1>2, <2>1, BeginType DEF DeleteJob
    <2> QED
      BY SMT, <1>2, <2>1, <2>2 DEF DeleteJob, StateOK, OuterFrame
  <1>3. ASSUME NEW j \in Jobs, NEW v \in Contents, RemoteChange(j, v)
        PROVE  StateOK' /\ OuterFrame
    BY SMT, <1>3 DEF RemoteChange, StateOK, OuterFrame
  <1>4. ASSUME NEW j \in Jobs, GetEntry(j)
        PROVE  StateOK' /\ OuterFrame
    BY <1>4 DEF GetEntry, StateOK, OuterFrame
  <1>5. ASSUME Acquire \/ Lose \/ BeginLoop \/ StartDone \/ Revoke
        PROVE  StateOK' /\ OuterFrame
    BY <1>5 DEF Acquire, Lose, BeginLoop, StartDone, Revoke, StateOK, OuterFrame
  <1>6. ASSUME Establish
        PROVE  StateOK' /\ OuterFrame
    <2>1. todo' \subseteq [job : Jobs, version : Contents]
      BY SMT, <1>6 DEF Establish, GetJobs, StateOK
    <2> QED
      BY <1>6, <2>1 DEF Establish, StateOK, OuterFrame
  <1>7. ASSUME StartCron
        PROVE  StateOK' /\ OuterFrame
    BY SMT, <1>7 DEF StartCron, NewCron, StateOK, OuterFrame
  <1>8. ASSUME StartAdd
        PROVE  StateOK' /\ OuterFrame
    <2>1. PICK t \in todo : Begin(Leader, "load", t.job, t.version) /\ todo' = todo \ {t}
      BY <1>8 DEF StartAdd
    <2>2. Leader \in Procs /\ t.job \in Jobs /\ t.version \in Contents
      BY DEF Procs, StateOK
    <2>3. /\ call' \in [Procs -> Call]
          /\ call'[Leader].pc = "load"
          /\ \A q \in Procs \ {Leader} : call'[q] = call[q]
      BY <2>1, <2>2, BeginType
    <2> QED
      BY <1>8, <2>1, <2>2, <2>3 DEF StartAdd, StateOK, OuterFrame
  <1>9. ASSUME AgentStop
        PROVE  StateOK' /\ OuterFrame
    BY <1>9 DEF AgentStop, NoCron, StateOK, OuterFrame
  <1> QED
    BY <1>1, <1>2, <1>3, <1>4, <1>5, <1>6, <1>7, <1>8, <1>9
       DEF Outer, Request, LeaderStep

\* The scheduler starts well formed.
LEMMA InitType ==
  ASSUME Init
  PROVE  StateOK
  <1>1. call \in [Procs -> Call]
    BY DEF Init, Call
  <1>2. cron \in [set : BOOLEAN, lastId : Nat, entries : SUBSET Entry]
    BY DEF Init, NoCron
  <1> QED
    BY <1>1, <1>2 DEF Init, StateOK, Contents

\* Every state the scheduler reaches is well formed.
THEOREM TypeCorrect == Spec => []TypeOK
  <1>1. Init => TypeOK
    BY InitType DEF Init, TypeOK
  <1>2. TypeOK /\ [Next]_vars => TypeOK'
    <2> SUFFICES ASSUME TypeOK, [Next]_vars PROVE TypeOK'
      OBVIOUS
    <2>1. CASE UNCHANGED vars
      BY <2>1 DEF vars, TypeOK, StateOK
    <2>2. CASE Next
      <3>1. StateOK'
        BY <2>2, CallStepType, OuterStep DEF Next, Step, Outer, TypeOK
      <3>2. overlap' \in BOOLEAN
        BY <2>2 DEF Next, Watch
      <3> QED
        BY <3>1, <3>2 DEF TypeOK
    <2> QED
      BY <2>1, <2>2
  <1> QED
    BY <1>1, <1>2, PTL DEF Spec

-----------------------------------------------------------------------------
(* No panic once started. *)

\* From the first Start on the cron is set, unless the agent is leaving.
CronSet == /\ cron.set \/ leaving \/ terms = 0
           /\ PanicsOnlyBeforeStart

\* However the requests interleave with the leader loop, a handler panics on
\* a missing cron only before the first Start or while the agent leaves.
THEOREM PanicSafe == Spec => []PanicsOnlyBeforeStart
  <1>1. Init => CronSet
    BY DEF Init, CronSet, PanicsOnlyBeforeStart
  <1>2. TypeOK /\ CronSet /\ [Next]_vars => CronSet'
    <2> SUFFICES ASSUME TypeOK, CronSet, [Next]_vars PROVE CronSet'
      OBVIOUS
    <2> USE DEF CronSet, PanicsOnlyBeforeStart
    <2>1. ASSUME NEW p \in Procs, CallStep(p)
          PROVE  cron'.set = cron.set /\ crashed' \in {crashed, ~cron.set}
      BY <2>1 DEF CallStep, LoadEntry, LoadId, RemoveEntry, DeleteId, AddEntry, StoreId, TypeOK,
                      StateOK
    <2>2. ASSUME NEW p \in Procs, CallStep(p)
          PROVE  CronSet'
      BY <2>1, <2>2 DEF CallStep, TypeOK, StateOK
    <2>3. CASE Request
      BY SMT, <2>3 DEF Request, SetJob, DeleteJob, RemoteChange
    <2>4. ASSUME NEW j \in Jobs, GetEntry(j)
          PROVE  CronSet'
      BY <2>4 DEF GetEntry, TypeOK, StateOK
    <2>5. CASE Acquire \/ Lose
      BY SMT, <2>5 DEF Acquire, Lose
    <2>6. CASE LeaderStep /\ ~crashed
      BY SMT, <2>6 DEF LeaderStep, BeginLoop, Establish, StartCron, StartAdd, StartDone,
                  Revoke, NewCron
    <2>7. CASE AgentStop
      BY <2>7 DEF AgentStop
    <2>8. CASE UNCHANGED vars
      BY <2>8 DEF vars
    <2> QED
      BY <2>2, <2>3, <2>4, <2>5, <2>6, <2>7, <2>8 DEF Next, Step
  <1>3. CronSet => PanicsOnlyBeforeStart
    BY DEF CronSet
  <1> QED
    BY <1>1, <1>2, <1>3, TypeCorrect, PTL DEF Spec

-----------------------------------------------------------------------------
(* At most one entry for each job, when calls do not overlap. *)

\* Every entry of the cron has an id of its own, already handed out.
Ids ==
  /\ \A e \in cron.entries : e.id # 0 /\ e.id <= cron.lastId
  /\ \A e, f \in cron.entries : e.id = f.id => e = f

\* EntryJobMap holds the id of every entry, or AddJob is about to store it.
Tracked ==
  \A e \in cron.entries :
    \/ entryMap[e.job] = e.id
    \/ \E p \in Procs : call[p].pc = "store" /\ call[p].job = e.job

\* What a call knows of the entries of its job.
Known(p) ==
  /\ call[p].pc = "remove" => call[p].id = entryMap[call[p].job]
  /\ call[p].pc \in {"delete", "add"} => \A e \in cron.entries : e.job # call[p].job
  /\ call[p].pc = "store" => \A e \in cron.entries : e.job = call[p].job => e.id = call[p].id

\* The inductive invariant.
SerialInv == /\ StateOK
             /\ OneCallAtATime
             /\ Ids
             /\ Tracked
             /\ \A p \in Procs : Known(p)

\* It implies that a job has at most one entry.
LEMMA SerialInvEntries ==
  ASSUME SerialInv
  PROVE  OneEntry
  <1> SUFFICES ASSUME NEW e \in cron.entries, NEW f \in cron.entries, e.job = f.job
               PROVE  e.id = f.id
    BY DEF OneEntry, SerialInv, Ids
  <1>1. CASE \E p \in Procs : call[p].pc = "store" /\ call[p].job = e.job
    BY <1>1 DEF SerialInv, Known
  <1>2. CASE ~\E p \in Procs : call[p].pc = "store" /\ call[p].job = e.job
    BY <1>2 DEF SerialInv, Tracked
  <1> QED
    BY <1>1, <1>2

\* A step outside AddJob and RemoveJob keeps what is known.
LEMMA OuterKeeps ==
  ASSUME SerialInv, Outer
  PROVE  Ids' /\ Tracked' /\ \A p \in Procs : Known(p)'
  <1>0. StateOK' /\ OuterFrame
    BY OuterStep DEF SerialInv
  <1>1. \A p \in Procs : call'[p].pc \in {"remove", "delete", "add", "store"}
                           => call'[p] = call[p]
    BY <1>0 DEF OuterFrame
  <1>2. CASE cron' = cron
    <2>1. \A p \in Procs : call[p].pc = "store" => call'[p] = call[p]
      BY SMT, <1>0 DEF OuterFrame, Idle
    <2>2. Ids'
      BY <1>2 DEF SerialInv, Ids
    <2>3. Tracked'
      BY SMT, <1>0, <1>2, <2>1 DEF SerialInv, Tracked, OuterFrame
    <2>4. ASSUME NEW p \in Procs PROVE Known(p)'
      BY SMT, <1>0, <1>1, <1>2 DEF SerialInv, Known, OuterFrame
    <2> QED
      BY <2>2, <2>3, <2>4
  <1>3. CASE cron'.entries = {}
    BY <1>0, <1>1, <1>3 DEF SerialInv, Ids, Tracked, Known, OuterFrame
  <1> QED
    BY <1>0, <1>2, <1>3 DEF OuterFrame

\* A step of AddJob or RemoveJob keeps what is known: no other call is under way.
LEMMA CallKeeps ==
  ASSUME SerialInv, NEW p \in Procs, CallStep(p)
  PROVE  Ids' /\ Tracked' /\ \A q \in Procs : Known(q)'
  <1> DEFINE j == call[p].job
             Others == \A e \in cron.entries : e.job # j => entryMap[e.job] = e.id
             Rest == \A q \in Procs \ {p} : Known(q)'
  <1>0. StateOK /\ StateOK' /\ \A q \in Procs \ {p} : call'[q] = call[q]
    BY CallStepType DEF SerialInv
  <1>1. call[p] \in Pending
    BY <1>0, PendingCall
       DEF CallStep, LoadEntry, LoadId, RemoveEntry, DeleteId, AddEntry, StoreId
  <1>2. j \in Jobs /\ call[p].id \in Nat /\ call[p] # Idle
    BY SMT, <1>1 DEF Pending, Removing, Adding, Idle
  <1>3. \A q \in Procs \ {p} : call[q] = Idle /\ call'[q] = Idle
    BY <1>0, <1>2 DEF SerialInv, OneCallAtATime, Busy
  <1>4. Rest
    BY SMT, <1>3 DEF Known, Idle
  <1>5. Others
    BY SMT, <1>3 DEF SerialInv, Tracked, Idle
  <1>6. call[p].pc # "store" => \A e \in cron.entries : entryMap[e.job] = e.id
    BY SMT, <1>3 DEF SerialInv, Tracked, Idle
  <1>7. /\ cron.lastId \in Nat
        /\ \A e \in cron.entries : e.id \in Nat /\ e.job \in Jobs
    BY <1>0 DEF StateOK, Entry
  <1> HIDE DEF Rest
  <1>a. CASE LoadEntry(p)
    <2>1. CASE entryMap[j] # 0
      <3>1. call'[p].pc = "loadRemove"
        BY SMT, <1>0, <1>1, <1>a, <2>1, GotoType DEF LoadEntry
      <3> QED
        BY <1>4, <1>6, <1>a, <3>1 DEF LoadEntry, SerialInv, Ids, Tracked, Known, Rest
    <2>2. CASE entryMap[j] = 0
      <3>1. call'[p] = Idle \/ (call'[p].pc = "add" /\ call'[p].job = j)
        BY <1>0, <1>1, <1>a, <2>2, AfterRemoveType DEF LoadEntry
      <3>2. \A e \in cron.entries : e.job # j
        BY <1>6, <1>a, <2>2 DEF LoadEntry, SerialInv, Ids
      <3> QED
        BY SMT, <1>4, <1>6, <1>a, <3>1, <3>2
           DEF LoadEntry, SerialInv, Ids, Tracked, Known, Rest, Idle
    <2> QED
      BY <2>1, <2>2
  <1>b. CASE LoadId(p)
    <2>1. CASE entryMap[j] # 0
      <3>0. entryMap[j] \in Nat
        BY <1>0, <1>2 DEF StateOK
      <3>1. call'[p].pc = "remove" /\ call'[p].job = j /\ call'[p].id = entryMap[j]
        BY SMT, <1>0, <1>1, <1>b, <2>1, <3>0, GotoType DEF LoadId
      <3> QED
        BY <1>4, <1>6, <1>b, <3>1 DEF LoadId, SerialInv, Ids, Tracked, Known, Rest
    <2>2. CASE entryMap[j] = 0
      <3>1. call'[p] = Idle \/ (call'[p].pc = "add" /\ call'[p].job = j)
        BY <1>0, <1>1, <1>b, <2>2, AfterRemoveType DEF LoadId
      <3>2. \A e \in cron.entries : e.job # j
        BY <1>6, <1>b, <2>2 DEF LoadId, SerialInv, Ids
      <3> QED
        BY SMT, <1>4, <1>6, <1>b, <3>1, <3>2
           DEF LoadId, SerialInv, Ids, Tracked, Known, Rest, Idle
    <2> QED
      BY <2>1, <2>2
  <1>c. CASE RemoveEntry(p)
    <2>1. call'[p].pc = "delete" /\ call'[p].job = j
      BY SMT, <1>0, <1>1, <1>c, GotoType DEF RemoveEntry
    <2>2. /\ cron'.lastId = cron.lastId
          /\ cron'.entries = {e \in cron.entries : e.id # call[p].id}
      BY <1>0, <1>c DEF RemoveEntry, StateOK
    <2>3. call[p].id = entryMap[j]
      BY <1>c DEF RemoveEntry, SerialInv, Known
    <2>4. \A e \in cron'.entries : e \in cron.entries /\ e.job # j
      BY <1>6, <1>c, <2>2, <2>3 DEF RemoveEntry
    <2> QED
      BY SMT, <1>4, <1>6, <1>c, <2>1, <2>2, <2>4
         DEF RemoveEntry, SerialInv, Ids, Tracked, Known, Rest
  <1>d. CASE DeleteId(p)
    <2>1. call'[p] = Idle \/ (call'[p].pc = "add" /\ call'[p].job = j)
      BY <1>0, <1>1, <1>d, AfterRemoveType DEF DeleteId
    <2>2. \A e \in cron.entries : e.job # j
      BY <1>d DEF DeleteId, SerialInv, Known
    <2>3. \A e \in cron.entries : entryMap'[e.job] = e.id
      BY <1>0, <1>6, <1>7, <1>d, <2>2 DEF DeleteId, StateOK
    <2> QED
      BY SMT, <1>4, <1>d, <2>1, <2>2, <2>3
         DEF DeleteId, SerialInv, Ids, Tracked, Known, Rest, Idle
  <1>e. CASE AddEntry(p)
    <2> DEFINE new == [id |-> cron.lastId + 1, job |-> j, version |-> call[p].version]
    <2>0. call[p].version \in Versions /\ cron.lastId + 1 \in Nat
      BY SMT, <1>1, <1>7, <1>e DEF AddEntry, Pending, Removing, Adding
    <2>1. call'[p].pc = "store" /\ call'[p].job = j /\ call'[p].id = new.id
      BY SMT, <1>0, <1>1, <1>e, <2>0, GotoType DEF AddEntry
    <2>2. \A e \in cron.entries : e.job # j
      BY <1>e DEF AddEntry, SerialInv, Known
    <2>3. new.id = cron.lastId + 1 /\ new.job = j
      OBVIOUS
    <2>4. \/ cron' = cron
          \/ cron' = [cron EXCEPT !.lastId = new.id, !.entries = @ \cup {new}]
      BY <1>e DEF AddEntry
    <2> HIDE DEF new
    <2>5. CASE cron' = cron
      BY ZenonT(60), <1>4, <1>6, <1>e, <2>1, <2>2, <2>5
         DEF AddEntry, SerialInv, Ids, Tracked, Known, Rest
    <2>6. CASE cron' = [cron EXCEPT !.lastId = new.id, !.entries = @ \cup {new}]
      <3>1. cron'.lastId = cron.lastId + 1 /\ cron'.entries = cron.entries \cup {new}
        BY <1>0, <2>3, <2>6 DEF StateOK
      <3>2. Ids'
        BY SMT, <1>7, <2>3, <3>1 DEF SerialInv, Ids
      <3>3. Tracked'
        BY <1>6, <1>e, <2>1, <2>3, <3>1 DEF AddEntry, Tracked
      <3>4. Known(p)'
        BY <2>1, <2>2, <2>3, <3>1 DEF Known
      <3> QED
        BY <1>4, <3>2, <3>3, <3>4 DEF Rest
    <2> QED
      BY <2>4, <2>5, <2>6
  <1>f. CASE StoreId(p)
    <2>1. call'[p] = Idle
      BY <1>0, <1>f DEF StoreId, StateOK
    <2>2. \A e \in cron.entries : entryMap'[e.job] = e.id
      BY <1>0, <1>2, <1>5, <1>7, <1>f DEF StoreId, SerialInv, Known, StateOK
    <2> QED
      BY SMT, <1>4, <1>f, <2>1, <2>2 DEF StoreId, SerialInv, Ids, Tracked, Known, Rest, Idle
  <1> QED
    BY <1>a, <1>b, <1>c, <1>d, <1>e, <1>f DEF CallStep

\* The invariant holds as long as calls have not overlapped.
LEMMA SerialInvariant == Spec => [](~overlap => SerialInv)
  <1>1. Init => SerialInv
    <2> SUFFICES ASSUME Init PROVE SerialInv
      OBVIOUS
    <2>1. StateOK
      BY InitType
    <2>2. \A p \in Procs : call[p].pc = "idle" /\ call[p] = Idle
      BY DEF Init, Idle
    <2>3. cron.entries = {}
      BY DEF Init, NoCron
    <2>4. OneCallAtATime
      BY <2>2 DEF Init, OneCallAtATime, Busy
    <2> QED
      BY <2>1, <2>2, <2>3, <2>4 DEF SerialInv, Ids, Tracked, Known
  <1>2. TypeOK /\ (~overlap => SerialInv) /\ [Next]_vars => (~overlap => SerialInv)'
    <2> SUFFICES ASSUME TypeOK, ~overlap => SerialInv, [Next]_vars, ~overlap'
                 PROVE  SerialInv'
      OBVIOUS
    <2>1. CASE UNCHANGED vars
      BY SMT, <2>1 DEF vars, SerialInv, StateOK, OneCallAtATime, Busy, Ids, Tracked, Known
    <2>2. CASE Next
      <3>1. SerialInv /\ OneCallAtATime'
        BY <2>2 DEF Next, Watch, TypeOK
      <3>2. ASSUME NEW p \in Procs, CallStep(p)
            PROVE  SerialInv'
        BY <3>1, <3>2, CallStepType, CallKeeps DEF SerialInv
      <3>3. ASSUME Outer
            PROVE  SerialInv'
        BY <3>1, <3>3, OuterStep, OuterKeeps DEF SerialInv
      <3> QED
        BY <2>2, <3>2, <3>3 DEF Next, Step, Outer
    <2> QED
      BY <2>1, <2>2
  <1> QED
    BY <1>1, <1>2, TypeCorrect, PTL DEF Spec

\* As long as the calls of AddJob and RemoveJob have not overlapped, a job has at most one
\* entry in the cron, in every term and whatever stale ids EntryJobMap holds.
THEOREM EntriesSafe == Spec => []AtMostOneEntry
  <1>1. (~overlap => SerialInv) => AtMostOneEntry
    BY SerialInvEntries DEF AtMostOneEntry
  <1> QED
    BY <1>1, SerialInvariant, PTL

-----------------------------------------------------------------------------
(* In the first term RemoveJob takes out no other job's entry. *)

\* The id i was handed out, and if an entry still has it, it is one of job j.
OwnId(j, i) == i <= cron.lastId /\ \A e \in cron.entries : e.id = i => e.job = j

\* No id that EntryJobMap or a call holds is the id of another job's entry.  A
\* second Start breaks this: the new cron hands out the same ids again.
OwnIds ==
  /\ terms = 0 => cron = NoCron
  /\ \A e \in cron.entries : e.id <= cron.lastId
  /\ \A j \in Jobs : entryMap[j] # 0 => OwnId(j, entryMap[j])
  /\ \A p \in Procs : call[p].pc \in {"remove", "store"} => OwnId(call[p].job, call[p].id)

FirstTermOwns == terms <= 1 /\ ~leaving /\ ~crashed => OwnIds

\* A step of AddJob or RemoveJob that finds a cron keeps the ids apart: a new
\* entry has a new id.
LEMMA CallOwns ==
  ASSUME StateOK, OwnIds, NEW p \in Procs, CallStep(p), ~crashed, ~crashed'
  PROVE  OwnIds'
  <1>0. StateOK' /\ (\A q \in Procs \ {p} : call'[q] = call[q]) /\ terms' = terms
    BY CallStepType DEF CallStep
  <1>1. call[p] \in Pending
    BY PendingCall DEF CallStep, LoadEntry, LoadId, RemoveEntry, DeleteId, AddEntry, StoreId
  <1>2. call[p].job \in Jobs /\ call[p].id \in Nat
    BY <1>1 DEF Pending, Removing, Adding
  <1>3. /\ cron.lastId \in Nat
        /\ \A e \in cron.entries : e.id \in Nat /\ e.job \in Jobs
        /\ \A j \in Jobs : entryMap[j] \in Nat
        /\ \A q \in Procs : call[q].pc \in {"remove", "store"} => call[q].id \in Nat
    BY PendingCall DEF StateOK, Entry, Pending, Removing, Adding
  <1>a. CASE LoadEntry(p)
    <2>1. call'[p].pc \notin {"remove", "store"}
      BY SMT, <1>1, <1>a, GotoType, AfterRemoveType DEF LoadEntry, Idle
    <2> QED
      BY SMT, <1>0, <1>a, <2>1 DEF LoadEntry, OwnIds, OwnId
  <1>b. CASE LoadId(p)
    <2>1. \/ call'[p].pc \notin {"remove", "store"}
          \/ /\ call'[p].job = call[p].job /\ call'[p].id = entryMap[call[p].job]
             /\ entryMap[call[p].job] # 0
      BY SMT, <1>1, <1>2, <1>3, <1>b, GotoType, AfterRemoveType DEF LoadId, Idle
    <2> QED
      BY SMT, <1>0, <1>2, <1>b, <2>1 DEF LoadId, OwnIds, OwnId
  <1>c. CASE RemoveEntry(p)
    <2>1. call'[p].pc = "delete"
      BY <1>1, <1>c, GotoType DEF RemoveEntry
    <2>2. cron.set /\ cron'.lastId = cron.lastId /\ cron'.entries \subseteq cron.entries
      BY <1>c DEF RemoveEntry, StateOK
    <2>3. terms # 0
      BY SMT, <2>2 DEF OwnIds, NoCron
    <2> QED
      BY SMT, <1>0, <1>c, <2>1, <2>2, <2>3 DEF RemoveEntry, OwnIds, OwnId
  <1>d. CASE DeleteId(p)
    <2>1. call'[p].pc \notin {"remove", "store"}
      BY SMT, <1>1, <1>d, AfterRemoveType DEF DeleteId, Idle
    <2>2. \A j \in Jobs : entryMap'[j] # 0 => entryMap'[j] = entryMap[j]
      BY <1>d DEF DeleteId, StateOK
    <2> QED
      BY SMT, <1>0, <1>d, <2>1, <2>2 DEF DeleteId, OwnIds, OwnId
  <1>e. CASE AddEntry(p)
    <2> DEFINE new == [id |-> cron.lastId + 1, job |-> call[p].job,
                       version |-> call[p].version]
    <2>0. call[p].version \in Versions /\ cron.lastId + 1 \in Nat
      BY SMT, <1>1, <1>3, <1>e DEF AddEntry, Pending, Removing, Adding
    <2>1. call'[p].job = call[p].job /\ call'[p].id = cron.lastId + 1
      BY <1>1, <1>e, <2>0, GotoType DEF AddEntry
    <2>2. cron.set /\ cron' = [cron EXCEPT !.lastId = new.id, !.entries = @ \cup {new}]
      BY <1>e DEF AddEntry
    <2>3. new.id = cron.lastId + 1 /\ new.job = call[p].job
      OBVIOUS
    <2> HIDE DEF new
    <2>4. cron'.lastId = cron.lastId + 1 /\ cron'.entries = cron.entries \cup {new}
      BY <2>2, <2>3 DEF StateOK
    <2>5. ASSUME NEW j, NEW i \in Nat, OwnId(j, i) PROVE OwnId(j, i)'
      BY SMT, <1>3, <2>3, <2>4, <2>5 DEF OwnId
    <2>6. OwnId(call[p].job, call[p].id)'
      BY SMT, <1>3, <2>1, <2>3, <2>4 DEF OwnIds, OwnId
    <2>7. terms # 0
      BY SMT, <2>2 DEF OwnIds, NoCron
    <2>8. \A e \in cron'.entries : e.id <= cron'.lastId
      BY SMT, <1>3, <2>3, <2>4 DEF OwnIds
    <2>9. \A j \in Jobs : entryMap'[j] # 0 => OwnId(j, entryMap[j])'
      BY <1>3, <1>e, <2>5 DEF AddEntry, OwnIds
    <2>10. ASSUME NEW q \in Procs \ {p}, call'[q].pc \in {"remove", "store"}
           PROVE  OwnId(call[q].job, call[q].id)'
      <3>1. call'[q] = call[q] /\ OwnId(call[q].job, call[q].id) /\ call[q].id \in Nat
        BY <1>0, <1>3, <2>10 DEF OwnIds
      <3> QED
        BY SMT, <1>3, <2>3, <2>4, <3>1 DEF OwnId
    <2> QED
      BY <1>0, <2>6, <2>7, <2>8, <2>9, <2>10 DEF OwnIds
  <1>f. CASE StoreId(p)
    <2>1. call'[p] = Idle
      BY <1>f DEF StoreId, StateOK
    <2>2. \A j \in Jobs : entryMap'[j] = IF j = call[p].job THEN call[p].id ELSE entryMap[j]
      BY <1>2, <1>f DEF StoreId, StateOK
    <2>3. OwnId(call[p].job, call[p].id)
      BY <1>f DEF StoreId, OwnIds
    <2> QED
      BY SMT, <1>0, <1>f, <2>1, <2>2, <2>3 DEF StoreId, OwnIds, OwnId, Idle
  <1> QED
    BY <1>a, <1>b, <1>c, <1>d, <1>e, <1>f DEF CallStep

\* A request, the loop or a stop leaves the cron alone or puts a new one in its place,
\* which begins a term, unless the agent stops.
LEMMA OuterCron ==
  ASSUME Outer, ~leaving'
  PROVE  /\ \/ cron' = cron /\ terms' = terms
            \/ cron' = NewCron /\ terms' = terms + 1
         /\ ~leaving
  <1>1. ASSUME Request PROVE cron' = cron /\ terms' = terms /\ ~leaving
    BY SMT, <1>1 DEF Request, SetJob, DeleteJob, RemoteChange
  <1>2. ASSUME NEW j \in Jobs, GetEntry(j) PROVE cron' = cron /\ terms' = terms /\ ~leaving
    BY <1>2 DEF GetEntry
  <1>3. ASSUME Acquire \/ Lose \/ AgentStop PROVE cron' = cron /\ terms' = terms /\ ~leaving
    BY SMT, <1>3 DEF Acquire, Lose, AgentStop
  <1>4. ASSUME LeaderStep
        PROVE  /\ \/ cron' = cron /\ terms' = terms
                  \/ cron' = NewCron /\ terms' = terms + 1
               /\ ~leaving
    BY SMT, <1>4 DEF LeaderStep, BeginLoop, Establish, StartCron, StartAdd, StartDone, Revoke
  <1> QED
    BY <1>1, <1>2, <1>3, <1>4 DEF Outer

\* The other steps keep the ids apart: until the agent leaves, the only one that
\* touches the cron is the first Start, when no id was handed out.
LEMMA OuterOwns ==
  ASSUME StateOK, OwnIds, Outer, terms' <= 1, ~leaving'
  PROVE  OwnIds'
  <1>0. StateOK' /\ OuterFrame
    BY OuterStep
  <1>1. \/ cron' = cron /\ terms' = terms
        \/ cron' = NewCron /\ terms' = terms + 1
    BY OuterCron
  <1>2. \A p \in Procs : call'[p].pc \in {"remove", "store"} => call'[p] = call[p]
    BY <1>0 DEF OuterFrame
  <1>3. CASE cron' = cron /\ terms' = terms
    BY SMT, <1>0, <1>2, <1>3 DEF OuterFrame, OwnIds, OwnId
  <1>4. CASE cron' = NewCron /\ terms' = terms + 1
    <2>1. terms = 0 /\ cron.lastId = 0
      BY SMT, <1>4 DEF StateOK, OwnIds, NoCron
    <2>2. cron'.lastId = 0 /\ cron'.entries = {}
      BY <1>4 DEF NewCron
    <2> QED
      BY SMT, <1>0, <1>2, <1>4, <2>1, <2>2 DEF OuterFrame, OwnIds, OwnId, StateOK
  <1> QED
    BY <1>1, <1>3, <1>4

\* In the first term the ids stay apart.
LEMMA OwnsInvariant == Spec => []FirstTermOwns
  <1>1. Init => FirstTermOwns
    BY SMT DEF Init, FirstTermOwns, OwnIds, NoCron, Idle
  <1>2. TypeOK /\ FirstTermOwns /\ [Next]_vars => FirstTermOwns'
    <2> SUFFICES ASSUME TypeOK, FirstTermOwns, [Next]_vars,
                        terms' <= 1, ~leaving', ~crashed'
                 PROVE  OwnIds'
      BY DEF FirstTermOwns
    <2>1. CASE UNCHANGED vars
      BY <2>1 DEF vars, FirstTermOwns, OwnIds, OwnId
    <2>2. CASE Next
      <3>1. StateOK /\ ~crashed
        BY <2>2 DEF TypeOK, Next, Step
      <3>2. ASSUME NEW p \in Procs, CallStep(p) PROVE OwnIds'
        BY <3>1, <3>2, CallOwns DEF CallStep, FirstTermOwns
      <3>3. ASSUME Outer PROVE OwnIds'
        <4>1. ~leaving /\ terms <= 1
          <5>1. terms \in Nat
            BY <3>1 DEF StateOK
          <5> QED
            BY SMT, <3>3, <5>1, OuterCron
        <4> QED
          BY <3>1, <3>3, <4>1, OuterOwns DEF FirstTermOwns
      <3> QED
        BY <2>2, <3>2, <3>3 DEF Next, Step, Outer
    <2> QED
      BY <2>1, <2>2
  <1> QED
    BY <1>1, <1>2, TypeCorrect, PTL DEF Spec

\* In the first term, however the calls of AddJob and RemoveJob interleave, RemoveJob takes
\* no other job's entry out of the cron (scheduler.go:130-147).
THEOREM RemovalSafe == Spec => RemovesOwnEntry
  <1> DEFINE Removal ==
        terms <= 1 /\ terms' = terms /\ ~leaving' =>
          \A e \in cron.entries \ cron'.entries :
            \E p \in Procs : call[p].pc = "remove" /\ call[p].job = e.job
  <1>1. TypeOK /\ FirstTermOwns /\ [Next]_vars => [Removal]_vars
    <2> SUFFICES ASSUME TypeOK, FirstTermOwns, Next, terms <= 1, terms' = terms, ~leaving',
                        NEW e \in cron.entries \ cron'.entries
                 PROVE  \E p \in Procs : call[p].pc = "remove" /\ call[p].job = e.job
      OBVIOUS
    <2>1. cron' # cron
      OBVIOUS
    <2>2. ~Outer
      <3>1. terms \in Nat
        BY DEF TypeOK, StateOK
      <3> QED
        BY SMT, <2>1, <3>1, OuterCron
    <2>3. PICK p \in Procs : CallStep(p)
      BY <2>2 DEF Next, Step, Outer
    <2>4. OwnIds
      BY <2>3 DEF FirstTermOwns, Next, Step, CallStep
    <2>5. CASE RemoveEntry(p)
      <3>1. e.id = call[p].id
        BY <2>5 DEF RemoveEntry, TypeOK, StateOK
      <3> QED
        BY <2>4, <2>5, <3>1 DEF RemoveEntry, OwnIds, OwnId
    <2>6. CASE AddEntry(p)
      <3>1. cron.entries \subseteq cron'.entries
        BY <2>6 DEF AddEntry, TypeOK, StateOK
      <3> QED
        BY <3>1
    <2> QED
      BY <2>1, <2>3, <2>5, <2>6 DEF CallStep, LoadEntry, LoadId, DeleteId, StoreId
  <1> QED
    BY <1>1, TypeCorrect, OwnsInvariant, PTL DEF Spec, RemovesOwnEntry

-----------------------------------------------------------------------------
(* In the first term the cron is the store's enabled root jobs. *)

\* What the leader loop's place says: it leads unless it was told to stop, and
\* it is inside AddJob only while it starts the scheduler.
LoopInv ==
  /\ leaving => ~leader
  /\ loop # "starting" => call[Leader] = Idle
  /\ stopping => loop # "none"
  /\ ~stopping /\ loop # "none" => leader
  /\ loop = "leading" => todo = {}

\* The entries of job j are what the store says.
Matches(j) ==
  /\ \A e \in cron.entries : e.job = j => e.version = store[j]
  /\ store[j] \in Versions => \E e \in cron.entries : e.job = j

\* Start or a call has still to see to job j.
Waiting(j) ==
  \/ [job |-> j, version |-> store[j]] \in todo
  \/ \E p \in Procs : call[p].pc \notin {"idle", "store"} /\ call[p].job = j

\* What Start and the calls work on is what is stored, and in the first term
\* every job that is not in the cron as it is stored waits to be seen to.
Current ==
  /\ \A t \in todo : t.version = store[t.job]
  /\ \A p \in Procs : call[p] # Idle /\ call[p].job \notin InvalidJobs
                        => call[p].version = store[call[p].job]
  /\ loop = "snapshot" => todo = GetJobs
  /\ terms = 1 /\ loop # "snapshot" => \A j \in Jobs \ InvalidJobs : Waiting(j) \/ Matches(j)

\* The loop leads, was not told to stop, and no two calls have overlapped.
Undisturbed ==
  ~overlap /\ ~stopping /\ ~crashed /\ loop \in {"snapshot", "starting", "leading"}

\* A job's entries match as long as they and what is stored of it stay.
LEMMA MatchesKept ==
  ASSUME NEW j, store'[j] = store[j], Matches(j),
         \A e : e.job = j => (e \in cron'.entries <=> e \in cron.entries)
  PROVE  Matches(j)'
  BY DEF Matches

\* A job waits as long as what it waits for is not done.
LEMMA WaitingKept ==
  ASSUME NEW j, store'[j] = store[j], Waiting(j),
         [job |-> j, version |-> store[j]] \in todo => [job |-> j, version |-> store[j]] \in todo',
         \A p \in Procs : call[p].pc \notin {"idle", "store"} /\ call[p].job = j
                             => call'[p].pc \notin {"idle", "store"} /\ call'[p].job = j
  PROVE  Waiting(j)'
  BY DEF Waiting

\* What is worked on stays current if it and what is stored stay.
LEMMA CurrentKept ==
  ASSUME Current, UNCHANGED <<store, todo, call, loop, terms, cron>>
  PROVE  Current'
  <1>1. GetJobs' = GetJobs
    BY DEF GetJobs
  <1>2. \A j : (Waiting(j) => Waiting(j)') /\ (Matches(j) => Matches(j)')
    BY DEF Waiting, Matches
  <1> QED
    BY <1>1, <1>2 DEF Current

\* Where the leader loop is, after a step of AddJob or RemoveJob.
LEMMA CallLoop ==
  ASSUME StateOK, LoopInv, NEW p \in Procs, CallStep(p)
  PROVE  LoopInv'
  <1>1. call[p] # Idle
    BY SMT DEF CallStep, LoadEntry, LoadId, RemoveEntry, DeleteId, AddEntry, StoreId, Idle
  <1>2. Leader \in Procs /\ \A q \in Procs \ {p} : call'[q] = call[q]
    BY CallStepType DEF Procs
  <1> QED
    BY <1>1, <1>2 DEF CallStep, LoopInv

\* Where the leader loop is, after any other step.
LEMMA OuterLoop ==
  ASSUME StateOK, LoopInv, Outer
  PROVE  LoopInv'
  <1>1. Leader \in Procs /\ Leader \notin Handlers
    BY SchedulerAssumption DEF Procs
  <1>2. CASE Request
    <2>1. call'[Leader] = call[Leader]
      BY <1>1, <1>2 DEF Request, SetJob, DeleteJob, RemoteChange, Begin, StateOK
    <2> QED
      BY SMT, <1>2, <2>1 DEF Request, SetJob, DeleteJob, RemoteChange, LoopInv
  <1>3. CASE \E j \in Jobs : GetEntry(j)
    BY SMT, <1>3 DEF GetEntry, LoopInv
  <1>4. CASE Acquire \/ Lose \/ AgentStop
    <2>1. CASE Acquire
      BY <2>1 DEF Acquire, LoopInv
    <2>2. CASE Lose
      BY <2>2 DEF Lose, LoopInv
    <2>3. CASE AgentStop
      BY <2>3 DEF AgentStop, LoopInv
    <2> QED
      BY <1>4, <2>1, <2>2, <2>3
  <1>5. CASE BeginLoop \/ Establish \/ StartCron
    BY SMT, <1>5 DEF BeginLoop, Establish, StartCron, LoopInv
  <1>6. CASE StartAdd
    BY <1>6 DEF StartAdd, LoopInv
  <1>7. CASE StartDone \/ Revoke
    BY SMT, <1>7 DEF StartDone, Revoke, LoopInv
  <1> QED
    BY <1>2, <1>3, <1>4, <1>5, <1>6, <1>7 DEF Outer, LeaderStep

\* What a step of a call does to the cron in the first term, if no other call is under way:
\* it touches its own job's entries only, and when it is done with them they are
\* what the call is about.
LEMMA CallEffect ==
  ASSUME SerialInv, OwnIds, NEW p \in Procs, CallStep(p), ~crashed, ~crashed'
  PROVE  /\ \A e : e.job # call[p].job => (e \in cron'.entries <=> e \in cron.entries)
         /\ \/ /\ call'[p].pc \notin {"idle", "store"}
               /\ call'[p].job = call[p].job /\ call'[p].version = call[p].version
            \/ /\ call'[p] = Idle /\ call[p].version \notin Versions
               /\ \A e \in cron'.entries : e.job # call[p].job
            \/ /\ call'[p].pc = "store"
               /\ call'[p].job = call[p].job /\ call'[p].version = call[p].version
               /\ \A e \in cron'.entries : e.job = call[p].job => e.version = call[p].version
               /\ \E e \in cron'.entries : e.job = call[p].job
            \/ call'[p] = Idle /\ call[p].pc = "store" /\ cron' = cron
  <1> DEFINE j == call[p].job
             Cleared == \A e \in cron.entries : e.job # j
             Moved == /\ call'[p].pc \notin {"idle", "store"}
                      /\ call'[p].job = j /\ call'[p].version = call[p].version
             Dropped == call'[p] = Idle /\ call[p].version \notin Versions
  <1>0. StateOK
    BY DEF SerialInv
  <1>1. call[p] \in Pending
    BY <1>0, PendingCall
       DEF CallStep, LoadEntry, LoadId, RemoveEntry, DeleteId, AddEntry, StoreId
  <1>2. j \in Jobs /\ call[p] # Idle /\ entryMap[j] \in Nat
    BY SMT, <1>0, <1>1 DEF Pending, Removing, Adding, Idle, StateOK
  <1>3. \A q \in Procs \ {p} : call[q] = Idle
    BY <1>2 DEF SerialInv, OneCallAtATime, Busy
  <1>4. call[p].pc # "store" => \A e \in cron.entries : entryMap[e.job] = e.id /\ e.id # 0
    BY SMT, <1>3 DEF SerialInv, Tracked, Ids, Idle
  <1>5. AfterRemove(p) => Moved \/ Dropped
    BY <1>0, <1>1, AfterRemoveType
  <1>a. CASE LoadEntry(p)
    <2>1. CASE entryMap[j] # 0
      <3>1. Goto(p, "loadRemove", 0) /\ cron' = cron
        BY <1>a, <2>1 DEF LoadEntry
      <3>2. Moved
        BY SMT, <1>0, <1>1, <3>1, GotoType
      <3> QED
        BY <3>1, <3>2
    <2>2. CASE entryMap[j] = 0
      <3>1. Cleared
        BY <1>4, <1>a, <2>2 DEF LoadEntry
      <3> QED
        BY <1>5, <1>a, <2>2, <3>1 DEF LoadEntry
    <2> QED
      BY <2>1, <2>2
  <1>b. CASE LoadId(p)
    <2>1. CASE entryMap[j] # 0
      <3>1. Goto(p, "remove", entryMap[j]) /\ cron' = cron
        BY <1>b, <2>1 DEF LoadId
      <3>2. Moved
        BY SMT, <1>0, <1>1, <1>2, <3>1, GotoType
      <3> QED
        BY <3>1, <3>2
    <2>2. CASE entryMap[j] = 0
      <3>1. Cleared
        BY <1>4, <1>b, <2>2 DEF LoadId
      <3> QED
        BY <1>5, <1>b, <2>2, <3>1 DEF LoadId
    <2> QED
      BY <2>1, <2>2
  <1>c. CASE RemoveEntry(p)
    <2>1. Moved
      BY SMT, <1>0, <1>1, <1>c, GotoType DEF RemoveEntry
    <2>2. cron'.entries = {e \in cron.entries : e.id # call[p].id}
      BY <1>0, <1>c DEF RemoveEntry, StateOK
    <2>3. \A e \in cron.entries : e.id = call[p].id => e.job = j
      BY <1>c DEF RemoveEntry, OwnIds, OwnId
    <2> QED
      BY <2>1, <2>2, <2>3
  <1>d. CASE DeleteId(p)
    <2>1. Cleared
      BY <1>d DEF DeleteId, SerialInv, Known
    <2> QED
      BY <1>5, <1>d, <2>1 DEF DeleteId
  <1>e. CASE AddEntry(p)
    <2> DEFINE new == [id |-> cron.lastId + 1, job |-> j, version |-> call[p].version]
    <2>0. call[p].version \in Versions /\ cron.lastId + 1 \in Nat
      BY SMT, <1>0, <1>1, <1>e DEF AddEntry, Pending, Removing, Adding, StateOK
    <2>1. call'[p].pc = "store" /\ call'[p].job = j /\ call'[p].version = call[p].version
      BY <1>0, <1>1, <1>e, <2>0, GotoType DEF AddEntry
    <2>2. Cleared
      BY <1>e DEF AddEntry, SerialInv, Known
    <2>3. cron' = [cron EXCEPT !.lastId = new.id, !.entries = @ \cup {new}]
      BY <1>e DEF AddEntry
    <2>4. new.job = j /\ new.version = call[p].version
      OBVIOUS
    <2> HIDE DEF new
    <2>5. cron'.entries = cron.entries \cup {new}
      BY <1>0, <2>3 DEF StateOK
    <2> QED
      BY <2>1, <2>2, <2>4, <2>5
  <1>f. CASE StoreId(p)
    BY <1>0, <1>f DEF StoreId, StateOK
  <1> QED
    BY <1>a, <1>b, <1>c, <1>d, <1>e, <1>f DEF CallStep

\* A step of a call keeps what Start and the calls work on current.
LEMMA CallCurrent ==
  ASSUME SerialInv, terms = 1 => OwnIds, Current, NEW p \in Procs, CallStep(p), ~crashed, ~crashed'
  PROVE  Current'
  <1>0. /\ StateOK /\ StateOK'
        /\ \A q \in Procs \ {p} : call'[q] = call[q]
        /\ UNCHANGED <<store, todo, loop, terms>>
    BY CallStepType DEF CallStep, SerialInv
  <1>1. call[p] \in Pending /\ call[p] # Idle
    BY SMT, <1>0, PendingCall
       DEF CallStep, LoadEntry, LoadId, RemoveEntry, DeleteId, AddEntry, StoreId, Idle
  <1>2. \/ call'[p] = Idle
        \/ call'[p].job = call[p].job /\ call'[p].version = call[p].version
    <2>1. call'[p].pc = "idle" => call'[p] = Idle
      BY <1>0 DEF StateOK, Call, Idle, Removing, Adding
    <2>2. entryMap[call[p].job] \in Nat /\ cron.lastId + 1 \in Nat
      BY SMT, <1>0, <1>1 DEF StateOK, Pending, Removing, Adding
    <2>3. call[p].pc = "add" => call[p].version \in Versions
      BY <1>1 DEF Pending, Removing, Adding
    <2> QED
      BY <1>0, <1>1, <2>2, <2>3, GotoType, AfterRemoveType
         DEF CallStep, LoadEntry, LoadId, RemoveEntry, DeleteId, AddEntry, StoreId, StateOK
  <1>3. \A q \in Procs : call'[q] # Idle /\ call'[q].job \notin InvalidJobs
                           => call'[q].version = store[call'[q].job]
    BY <1>0, <1>1, <1>2 DEF Current
  <1>4. ASSUME terms = 1, loop # "snapshot", NEW j \in Jobs \ InvalidJobs
        PROVE  Waiting(j)' \/ Matches(j)'
    <2>1. Waiting(j) \/ Matches(j)
      BY <1>4 DEF Current
    <2>2. CASE j # call[p].job
      <3>1. \A e : e.job = j => (e \in cron'.entries <=> e \in cron.entries)
        BY <1>4, <2>2, CallEffect
      <3>2. Matches(j) => Matches(j)'
        BY <1>0, <3>1, MatchesKept
      <3>3. Waiting(j) => Waiting(j)'
        BY <1>0, <2>2 DEF Waiting
      <3> QED
        BY <2>1, <3>2, <3>3
    <2>3. CASE j = call[p].job
      <3>0. call[p].version = store[j]
        BY <1>1, <2>3 DEF Current
      <3>1. CASE call'[p].pc \notin {"idle", "store"} /\ call'[p].job = call[p].job
        BY <2>3, <3>1 DEF Waiting
      <3>2. CASE call[p].version \notin Versions /\ \A e \in cron'.entries : e.job # call[p].job
        BY <1>0, <2>3, <3>0, <3>2 DEF Matches
      <3>3. CASE /\ \A e \in cron'.entries : e.job = call[p].job => e.version = call[p].version
                 /\ \E e \in cron'.entries : e.job = call[p].job
        BY <1>0, <2>3, <3>0, <3>3 DEF Matches
      <3>4. CASE call[p].pc = "store" /\ cron' = cron
        <4>1. Matches(j) => Matches(j)'
          BY <1>0, <3>4 DEF Matches
        <4>2. Waiting(j) => Waiting(j)'
          BY <1>0, <3>4 DEF Waiting
        <4> QED
          BY <2>1, <4>1, <4>2
      <3> QED
        BY <1>4, <3>1, <3>2, <3>3, <3>4, CallEffect
    <2> QED
      BY <2>2, <2>3
  <1>5. GetJobs' = GetJobs
    BY <1>0 DEF GetJobs
  <1> QED
    BY <1>0, <1>3, <1>4, <1>5 DEF Current

\* A request that stores a job and begins a call about it keeps them current.
LEMMA BeginCurrent ==
  ASSUME StateOK, LoopInv, Current, loop \in {"snapshot", "starting", "leading"},
         OneCallAtATime',
         NEW h \in Handlers, NEW j \in Jobs, NEW v \in Contents,
         NEW pc \in {"load", "loadRemove"}, Begin(h, pc, j, v), call[h] = Idle,
         \A k \in Jobs \ InvalidJobs : store'[k] = IF k = j THEN v ELSE store[k],
         UNCHANGED <<loop, todo, cron, terms>>
  PROVE  Current'
  <1>1. h \in Procs /\ Leader \in Procs /\ h # Leader
    BY SchedulerAssumption DEF Procs
  <1>2. /\ call'[h].pc = pc /\ call'[h].job = j /\ call'[h].version = v
        /\ \A q \in Procs \ {h} : call'[q] = call[q]
    BY SMT, <1>1, BeginType
  <1>3. call'[h] # Idle
    BY SMT, <1>2 DEF Idle
  <1>4. loop = "leading" /\ \A q \in Procs \ {h} : call'[q] = Idle
    BY <1>1, <1>3 DEF OneCallAtATime, Busy
  <1>5. todo = {} /\ todo' = {} /\ loop' = "leading"
    BY <1>4 DEF LoopInv
  <1>a. \A q \in Procs : call[q].pc = "idle"
    <2>1. Idle.pc = "idle"
      BY DEF Idle
    <2> QED
      BY <1>2, <1>4, <2>1
  <1>6. \A q \in Procs : call'[q] # Idle /\ call'[q].job \notin InvalidJobs
                           => call'[q].version = store'[call'[q].job]
    BY <1>2, <1>4
  <1>7. ASSUME terms = 1, NEW k \in Jobs \ InvalidJobs
        PROVE  Waiting(k)' \/ Matches(k)'
    <2>1. CASE k = j
      BY <1>1, <1>2, <2>1 DEF Waiting
    <2>2. CASE k # j
      <3>1. ~Waiting(k)
        BY <1>5, <1>a DEF Waiting
      <3>2. Matches(k)
        BY <1>4, <1>7, <3>1 DEF Current
      <3> QED
        BY <2>2, <3>2 DEF Matches
    <2> QED
      BY <2>1, <2>2
  <1> QED
    BY <1>5, <1>6, <1>7 DEF Current

\* A step outside AddJob and RemoveJob keeps them current.
LEMMA OuterCurrent ==
  ASSUME StateOK, LoopInv, Undisturbed => Current, Outer, ~crashed, Watch, overlap \in BOOLEAN,
         Undisturbed'
  PROVE  Current'
  <1>0. ~overlap /\ OneCallAtATime' /\ StateOK'
    BY OuterStep DEF Undisturbed, Watch
  <1>1. ASSUME NEW h \in Handlers, NEW j \in Jobs, NEW v \in Versions \cup {Off},
               SetJob(h, j, v)
        PROVE  Current'
    <2>1. v \in Contents /\ Current /\ loop \in {"snapshot", "starting", "leading"}
      BY <1>0, <1>1 DEF Contents, SetJob, Undisturbed
    <2>2. \A k \in Jobs \ InvalidJobs : store'[k] = IF k = j THEN v ELSE store[k]
      BY <1>1 DEF SetJob, StateOK
    <2> QED
      BY <1>0, <1>1, <2>1, <2>2, BeginCurrent DEF SetJob
  <1>2. ASSUME NEW h \in Handlers, NEW j \in Jobs, DeleteJob(h, j)
        PROVE  Current'
    <2>1. Absent \in Contents /\ Current /\ loop \in {"snapshot", "starting", "leading"}
      BY <1>0, <1>2 DEF Contents, DeleteJob, Undisturbed
    <2>2. \A k \in Jobs \ InvalidJobs : store'[k] = IF k = j THEN Absent ELSE store[k]
      BY <1>2 DEF DeleteJob, StateOK
    <2> QED
      BY <1>0, <1>2, <2>1, <2>2, BeginCurrent DEF DeleteJob
  <1>3. ASSUME NEW j \in Jobs, NEW v \in Contents, RemoteChange(j, v)
        PROVE  Current'
    BY <1>3 DEF RemoteChange, Undisturbed, LoopInv
  <1>4. ASSUME (\E j \in Jobs : GetEntry(j)) \/ Acquire
        PROVE  Current'
    <2>1. Current
      BY <1>0, <1>4 DEF GetEntry, Acquire, Undisturbed
    <2>2. UNCHANGED <<store, todo, call, loop, terms, cron>>
      BY <1>4 DEF GetEntry, Acquire
    <2> QED
      BY <2>1, <2>2, CurrentKept
  <1>5. ASSUME Lose \/ AgentStop \/ BeginLoop \/ Revoke
        PROVE  Current'
    BY <1>5 DEF Lose, AgentStop, BeginLoop, Revoke, Undisturbed
  <1>6. ASSUME Establish
        PROVE  Current'
    <2>1. Leader \in Procs /\ loop' = "snapshot" /\ call' = call /\ store' = store
          /\ todo' = GetJobs /\ call[Leader] = Idle
      BY <1>6 DEF Establish, Procs, LoopInv
    <2>2. \A q \in Procs : call'[q] = Idle
      BY <1>0, <2>1 DEF OneCallAtATime, Busy
    <2>3. \A t \in todo' : t.version = store'[t.job]
      BY SMT, <2>1 DEF GetJobs
    <2>4. GetJobs' = GetJobs
      BY <2>1 DEF GetJobs
    <2> QED
      BY <2>1, <2>2, <2>3, <2>4 DEF Current
  <1>7. ASSUME StartCron
        PROVE  Current'
    <2>1. Current /\ loop = "snapshot" /\ loop' = "starting" /\ cron'.entries = {}
          /\ UNCHANGED <<store, todo, call>>
      BY <1>0, <1>7 DEF StartCron, NewCron, Undisturbed
    <2>2. ASSUME NEW j \in Jobs PROVE Waiting(j)' \/ Matches(j)'
      <3>1. CASE store[j] = Absent
        BY <2>1, <3>1, SchedulerAssumption DEF Matches
      <3>2. CASE store[j] # Absent
        BY <2>1, <3>2 DEF Current, GetJobs, Waiting
      <3> QED
        BY <3>1, <3>2
    <2> QED
      BY <2>1, <2>2 DEF Current
  <1>8. ASSUME StartAdd
        PROVE  Current'
    <2>1. PICK t \in todo : Begin(Leader, "load", t.job, t.version) /\ todo' = todo \ {t}
      BY <1>8 DEF StartAdd
    <2>2. /\ Current /\ loop = "starting" /\ call[Leader] = Idle
          /\ UNCHANGED <<store, loop, cron, terms>>
      BY <1>0, <1>8 DEF StartAdd, Undisturbed
    <2>3. Leader \in Procs /\ t.job \in Jobs /\ t.version \in Contents
      BY DEF Procs, StateOK
    <2>4. /\ call'[Leader].pc = "load"
          /\ call'[Leader].job = t.job /\ call'[Leader].version = t.version
          /\ \A q \in Procs \ {Leader} : call'[q] = call[q]
      BY <2>1, <2>3, BeginType
    <2>5. t.version = store[t.job]
      BY <2>2 DEF Current
    <2>6. \A q \in Procs : call'[q] # Idle /\ call'[q].job \notin InvalidJobs
                             => call'[q].version = store[call'[q].job]
      BY <2>2, <2>4, <2>5 DEF Current
    <2>7. ASSUME terms = 1, NEW j \in Jobs \ InvalidJobs
          PROVE  Waiting(j)' \/ Matches(j)'
      <3>1. CASE j = t.job
        BY <2>3, <2>4, <3>1 DEF Waiting
      <3>2. CASE j # t.job
        <4>1. [job |-> j, version |-> store[j]] # t
          BY SMT, <3>2
        <4>2. \A q \in Procs : call[q].pc \notin {"idle", "store"} => call'[q] = call[q]
          <5>1. call[Leader].pc = "idle"
            BY SMT, <2>2 DEF Idle
          <5> QED
            BY <2>4, <5>1
        <4>3. Waiting(j) => Waiting(j)'
          BY <2>1, <2>2, <4>1, <4>2, WaitingKept
        <4>4. Matches(j) => Matches(j)'
          BY <2>2, MatchesKept
        <4> QED
          BY <2>2, <2>7, <4>3, <4>4 DEF Current
      <3> QED
        BY <3>1, <3>2
    <2> QED
      BY <2>1, <2>2, <2>6, <2>7 DEF Current
  <1>9. ASSUME StartDone
        PROVE  Current'
    <2>1. /\ Current /\ loop = "starting" /\ loop' = "leading"
          /\ UNCHANGED <<store, todo, cron, call, terms>>
      BY <1>0, <1>9 DEF StartDone, Undisturbed
    <2> QED
      BY <2>1 DEF Current, Waiting, Matches
  <1> QED
    BY <1>1, <1>2, <1>3, <1>4, <1>5, <1>6, <1>7, <1>8, <1>9 DEF Outer, Request, LeaderStep

\* The store has no job that Validate rejects.
Validated == \A j \in InvalidJobs : store[j] = Absent

\* No step stores one.
LEMMA ValidatedInvariant == Spec => []Validated
  <1>1. Init => Validated
    BY SchedulerAssumption DEF Init, Validated
  <1>2. TypeOK /\ Validated /\ [Next]_vars => Validated'
    <2> SUFFICES ASSUME TypeOK, Validated, [Next]_vars PROVE Validated'
      OBVIOUS
    <2> USE DEF Validated
    <2>1. ASSUME Request PROVE Validated'
      BY <2>1, SchedulerAssumption DEF Request, SetJob, DeleteJob, RemoteChange, TypeOK, StateOK
    <2>2. CASE store' = store
      BY <2>2
    <2> QED
      BY <2>1, <2>2 DEF Next, Step, CallStep, GetEntry, Acquire, Lose, LeaderStep, BeginLoop,
         Establish, StartCron, StartAdd, StartDone, Revoke, AgentStop, vars
  <1> QED
    BY <1>1, <1>2, TypeCorrect, PTL DEF Spec

\* In every state the loop is where it should be, and what it works on is current.
LEMMA CurrentInvariant == Spec => [](LoopInv /\ (Undisturbed => Current))
  <1> DEFINE Inv == LoopInv /\ (Undisturbed => Current)
             Base == TypeOK /\ (~overlap => SerialInv) /\ FirstTermOwns
  <1>1. Init => Inv
    BY DEF Init, LoopInv, Undisturbed, Procs
  <1>2. Base /\ Inv /\ [Next]_vars => Inv'
    <2> SUFFICES ASSUME Base, Inv, [Next]_vars PROVE Inv'
      OBVIOUS
    <2>0. StateOK /\ overlap \in BOOLEAN
      BY DEF TypeOK
    <2>1. CASE UNCHANGED vars
      <3>1. LoopInv' /\ Undisturbed' = Undisturbed
        BY <2>1 DEF vars, LoopInv, Undisturbed
      <3> QED
        BY <2>1, <3>1, CurrentKept DEF vars
    <2>2. ASSUME NEW p \in Procs, CallStep(p), ~crashed, Watch
          PROVE  Inv'
      <3>1. LoopInv'
        BY <2>0, <2>2, CallLoop
      <3>2. ASSUME Undisturbed' PROVE Current'
        <4>1. ~overlap /\ Undisturbed /\ ~crashed' /\ terms \in Nat
          BY <2>0, <2>2, <3>2 DEF Undisturbed, Watch, CallStep, StateOK
        <4>2. leader /\ ~leaving
          BY <4>1 DEF Undisturbed, LoopInv
        <4>3. terms = 1 => OwnIds
          BY SMT, <2>2, <4>2 DEF FirstTermOwns
        <4> QED
          BY <2>2, <4>1, <4>3, CallCurrent
      <3> QED
        BY <3>1, <3>2
    <2>3. ASSUME Outer, ~crashed, Watch
          PROVE  Inv'
      BY <2>0, <2>3, OuterLoop, OuterCurrent
    <2> QED
      BY <2>1, <2>2, <2>3 DEF Next, Step, Outer
  <1> QED
    BY <1>1, <1>2, TypeCorrect, SerialInvariant, OwnsInvariant, PTL DEF Spec

\* If calls have not overlapped, then whenever the first term's scheduler is at rest its cron
\* holds exactly the enabled root jobs of the store, in their stored versions, but
\* for jobs the store rejected (scheduler.go:41-61, agent.go:797-805).
THEOREM FirstTermSafe == Spec => []FirstTermMatches
  <1>1. TypeOK /\ Validated /\ LoopInv /\ (Undisturbed => Current) => FirstTermMatches
    <2> SUFFICES ASSUME TypeOK, Validated, LoopInv, Undisturbed => Current,
                        Quiescent, terms = 1, ~overlap
                 PROVE  {<<e.job, e.version>> : e \in {f \in cron.entries : f.job \notin InvalidJobs}}
                          = {<<j, store[j]>> : j \in {k \in Jobs : store[k] \in Versions}}
      BY DEF FirstTermMatches
    <2>1. todo = {} /\ Current /\ loop = "leading"
      BY DEF LoopInv, Quiescent, Undisturbed
    <2>2. ASSUME NEW j \in Jobs \ InvalidJobs PROVE Matches(j)
      <3>1. ~Waiting(j)
        BY SMT, <2>1 DEF Waiting, Quiescent, Idle
      <3> QED
        BY <2>1, <3>1 DEF Current
    <2>3. \A e \in cron.entries : e.job \in Jobs /\ e.version \in Versions
      BY DEF TypeOK, StateOK, Entry
    <2>4. \A e \in cron.entries : e.job \notin InvalidJobs =>
            store[e.job] \in Versions /\ e.version = store[e.job]
      BY <2>2, <2>3 DEF Matches
    <2>5. \A j \in Jobs : store[j] \in Versions =>
            \E e \in cron.entries :
              e.job \notin InvalidJobs /\ <<e.job, e.version>> = <<j, store[j]>>
      BY <2>2, SchedulerAssumption DEF Matches, Validated
    <2> QED
      BY SMT, <2>3, <2>4, <2>5
  <1> QED
    BY <1>1, TypeCorrect, ValidatedInvariant, CurrentInvariant, PTL

=============================================================================
