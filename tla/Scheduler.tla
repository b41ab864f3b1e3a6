------------------------------ MODULE Scheduler ------------------------------
(***************************************************************************)
(* The cron scheduler of a dkron server (dkron/scheduler.go), as the       *)
(* leader loop (dkron/leader.go) starts and stops it and the gRPC handlers *)
(* of SetJob and DeleteJob (dkron/grpc.go) update it.                      *)
(*                                                                         *)
(* The handlers and the leader loop are goroutines: each access to the     *)
(* store, to EntryJobMap (a sync.Map) and to the cron object is one step.  *)
(* Agent.Run and the toggle handler reach the store here through SetJob    *)
(* only; their stale write-backs are the subject of JobStore.              *)
(***************************************************************************)
EXTENDS Naturals

CONSTANTS
  Jobs,         \* job names
  KeyRank,      \* rank of a job's key in the store
  Versions,     \* contents of an enabled root job
  InvalidJobs,  \* names that Validate rejects
  Handlers,     \* concurrent gRPC requests
  MaxTerms,     \* bound on the number of times Start is called
  MaxRequests   \* bound on requests and remote changes

Absent == "absent"   \* not in the store
Off == "off"         \* a disabled job or a child job: never in the cron
Leader == "leader"   \* the leader loop, inside Start

ASSUME SchedulerAssumption ==
  /\ KeyRank \in [Jobs -> Nat]
  /\ Versions \cap {Absent, Off} = {}
  /\ InvalidJobs \subseteq Jobs
  /\ Leader \notin Handlers
  /\ MaxTerms \in Nat
  /\ MaxRequests \in Nat

VARIABLES
  store,      \* per job: its version, Off or Absent
  leader,     \* raft says this server leads
  loop,       \* leaderLoop: none, barrier, snapshot, starting, leading
  stopping,   \* leadership was lost and the loop has not returned yet
  todo,       \* the jobs Start has still to add
  cron,       \* Scheduler.Cron: whether it is set, its last id, its entries
  started,    \* Scheduler.Started
  entryMap,   \* EntryJobMap; 0 if the job has no entry id
  call,       \* per goroutine: where it is in AddJob or RemoveJob
  crashed,    \* the process panicked on a nil Cron
  leaving,    \* Agent.Stop was called
  terms,      \* calls of Start
  requests,   \* requests and remote changes
  overlap     \* two calls of AddJob, RemoveJob or Start were once in progress together

vars == <<store, leader, loop, stopping, todo, cron, started, entryMap, call,
          crashed, leaving, terms, requests, overlap>>

Procs == Handlers \cup {Leader}

Contents == Versions \cup {Off, Absent}

Entry == [id : Nat, job : Jobs, version : Versions]

Idle == [pc |-> "idle"]

Removing == [pc : {"load", "loadRemove", "remove", "delete"},
             job : Jobs, version : Contents, id : Nat]
Adding == [pc : {"add", "store"}, job : Jobs, version : Versions, id : Nat]

Call == {Idle} \cup Removing \cup Adding

StateOK ==
  /\ store \in [Jobs -> Contents]
  /\ leader \in BOOLEAN
  /\ loop \in {"none", "barrier", "snapshot", "starting", "leading"}
  /\ stopping \in BOOLEAN
  /\ todo \subseteq [job : Jobs, version : Contents]
  /\ cron \in [set : BOOLEAN, lastId : Nat, entries : SUBSET Entry]
  /\ started \in BOOLEAN
  /\ entryMap \in [Jobs -> Nat]
  /\ call \in [Procs -> Call]
  /\ crashed \in BOOLEAN
  /\ leaving \in BOOLEAN
  /\ terms \in Nat
  /\ requests \in Nat

\* The scheduler's own state and the calls on it are well formed.
TypeOK == StateOK /\ overlap \in BOOLEAN

NoCron == [set |-> FALSE, lastId |-> 0, entries |-> {}]
NewCron == [set |-> TRUE, lastId |-> 0, entries |-> {}]

Init ==
  /\ store = [j \in Jobs |-> Absent]
  /\ leader = FALSE
  /\ loop = "none"
  /\ stopping = FALSE
  /\ todo = {}
  /\ cron = NoCron
  /\ started = FALSE
  /\ entryMap = [j \in Jobs |-> 0]
  /\ call = [p \in Procs |-> Idle]
  /\ crashed = FALSE
  /\ leaving = FALSE
  /\ terms = 0
  /\ requests = 0
  /\ overlap = FALSE

-----------------------------------------------------------------------------
(* AddJob and RemoveJob, one access at a time. *)

Begin(p, pc, j, v) ==
  call' = [call EXCEPT ![p] = [pc |-> pc, job |-> j, version |-> v, id |-> 0]]

Goto(p, pc, id) ==
  call' = [call EXCEPT ![p] = [pc |-> pc, job |-> @.job, version |-> @.version, id |-> id]]

\* AddJob adds enabled root jobs only; RemoveJob ends here.
AfterRemove(p) ==
  IF call[p].version \in Versions THEN Goto(p, "add", 0)
                                  ELSE call' = [call EXCEPT ![p] = Idle]

\* Mutant of LoadEntry: what is already set is not removed.
AddWithoutRemove(p) ==
  /\ call[p].pc = "load"
  /\ AfterRemove(p)
  /\ UNCHANGED <<cron, entryMap, crashed>>

\* AddJob: is the job already set?
LoadEntry(p) ==
  /\ call[p].pc = "load"
  /\ IF entryMap[call[p].job] # 0 THEN Goto(p, "loadRemove", 0) ELSE AfterRemove(p)
  /\ UNCHANGED <<cron, entryMap, crashed>>

\* RemoveJob: the id to remove.
LoadId(p) ==
  /\ call[p].pc = "loadRemove"
  /\ IF entryMap[call[p].job] # 0 THEN Goto(p, "remove", entryMap[call[p].job])
                                  ELSE AfterRemove(p)
  /\ UNCHANGED <<cron, entryMap, crashed>>

\* RemoveJob: Cron.Remove.
RemoveEntry(p) ==
  /\ call[p].pc = "remove"
  /\ cron' = [cron EXCEPT !.entries = {e \in @ : e.id # call[p].id}]
  /\ crashed' = ~cron.set
  /\ Goto(p, "delete", 0)
  /\ UNCHANGED entryMap

\* RemoveJob: EntryJobMap.Delete.
DeleteId(p) ==
  /\ call[p].pc = "delete"
  /\ entryMap' = [entryMap EXCEPT ![call[p].job] = 0]
  /\ AfterRemove(p)
  /\ UNCHANGED <<cron, crashed>>

\* AddJob: Cron.AddJob.
AddEntry(p) ==
  /\ call[p].pc = "add"
  /\ LET new == [id |-> cron.lastId + 1, job |-> call[p].job, version |-> call[p].version]
     IN cron' = IF cron.set THEN [cron EXCEPT !.lastId = new.id, !.entries = @ \cup {new}]
                            ELSE cron
  /\ crashed' = ~cron.set
  /\ Goto(p, "store", cron.lastId + 1)
  /\ UNCHANGED entryMap

\* Mutant of StoreId: the last id of the cron, not the one AddJob returned.
StoreLastId(p) ==
  /\ call[p].pc = "store"
  /\ entryMap' = [entryMap EXCEPT ![call[p].job] = cron.lastId]
  /\ call' = [call EXCEPT ![p] = Idle]
  /\ UNCHANGED <<cron, crashed>>

\* AddJob: EntryJobMap.Store.
StoreId(p) ==
  /\ call[p].pc = "store"
  /\ entryMap' = [entryMap EXCEPT ![call[p].job] = call[p].id]
  /\ call' = [call EXCEPT ![p] = Idle]
  /\ UNCHANGED <<cron, crashed>>

CallStep(p) ==
  /\ \/ LoadEntry(p)
     \/ LoadId(p)
     \/ RemoveEntry(p)
     \/ DeleteId(p)
     \/ AddEntry(p)
     \/ StoreId(p)
  /\ UNCHANGED <<store, leader, loop, stopping, todo, started, leaving, terms, requests>>

-----------------------------------------------------------------------------
(* gRPC handlers.  The apply succeeds on the raft leader only. *)

\* SetJob: applySetJob passes on two errors of the store and drops the others,
\* so a job that Validate rejects is not stored and goes on to AddJob.
SetJob(h, j, v) ==
  /\ leader
  /\ call[h] = Idle
  /\ store' = IF j \in InvalidJobs THEN store ELSE [store EXCEPT ![j] = v]
  /\ Begin(h, "load", j, v)
  /\ requests' = requests + 1
  /\ UNCHANGED <<leader, loop, stopping, todo, cron, started, entryMap, crashed,
                 leaving, terms>>

\* Mutant of DeleteJob: the entry stays in the cron.
DeleteKeepsEntry(h, j) ==
  /\ leader
  /\ call[h] = Idle
  /\ store[j] # Absent
  /\ store' = [store EXCEPT ![j] = Absent]
  /\ requests' = requests + 1
  /\ UNCHANGED <<leader, loop, stopping, todo, cron, started, entryMap, call, crashed,
                 leaving, terms>>

\* DeleteJob: on success RemoveJob follows.
DeleteJob(h, j) ==
  /\ leader
  /\ call[h] = Idle
  /\ store[j] # Absent
  /\ store' = [store EXCEPT ![j] = Absent]
  /\ Begin(h, "loadRemove", j, Absent)
  /\ requests' = requests + 1
  /\ UNCHANGED <<leader, loop, stopping, todo, cron, started, entryMap, crashed,
                 leaving, terms>>

\* RunJob of a root job: GetEntry reads the entries of the cron.
GetEntry(j) ==
  /\ leader
  /\ store[j] \in Versions
  /\ crashed' = ~cron.set
  /\ UNCHANGED <<store, leader, loop, stopping, todo, cron, started, entryMap, call,
                 leaving, terms, requests>>

\* Another server leads and changes the store.
RemoteChange(j, v) ==
  /\ ~leader
  /\ j \notin InvalidJobs
  /\ store' = [store EXCEPT ![j] = v]
  /\ requests' = requests + 1
  /\ UNCHANGED <<leader, loop, stopping, todo, cron, started, entryMap, call, crashed,
                 leaving, terms>>

-----------------------------------------------------------------------------
(* Leadership.  monitorLeadership runs one leader loop at a time.  *)

Acquire ==
  /\ ~leader /\ ~leaving
  /\ leader' = TRUE
  /\ UNCHANGED <<store, loop, stopping, todo, cron, started, entryMap, call, crashed,
                 leaving, terms, requests>>

\* Mutant of Lose: a loop that is still in Start does not see the signal.
LoseWhenLeading ==
  /\ leader
  /\ leader' = FALSE
  /\ stopping' = (stopping \/ loop = "leading")
  /\ UNCHANGED <<store, loop, todo, cron, started, entryMap, call, crashed, leaving,
                 terms, requests>>

Lose ==
  /\ leader
  /\ leader' = FALSE
  /\ stopping' = (stopping \/ loop # "none")
  /\ UNCHANGED <<store, loop, todo, cron, started, entryMap, call, crashed, leaving,
                 terms, requests>>

\* monitorLeadership starts the loop, which waits for the barrier.
BeginLoop ==
  /\ leader /\ loop = "none"
  /\ loop' = "barrier"
  /\ UNCHANGED <<store, leader, stopping, todo, cron, started, entryMap, call, crashed,
                 leaving, terms, requests>>

\* What GetJobs returns.
GetJobs == {[job |-> j, version |-> store[j]] : j \in {k \in Jobs : store[k] # Absent}}

\* The barrier succeeded: establishLeadership reads all jobs.  A loop that was
\* told to stop gets here too if the server leads again before the barrier.
Establish ==
  /\ leader /\ loop = "barrier" /\ terms < MaxTerms
  /\ loop' = "snapshot"
  /\ todo' = GetJobs
  /\ UNCHANGED <<store, leader, stopping, cron, started, entryMap, call, crashed,
                 leaving, terms, requests>>

\* Start: a new cron; EntryJobMap keeps what it holds.
StartCron ==
  /\ loop = "snapshot"
  /\ loop' = "starting"
  /\ cron' = NewCron
  /\ terms' = terms + 1
  /\ UNCHANGED <<store, leader, stopping, todo, started, entryMap, call, crashed,
                 leaving, requests>>

\* Start: the next job, in key order.
StartAdd ==
  /\ loop = "starting" /\ call[Leader] = Idle
  /\ \E t \in todo :
       /\ \A u \in todo : KeyRank[t.job] <= KeyRank[u.job]
       /\ Begin(Leader, "load", t.job, t.version)
       /\ todo' = todo \ {t}
  /\ UNCHANGED <<store, leader, loop, stopping, cron, started, entryMap, crashed,
                 leaving, terms, requests>>

StartDone ==
  /\ loop = "starting" /\ call[Leader] = Idle /\ todo = {}
  /\ loop' = "leading"
  /\ started' = TRUE
  /\ UNCHANGED <<store, leader, stopping, todo, cron, entryMap, call, crashed, leaving,
                 terms, requests>>

\* Mutant of Revoke: the scheduler forgets its cron.
RevokeAndClear ==
  /\ stopping /\ loop \in {"barrier", "leading"}
  /\ loop' = "none"
  /\ stopping' = FALSE
  /\ cron' = IF loop = "leading" THEN NoCron ELSE cron
  /\ started' = FALSE
  /\ UNCHANGED <<store, leader, todo, entryMap, call, crashed, leaving, terms, requests>>

\* The loop returns: Stop, if leadership was established; the cron is kept.
Revoke ==
  /\ stopping /\ loop \in {"barrier", "leading"}
  /\ loop' = "none"
  /\ stopping' = FALSE
  /\ started' = FALSE
  /\ UNCHANGED <<store, leader, todo, cron, entryMap, call, crashed, leaving, terms,
                 requests>>

\* Agent.Stop: raft is shut down, a started scheduler is stopped and cleared.
AgentStop ==
  /\ ~leaving
  /\ leaving' = TRUE
  /\ leader' = FALSE
  /\ stopping' = (stopping \/ loop # "none")
  /\ started' = FALSE
  /\ cron' = IF started THEN NoCron ELSE cron
  /\ UNCHANGED <<store, loop, todo, entryMap, call, crashed, terms, requests>>

Request ==
  /\ requests < MaxRequests
  /\ \E j \in Jobs :
       \/ \E h \in Handlers : (\E v \in Versions \cup {Off} : SetJob(h, j, v)) \/ DeleteJob(h, j)
       \/ \E v \in Contents : RemoteChange(j, v)

LeaderStep == BeginLoop \/ Establish \/ StartCron \/ StartAdd \/ StartDone \/ Revoke

Step ==
  /\ ~crashed
  /\ \/ \E p \in Procs : CallStep(p)
     \/ Request
     \/ \E j \in Jobs : GetEntry(j)
     \/ Acquire \/ Lose
     \/ LeaderStep
     \/ AgentStop

\* Clients that wait for the answer to their request, and for the leader to
\* have started its scheduler, never make calls overlap.
Busy(p) == call[p] # Idle \/ (p = Leader /\ loop \in {"snapshot", "starting"})

OneCallAtATime == \A p, q \in Procs : Busy(p) /\ Busy(q) => p = q

Watch == overlap' = (overlap \/ ~OneCallAtATime')

Next == Step /\ Watch

Spec == Init /\ [][Next]_vars

\* Goroutines run: a call in progress and the leader loop make progress.
FairSpec == Spec /\ WF_vars(~crashed /\ LeaderStep /\ Watch)
                 /\ \A p \in Procs : WF_vars(~crashed /\ CallStep(p) /\ Watch)

-----------------------------------------------------------------------------
(* Properties. *)

\* A handler finds no cron, and panics, only before the first Start or while
\* the agent is leaving: Stop keeps the stopped cron for the calls that are
\* still on their way (scheduler.go:64-67).
PanicsOnlyBeforeStart == crashed => leaving \/ terms = 0

\* In the first term RemoveJob takes no other job's entry out of the cron,
\* however the calls of AddJob and RemoveJob interleave (scheduler.go:130-147).
RemovesOwnEntry ==
  [][terms <= 1 /\ terms' = terms /\ ~leaving' =>
       \A e \in cron.entries \ cron'.entries :
         \E p \in Procs : call[p].pc = "remove" /\ call[p].job = e.job]_vars

\* A server that lost leadership stops scheduling, wherever in the leader
\* loop the loss finds it (leader.go:52-56, 100-104).
FollowerStops == (started /\ ~leader) ~> (~started \/ leader \/ crashed)

OneEntry == \A e, f \in cron.entries : e.job = f.job => e = f

\* AddJob removes what is set before it adds (scheduler.go:103-106): as long as
\* calls have not overlapped a job has at most one entry, in every term.
AtMostOneEntry == ~overlap => OneEntry

\* The server leads, its scheduler runs, and no call is in progress.
Quiescent ==
  /\ leader /\ loop = "leading" /\ ~stopping /\ ~crashed
  /\ \A p \in Procs : call[p] = Idle

\* If calls have not overlapped, the cron of the first term holds exactly the
\* enabled root jobs of the store, each in its stored version, but for jobs
\* that the store rejected and SetJob scheduled all the same (agent.go:797-805).
FirstTermMatches ==
  Quiescent /\ terms = 1 /\ ~overlap =>
    {<<e.job, e.version>> : e \in {f \in cron.entries : f.job \notin InvalidJobs}}
      = {<<j, store[j]>> : j \in {k \in Jobs : store[k] \in Versions}}

\* scheduler.go:41: "Start the cron scheduler, adding its corresponding jobs":
\* after Start every enabled root job has an entry, even if no calls overlap.
StartAddsAll ==
  Quiescent /\ ~overlap =>
    \A j \in Jobs : store[j] \in Versions => \E e \in cron.entries : e.job = j

=============================================================================
