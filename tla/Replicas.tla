------------------------------ MODULE Replicas ------------------------------
(***************************************************************************)
(* The replicas of the job store.  Every server applies the committed Raft *)
(* log to its own in-memory store (dkron/fsm.go), takes snapshots of it,   *)
(* and restores one when it starts (setupRaft, dkron/agent.go) or when the *)
(* leader no longer has the entries it lacks.                              *)
(*                                                                         *)
(* Raft itself is external: `log' is the committed log, and only a server  *)
(* that holds all of it leads.  Three things of the code matter here.      *)
(* Snapshot() hands out the live store, so Persist saves what it holds     *)
(* later, possibly between two transactions of one command.  Restore       *)
(* loads a snapshot over what is stored and removes nothing.  And every    *)
(* replica computes Next from its own clock.                               *)
(***************************************************************************)
EXTENDS StoreOps, Sequences

CONSTANTS
  Servers,
  Commands,    \* the commands clients and agents may submit
  Clock,       \* per server: what its clock makes of a schedule
  Trailing,    \* log entries Raft keeps behind a snapshot
  MaxLog,      \* bound on the log
  MaxPersists, \* per server: bound on snapshots
  MaxCrashes,  \* per server: bound on crashes
  Files        \* recovery files an operator may put in place

\* What the log may hold; the last kind has no case in Apply.
Command ==
  [type : {"SetJob"}, name : Names, job : Job]
    \cup [type : {"DeleteJob"}, name : Names]
    \cup [type : {"SetExecution", "ExecutionDone"}, exec : Execution]
    \cup [type : {"DeleteExecutions"}, name : Names]

ASSUME ReplicasAssumption ==
  /\ \A c \in Commands : c \in Command
  /\ Clock \in [Servers -> SUBSET Nat]
  /\ Trailing \in Nat /\ MaxLog \in Nat
  /\ {MaxPersists, MaxCrashes} \subseteq [Servers -> Nat]

VARIABLES
  log,       \* the committed commands
  leader,    \* the server that leads, or NoServer
  up,        \* the servers that run
  store,     \* per server: its tables
  applied,   \* per server: the last entry applied to them
  received,  \* per server: the last entry on its disk
  base,      \* per server: the last entry compacted away
  snap,      \* per server: its latest snapshot
  taking,    \* per server: the index of a snapshot that is not saved yet
  peersFile, \* per server: raft/peers.json
  clean,     \* per server: its tables come from the log alone, in order
  used       \* per server: how much of each bound is used

vars == <<log, leader, up, store, applied, received, base, snap, taking, peersFile, clean, used>>

NoServer == "none"
Nothing == MaxLog + 1   \* no snapshot is being taken

Blank == [jobs |-> [n \in Names |-> ZeroJob], execs |-> {}]

Init ==
  /\ log = <<>>
  /\ leader = NoServer
  /\ up = Servers
  /\ store = [s \in Servers |-> Blank]
  /\ applied = [s \in Servers |-> 0]
  /\ received = [s \in Servers |-> 0]
  /\ base = [s \in Servers |-> 0]
  /\ snap = [s \in Servers |-> [index |-> 0, tables |-> Blank, clean |-> TRUE]]
  /\ taking = [s \in Servers |-> Nothing]
  /\ peersFile = [s \in Servers |-> "none"]
  /\ clean = [s \in Servers |-> TRUE]
  /\ used = [s \in Servers |-> [persists |-> 0, crashes |-> 0]]

-----------------------------------------------------------------------------
(* The commands. *)

\* SetExecutionDone of a job that is gone is an error.
ApplyDone(tables, e) ==
  LET put == PutExecution(tables.execs, e)
  IN IF ~tables.jobs[e.job].stored THEN tables
     ELSE [jobs |-> [tables.jobs EXCEPT ![e.job] =
                       CountDone(@, e, ComputeStatus(put, e.job, e.group))],
           execs |-> put]

ApplyDelete(tables, n) ==
  [jobs |-> DeleteJob(tables.jobs, n).jobs,
   execs |-> IF DeleteCommits(tables.jobs, n) THEN DeleteExecutions(tables.execs, n)
                                              ELSE tables.execs]

\* dkronFSM.Apply.  Errors go to the caller; a type that has no case, such as
\* DeleteExecutionsType, changes nothing.
ApplyCommand(tables, c, tick) ==
  CASE c.type = "SetJob" ->
         [tables EXCEPT !.jobs = SetJob(@, c.name, c.job, FALSE, tick).jobs]
    [] c.type = "DeleteJob" -> ApplyDelete(tables, c.name)
    [] c.type = "SetExecution" -> [tables EXCEPT !.execs = SetExecution(@, c.exec)]
    [] c.type = "ExecutionDone" -> ApplyDone(tables, c.exec)
    [] OTHER -> tables

\* The states between the transactions of a command that changes a parent: the
\* job is written or deleted, its old parent updated, its new one not yet.
Halves(tables, c, tick) ==
  LET jobs == tables.jobs
      written == [jobs EXCEPT ![c.name] = Merge(c.job, @, FALSE, tick)]
  IN CASE c.type = "SetJob" /\ Validate(c.name, c.job) /\ ParentFound(jobs, c.job)
            -> {[tables EXCEPT !.jobs = j] :
                  j \in {written, RemoveFromParent(written, c.name, jobs[c.name].parent).jobs}}
       [] c.type = "DeleteJob" /\ DeleteCommits(jobs, c.name)
            -> {[jobs |-> [jobs EXCEPT ![c.name] = ZeroJob],
                 execs |-> DeleteExecutions(tables.execs, c.name)]}
       [] OTHER -> {}

-----------------------------------------------------------------------------
(* The log. *)

Elect(s) ==
  /\ leader = NoServer
  /\ s \in up /\ received[s] = Len(log)
  /\ leader' = s
  /\ UNCHANGED <<log, up, store, applied, received, base, snap, taking, peersFile, clean, used>>

\* raft.Apply on the leader.
Submit(c) ==
  /\ leader # NoServer
  /\ Len(log) < MaxLog
  /\ log' = Append(log, c)
  /\ received' = [received EXCEPT ![leader] = Len(log) + 1]
  /\ UNCHANGED <<leader, up, store, applied, base, snap, taking, peersFile, clean, used>>

\* Mutant of Replicate: off by one, the entry after the snapshot is not sent.
ReplicateNewer(s) ==
  /\ leader # NoServer /\ s \in up
  /\ received[s] < Len(log) /\ received[s] > base[leader]
  /\ received' = [received EXCEPT ![s] = @ + 1]
  /\ UNCHANGED <<log, leader, up, store, applied, base, snap, taking, peersFile, clean, used>>

\* The leader sends what it still has.
Replicate(s) ==
  /\ leader # NoServer /\ s \in up
  /\ received[s] < Len(log) /\ received[s] >= base[leader]
  /\ received' = [received EXCEPT ![s] = @ + 1]
  /\ UNCHANGED <<log, leader, up, store, applied, base, snap, taking, peersFile, clean, used>>

\* Mutant of ApplyNext: an entry that is applied again after a restart is
\* skipped along with the one that follows it.
ApplySkips(s, tick) ==
  /\ s \in up /\ applied[s] < received[s]
  /\ store' = [store EXCEPT ![s] =
                 IF applied[s] = snap[s].index /\ snap[s].index > 0 THEN @
                 ELSE ApplyCommand(@, log[applied[s] + 1], tick)]
  /\ applied' = [applied EXCEPT ![s] = @ + 1]
  /\ UNCHANGED <<log, leader, up, received, base, snap, taking, peersFile, clean, used>>

\* The FSM goroutine of a server.
ApplyNext(s, tick) ==
  /\ s \in up /\ applied[s] < received[s]
  /\ store' = [store EXCEPT ![s] = ApplyCommand(@, log[applied[s] + 1], tick)]
  /\ applied' = [applied EXCEPT ![s] = @ + 1]
  /\ UNCHANGED <<log, leader, up, received, base, snap, taking, peersFile, clean, used>>

-----------------------------------------------------------------------------
(* Snapshots. *)

\* dkronFSM.Snapshot, on the FSM goroutine: the live store and an index.
Snapshot(s) ==
  /\ s \in up /\ taking[s] = Nothing
  /\ applied[s] > snap[s].index
  /\ used[s].persists < MaxPersists[s]
  /\ taking' = [taking EXCEPT ![s] = applied[s]]
  /\ used' = [used EXCEPT ![s].persists = @ + 1]
  /\ UNCHANGED <<log, leader, up, store, applied, received, base, snap, peersFile, clean>>

Smaller(a, b) == IF a < b THEN a ELSE b

\* Raft drops the log up to the snapshot, but for the trailing entries.
Compacted(s) ==
  LET kept == IF received[s] > Trailing THEN received[s] - Trailing ELSE 0
  IN Larger(base[s], Smaller(taking[s], kept))

\* dkronSnapshot.Persist, concurrent with the FSM goroutine: `tables' is what
\* the store holds now.
Persist(s, tables) ==
  /\ s \in up /\ taking[s] # Nothing
  /\ snap' = [snap EXCEPT ![s] =
                [index |-> taking[s], tables |-> tables,
                 clean |-> clean[s] /\ applied[s] = taking[s] /\ tables = store[s]]]
  /\ base' = [base EXCEPT ![s] = Compacted(s)]
  /\ taking' = [taking EXCEPT ![s] = Nothing]
  /\ UNCHANGED <<log, leader, up, store, applied, received, peersFile, clean, used>>

\* The sink fails and the snapshot is cancelled.
PersistFails(s) ==
  /\ s \in up /\ taking[s] # Nothing
  /\ taking' = [taking EXCEPT ![s] = Nothing]
  /\ UNCHANGED <<log, leader, up, store, applied, received, base, snap, peersFile, clean, used>>

\* What else than store[s] Persist can find: the command under way.
Between(s, tick) ==
  IF applied[s] < received[s] THEN Halves(store[s], log[applied[s] + 1], tick) ELSE {}

\* Store.Restore: the keys of the snapshot are set, no other key is removed.
Load(tables, saved) ==
  [jobs |-> [n \in Names |-> IF saved.jobs[n].stored THEN saved.jobs[n] ELSE tables.jobs[n]],
   execs |-> saved.execs \cup {e \in tables.execs : ~\E f \in saved.execs : SameKey(e, f)}]

\* The leader sends its snapshot to a server that lacks compacted entries; the
\* server saves it and restores it over its store.
InstallSnapshot(s) ==
  /\ leader # NoServer /\ s \in up /\ taking[s] = Nothing
  /\ received[s] < base[leader]
  /\ snap' = [snap EXCEPT ![s] = snap[leader]]
  /\ store' = [store EXCEPT ![s] = Load(@, snap[leader].tables)]
  /\ clean' = [clean EXCEPT ![s] = snap[leader].clean /\ store'[s] = snap[leader].tables]
  /\ applied' = [applied EXCEPT ![s] = snap[leader].index]
  /\ received' = [received EXCEPT ![s] = snap[leader].index]
  /\ base' = [base EXCEPT ![s] = snap[leader].index]
  /\ UNCHANGED <<log, leader, up, taking, peersFile, used>>

-----------------------------------------------------------------------------
(* Crashes, starts and the recovery file. *)

\* The store is in memory; the log and the snapshots are on disk.  Before the
\* next start an operator may put raft/peers.json in place.
Crash(s, file) ==
  /\ s \in up /\ used[s].crashes < MaxCrashes[s]
  /\ up' = up \ {s}
  /\ leader' = IF leader = s THEN NoServer ELSE leader
  /\ store' = [store EXCEPT ![s] = Blank]
  /\ applied' = [applied EXCEPT ![s] = 0]
  /\ taking' = [taking EXCEPT ![s] = Nothing]
  /\ clean' = [clean EXCEPT ![s] = TRUE]
  /\ peersFile' = [peersFile EXCEPT ![s] = file]
  /\ used' = [used EXCEPT ![s].crashes = @ + 1]
  /\ UNCHANGED <<log, received, base, snap>>

\* setupRaft with a new store: NewRaft restores the latest snapshot into it
\* and goes on from there.
Start(s) ==
  /\ s \notin up /\ peersFile[s] = "none"
  /\ up' = up \cup {s}
  /\ store' = [store EXCEPT ![s] = Load(@, snap[s].tables)]
  /\ applied' = [applied EXCEPT ![s] = snap[s].index]
  /\ clean' = [clean EXCEPT ![s] = snap[s].clean]
  /\ UNCHANGED <<log, leader, received, base, snap, taking, peersFile, used>>

\* setupRaft with the file never gets to NewRaft: a malformed file is an error,
\* RecoverCluster refuses a server without state, and on any other it panics in
\* the FSM it is given, which has no store.  The server stays down and the file
\* in place until the operator removes it.
RemovePeers(s) ==
  /\ peersFile[s] # "none"
  /\ peersFile' = [peersFile EXCEPT ![s] = "none"]
  /\ UNCHANGED <<log, leader, up, store, applied, received, base, snap, taking, clean, used>>

Progress(s) ==
  \/ Elect(s) \/ Replicate(s) \/ InstallSnapshot(s) \/ Start(s) \/ RemovePeers(s)
  \/ Persist(s, store[s])
  \/ \E tick \in Clock[s] : ApplyNext(s, tick)

Next ==
  \/ \E c \in Commands : Submit(c)
  \/ \E s \in Servers :
       \/ Progress(s)
       \/ Snapshot(s) \/ PersistFails(s)
       \/ \E tick \in Clock[s] : \E tables \in Between(s, tick) : Persist(s, tables)
       \/ \E file \in Files \cup {"none"} : Crash(s, file)

Spec == Init /\ [][Next]_vars

\* Raft elects and replicates, the FSM goroutine runs, and a server that is
\* down is started again.
FairSpec ==
  Spec /\ \A s \in Servers : WF_vars(Progress(s))

-----------------------------------------------------------------------------
(* Properties. *)

\* Next depends on the clock of the replica.
Forget(tables) == [tables EXCEPT !.jobs = [n \in Names |-> [@[n] EXCEPT !.next = 0]]]

\* Servers that have applied the same entries hold the same jobs and the same
\* executions, Next aside, through snapshots, restarts and installed snapshots,
\* as long as no snapshot was saved after further commands and none was loaded
\* over keys it does not have (fsm.go:133-161, store.go:585-592).
SameLogSameTables ==
  \A s, t \in up :
    clean[s] /\ clean[t] /\ applied[s] = applied[t] => Forget(store[s]) = Forget(store[t])

\* Every server comes back and applies the whole log, whichever entries were
\* compacted meanwhile (agent.go:367-373).
CatchesUp == <>[](\A s \in Servers : s \in up /\ applied[s] = Len(log))

-----------------------------------------------------------------------------
(* What a comment of the code says, and does not hold. *)

\* fsm.go:137: "Restore stores the key-value store to a previous state.": so a
\* server that restored one and then applied the rest of the log agrees with
\* one that applied all of it.
RestoresPreviousState ==
  \A s, t \in up :
    applied[s] = Len(log) /\ applied[t] = Len(log) => Forget(store[s]) = Forget(store[t])

=============================================================================
