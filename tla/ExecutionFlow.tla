--------------------------- MODULE ExecutionFlow ---------------------------
(***************************************************************************)
(* One job from its trigger to its last report.  Agent.Run (dkron/run.go)  *)
(* dispatches a group of executions, one per target node.  Each dispatch   *)
(* is a stream between GRPCClient.AgentRun on the server                   *)
(* (dkron/grpc_client.go) and AgentServer.AgentRun on the node             *)
(* (dkron/grpc_agent.go).  Its end is reported with ExecutionDone          *)
(* (dkron/grpc.go), whose handler counts it, retries a failure and         *)
(* triggers the dependent jobs.                                            *)
(*                                                                         *)
(* Streams break, reports are lost, and the dispatching server may crash.  *)
(* A broken stream is reported by the server, and by the node as well if   *)
(* it cannot send its final message.  A failed report is retried by its    *)
(* own handler, so a dispatch is named by its group, its node and the      *)
(* reports that led to it.                                                 *)
(***************************************************************************)
EXTENDS StoreOps, Sequences

CONSTANTS
  JobName,     \* the job
  Nodes,       \* nodes the job may target
  Groups,      \* executions of the job, each started once
  Manual,      \* the groups started by RunJob; the scheduler starts the others
  MaxRetries,  \* bound on Job.Retries
  Forbid,      \* Job.Concurrency = "forbid"
  Stamp,       \* StartedAt of each dispatch; not 0
  Plans        \* the scenarios: a Plan each

\* The nodes that may be targeted, Job.Retries, when executors end and when
\* broken streams are noticed, and bounds on broken streams and on crashes of
\* the dispatching server.
Plan == [nodes : SUBSET Nodes, retries : 0..MaxRetries, ends : SUBSET Nat,
         errors : SUBSET Nat, maxBreaks : Nat, maxCrashes : Nat]

By == {"client", "agent"}

Paths == UNION {[1..k -> By] : k \in 0..MaxRetries}

Dispatches == Groups \X Nodes \X Paths

ASSUME FlowAssumption ==
  /\ JobName \in Names
  /\ Manual \subseteq Groups
  /\ Groups \subseteq Nat \ {0}
  /\ MaxRetries \in Nat
  /\ Forbid \in BOOLEAN
  /\ Stamp \in [Dispatches -> Nat \ {0}]
  /\ \A c, d \in Dispatches : Stamp[c] = Stamp[d] => c = d
  /\ Plans \subseteq Plan

VARIABLES
  plan,       \* the scenario
  job,        \* the stored job
  execs,      \* the stored executions
  trigger,    \* per group: not fired, found runnable, running
  disp,       \* per dispatch: both ends of its stream
  report,     \* per dispatch and sender: its ExecutionDone call
  counted,    \* the reports that were applied
  last,       \* the group of the last applied report
  lost,       \* the dispatches that lost a report
  children,   \* per group: how often its reports ran the dependent jobs
  breaks,     \* streams broken
  crashes     \* crashes

vars == <<plan, job, execs, trigger, disp, report, counted, last, lost, children, breaks, crashes>>

Attempt(d) == Len(d[3]) + 1

Retry(d, by) == <<d[1], d[2], Append(d[3], by)>>

Exec(d, started, finished, success) ==
  [job |-> JobName, started |-> started, group |-> d[1], finished |-> finished,
   success |-> success]

\* A dispatch holds the state of the server's end (client) and of the node's
\* end (agent) of its stream, how many messages the node has sent and the server
\* received (the first, the final), whether the stream is broken, the execution
\* the node was asked to run (base) and the execution as it ended (result).  A
\* report holds the state of the call and its execution.
NoExec == [job |-> JobName, started |-> 0, group |-> 0, finished |-> 0, success |-> FALSE]

Init ==
  /\ plan \in Plans
  /\ job \in {[ZeroJob EXCEPT !.stored = TRUE, !.schedule = s] : s \in Schedules}
  /\ execs = {}
  /\ trigger = [g \in Groups |-> "none"]
  /\ disp = [d \in Dispatches |->
               [client |-> "none", agent |-> "none", sent |-> 0, received |-> 0,
                broken |-> FALSE, base |-> NoExec, result |-> NoExec]]
  /\ report = [r \in Dispatches \X By |-> [pc |-> "none", exec |-> NoExec]]
  /\ counted = {}
  /\ last = 0
  /\ lost = {}
  /\ children = [g \in Groups |-> 0]
  /\ breaks = 0
  /\ crashes = 0

-----------------------------------------------------------------------------
(* The trigger. *)

\* activeExecutions of the servers: streams that have delivered a message.
Active == {d \in Dispatches : /\ disp[d].received > 0
                              /\ disp[d].client \in {"recv", "set", "report"}}

\* Job.Run from the scheduler: isRunnable; RunJob does not look.
Fire(g) ==
  /\ trigger[g] = "none"
  /\ Forbid /\ g \notin Manual => Active = {}
  /\ trigger' = [trigger EXCEPT ![g] = "runnable"]
  /\ UNCHANGED <<job, execs, disp, report, counted, last, lost, children, breaks, crashes>>

\* Agent.Run of a root job first stores the next firing of its entry.
Rescheduled(g) == Merge([job EXCEPT !.next = g], job, FALSE, 0)

\* Agent.Run: one stream for each target node; none if there is no target.
Run(g, targets) ==
  /\ trigger[g] = "runnable"
  /\ trigger' = [trigger EXCEPT ![g] = "started"]
  /\ job' = Rescheduled(g)
  /\ disp' = [d \in Dispatches |->
                IF d[1] = g /\ d[2] \in targets /\ d[3] = <<>>
                  THEN [disp[d] EXCEPT !.client = "dial", !.base = Exec(d, 0, 0, FALSE)]
                  ELSE disp[d]]
  /\ UNCHANGED <<execs, report, counted, last, lost, children, breaks, crashes>>

-----------------------------------------------------------------------------
(* The node: AgentServer.AgentRun. *)

\* The first message.  It is not sent, and the handler returns an error, if the
\* stream is found broken or the job has no executor.
AgentStart(d) ==
  /\ disp[d].agent = "none"
  /\ disp[d].client \notin {"none", "dial"}
  /\ \/ disp' = [disp EXCEPT ![d].agent = "running", ![d].sent = 1]
     \/ disp' = [disp EXCEPT ![d].agent = "ended", ![d].broken = TRUE]
  /\ UNCHANGED <<job, execs, trigger, report, counted, last, lost, children, breaks, crashes>>

\* The executor returns.
AgentFinish(d, finished, success) ==
  /\ disp[d].agent = "running"
  /\ finished >= disp[d].base.finished
  /\ disp' = [disp EXCEPT ![d].agent = "final",
                          ![d].result = Exec(d, Stamp[d], finished, success)]
  /\ UNCHANGED <<job, execs, trigger, report, counted, last, lost, children, breaks, crashes>>

\* Mutant of SendFinal: the node reports what it has sent as well.
SendAndReport(d) ==
  /\ disp[d].agent = "final"
  /\ disp' = [disp EXCEPT ![d].agent = "fallback", ![d].sent = 2]
  /\ report' = [report EXCEPT ![<<d, "agent">>] = [pc |-> "sent", exec |-> disp[d].result]]
  /\ UNCHANGED <<job, execs, trigger, counted, last, lost, children, breaks, crashes>>

\* The final message.
SendFinal(d) ==
  /\ disp[d].agent = "final"
  /\ disp' = [disp EXCEPT ![d].agent = "ended", ![d].sent = 2]
  /\ lost' = IF disp[d].client \in {"closed", "dead"} /\ <<d, "client">> \notin counted
               THEN lost \cup {d} ELSE lost
  /\ UNCHANGED <<job, execs, trigger, report, counted, last, children, breaks, crashes>>

\* Mutant of FallBack: the node gives up.
GiveUp(d) ==
  /\ disp[d].agent = "final" /\ disp[d].broken
  /\ disp' = [disp EXCEPT ![d].agent = "ended"]
  /\ UNCHANGED <<job, execs, trigger, report, counted, last, lost, children, breaks, crashes>>

\* The final message fails: the node calls ExecutionDone on some server.
FallBack(d) ==
  /\ disp[d].agent = "final" /\ disp[d].broken
  /\ disp' = [disp EXCEPT ![d].agent = "fallback"]
  /\ report' = [report EXCEPT ![<<d, "agent">>] = [pc |-> "sent", exec |-> disp[d].result]]
  /\ UNCHANGED <<job, execs, trigger, counted, last, lost, children, breaks, crashes>>

AgentReturns(d) ==
  /\ disp[d].agent = "fallback"
  /\ report[<<d, "agent">>].pc \in {"answered", "failed"}
  /\ disp' = [disp EXCEPT ![d].agent = "ended"]
  /\ UNCHANGED <<job, execs, trigger, report, counted, last, lost, children, breaks, crashes>>

-----------------------------------------------------------------------------
(* The server: GRPCClient.AgentRun. *)

\* A retry of an execution that never reached its node has no address to dial.
Open(d) ==
  /\ disp[d].client = "dial"
  /\ Attempt(d) > 1 => disp[d].base.started # 0
  /\ disp' = [disp EXCEPT ![d].client = "recv"]
  /\ UNCHANGED <<job, execs, trigger, report, counted, last, lost, children, breaks, crashes>>

\* The error is only logged.
DialFails(d) ==
  /\ disp[d].client = "dial"
  /\ disp' = [disp EXCEPT ![d].client = "closed", ![d].agent = "ended"]
  /\ UNCHANGED <<job, execs, trigger, report, counted, last, lost, children, breaks, crashes>>

\* The first message goes to the store before the next one is received.
Receive(d) ==
  /\ disp[d].client = "recv"
  /\ disp[d].received < disp[d].sent
  /\ disp' = [disp EXCEPT ![d].received = @ + 1,
                          ![d].client = IF disp[d].received = 0 THEN "set" ELSE "recv"]
  /\ UNCHANGED <<job, execs, trigger, report, counted, last, lost, children, breaks, crashes>>

\* Mutant of First: an execution is a success until it fails.
FirstSucceeds(d) == Exec(d, Stamp[d], disp[d].base.finished, TRUE)

\* A retry starts from the failed execution, FinishedAt included.
First(d) == Exec(d, Stamp[d], disp[d].base.finished, FALSE)

\* SetExecution with the first message.
StoreFirst(d) ==
  /\ disp[d].client = "set"
  /\ execs' = SetExecution(execs, First(d))
  /\ disp' = [disp EXCEPT ![d].client = "recv"]
  /\ UNCHANGED <<job, trigger, report, counted, last, lost, children, breaks, crashes>>

\* SetExecution fails: the server closes the connection and reports nothing.
StoreFirstFails(d) ==
  /\ disp[d].client = "set"
  /\ disp' = [disp EXCEPT ![d].client = "closed", ![d].broken = TRUE]
  /\ lost' = IF disp[d].agent = "ended" THEN lost \cup {d} ELSE lost
  /\ UNCHANGED <<job, execs, trigger, report, counted, last, children, breaks, crashes>>

\* The execution as the server knows it.
Known(d) == CASE disp[d].received = 0 -> disp[d].base
              [] disp[d].received = 1 -> First(d)
              [] disp[d].received = 2 -> disp[d].result

ClientReports(d, exec) ==
  /\ disp' = [disp EXCEPT ![d].client = "report"]
  /\ report' = [report EXCEPT ![<<d, "client">>] = [pc |-> "sent", exec |-> exec]]
  /\ UNCHANGED <<job, execs, trigger, counted, last, lost, children, breaks, crashes>>

\* The node returned and everything it sent was received.
ReceiveEOF(d) ==
  /\ disp[d].client = "recv" /\ ~disp[d].broken
  /\ disp[d].agent = "ended" /\ disp[d].received = 2
  /\ ClientReports(d, Known(d))

\* Mutant of ReceiveError: the server also gives up on a silent node.
ReceiveTimeout(d, now) ==
  /\ disp[d].client = "recv"
  /\ ClientReports(d, [Known(d) EXCEPT !.finished = now])

\* ErrBrokenStream: the last known execution, finished now.
ReceiveError(d, now) ==
  /\ disp[d].client = "recv" /\ disp[d].broken
  /\ ClientReports(d, [Known(d) EXCEPT !.finished = now])

\* Mutant of ClientReturns: a failed call is waited for.
ClientWaits(d) ==
  /\ disp[d].client = "report"
  /\ report[<<d, "client">>].pc = "answered"
  /\ disp' = [disp EXCEPT ![d].client = "closed"]
  /\ UNCHANGED <<job, execs, trigger, report, counted, last, lost, children, breaks, crashes>>

ClientReturns(d) ==
  /\ disp[d].client = "report"
  /\ report[<<d, "client">>].pc \in {"answered", "failed"}
  /\ disp' = [disp EXCEPT ![d].client = "closed"]
  /\ UNCHANGED <<job, execs, trigger, report, counted, last, lost, children, breaks, crashes>>

-----------------------------------------------------------------------------
(* ExecutionDone on the leader. *)

\* Mutant of Apply: the status is computed before the execution is saved.
ApplyStatusFirst(d, by) ==
  LET done == report[<<d, by>>].exec
  IN /\ report[<<d, by>>].pc = "sent"
     /\ execs' = PutExecution(execs, done)
     /\ job' = CountDone(job, done, ComputeStatus(execs, JobName, done.group))
     /\ report' = [report EXCEPT ![<<d, by>>].pc = "applied"]
     /\ counted' = counted \cup {<<d, by>>}
     /\ last' = done.group
     /\ UNCHANGED <<trigger, disp, lost, children, breaks, crashes>>

\* The report is applied to the log: SetExecutionDone.
Apply(d, by) ==
  LET done == report[<<d, by>>].exec
      put == PutExecution(execs, done)
  IN /\ report[<<d, by>>].pc = "sent"
     /\ execs' = put
     /\ job' = CountDone(job, done, ComputeStatus(put, JobName, done.group))
     /\ report' = [report EXCEPT ![<<d, by>>].pc = "applied"]
     /\ counted' = counted \cup {<<d, by>>}
     /\ last' = done.group
     /\ UNCHANGED <<trigger, disp, lost, children, breaks, crashes>>

\* No leader, a failed forward, which the client takes for a success, or a
\* failed Apply.
LoseReport(d, by) ==
  /\ report[<<d, by>>].pc = "sent"
  /\ report' = [report EXCEPT ![<<d, by>>].pc = "failed"]
  /\ lost' = lost \cup {d}
  /\ UNCHANGED <<job, execs, trigger, disp, counted, last, children, breaks, crashes>>

Retried(d, by) == ~report[<<d, by>>].exec.success /\ Attempt(d) < plan.retries + 1

\* The handler runs a failed execution again on its node and waits for it.
RetryRun(d, by) ==
  /\ report[<<d, by>>].pc = "applied" /\ Retried(d, by)
  /\ report' = [report EXCEPT ![<<d, by>>].pc = "retrying"]
  /\ job' = Rescheduled(d[1])
  /\ disp' = [disp EXCEPT ![Retry(d, by)].client = "dial",
                          ![Retry(d, by)].base = report[<<d, by>>].exec]
  /\ UNCHANGED <<execs, trigger, counted, last, lost, children, breaks, crashes>>

\* Run fails: the node is gone or the job left the scheduler.
RetryFails(d, by) ==
  /\ report[<<d, by>>].pc = "applied" /\ Retried(d, by)
  /\ report' = [report EXCEPT ![<<d, by>>].pc = "failed"]
  /\ UNCHANGED <<job, execs, trigger, disp, counted, last, lost, children, breaks, crashes>>

RetryReturns(d, by) ==
  /\ report[<<d, by>>].pc = "retrying"
  /\ disp[Retry(d, by)].client \in {"closed", "dead"}
  /\ report' = [report EXCEPT ![<<d, by>>].pc = "answered"]
  /\ UNCHANGED <<job, execs, trigger, disp, counted, last, lost, children, breaks, crashes>>

\* Mutant of RunDependents: only the first success of the job runs them.
RunDependentsOnce(d, by) ==
  /\ report[<<d, by>>].pc = "applied" /\ ~Retried(d, by)
  /\ report' = [report EXCEPT ![<<d, by>>].pc = "answered"]
  /\ children' = IF job.status = "success" /\ job.successCount = 1
                   THEN [children EXCEPT ![d[1]] = @ + 1] ELSE children
  /\ UNCHANGED <<job, execs, trigger, disp, counted, last, lost, breaks, crashes>>

\* Otherwise the dependent jobs run if the job, read afresh, is a success.
RunDependents(d, by) ==
  /\ report[<<d, by>>].pc = "applied" /\ ~Retried(d, by)
  /\ report' = [report EXCEPT ![<<d, by>>].pc = "answered"]
  /\ children' = IF job.status = "success" THEN [children EXCEPT ![d[1]] = @ + 1]
                                           ELSE children
  /\ UNCHANGED <<job, execs, trigger, disp, counted, last, lost, breaks, crashes>>

\* The notification fails: the handler returns before the dependent jobs.
NotifyFails(d, by) ==
  /\ report[<<d, by>>].pc = "applied" /\ ~Retried(d, by)
  /\ report' = [report EXCEPT ![<<d, by>>].pc = "failed"]
  /\ UNCHANGED <<job, execs, trigger, disp, counted, last, lost, children, breaks, crashes>>

-----------------------------------------------------------------------------
(* Faults. *)

Break(d) ==
  /\ breaks < plan.maxBreaks
  /\ disp[d].client = "recv" /\ ~disp[d].broken
  /\ disp' = [disp EXCEPT ![d].broken = TRUE]
  /\ breaks' = breaks + 1
  /\ UNCHANGED <<job, execs, trigger, report, counted, last, lost, children, crashes>>

\* The leader dies with its streams and its handlers; another server leads.
Crash ==
  /\ crashes < plan.maxCrashes
  /\ crashes' = crashes + 1
  /\ disp' = [d \in Dispatches |->
                IF disp[d].client \in {"none", "closed"} THEN disp[d]
                ELSE [disp[d] EXCEPT !.client = "dead", !.broken = TRUE,
                                     !.agent = IF disp[d].client = "dial" THEN "ended" ELSE @]]
  /\ report' = [r \in Dispatches \X By |->
                  IF report[r].pc \in {"sent", "applied", "retrying"}
                    THEN [report[r] EXCEPT !.pc = "failed"] ELSE report[r]]
  /\ lost' = lost \cup {d \in Dispatches :
                \/ \E by \in By : report[<<d, by>>].pc = "sent"
                \/ /\ disp[d].agent = "ended" /\ disp[d].sent = 2
                   /\ disp[d].client \in {"recv", "set"}}
  /\ trigger' = [g \in Groups |-> IF trigger[g] = "runnable" THEN "started" ELSE trigger[g]]
  /\ UNCHANGED <<job, execs, counted, last, children, breaks>>

Client(d) ==
  \/ Open(d) \/ DialFails(d) \/ Receive(d) \/ StoreFirst(d) \/ StoreFirstFails(d)
  \/ ReceiveEOF(d) \/ (\E now \in plan.errors : ReceiveError(d, now))
  \/ ClientReturns(d)

Agent(d) ==
  \/ AgentStart(d)
  \/ \E finished \in plan.ends, success \in BOOLEAN : AgentFinish(d, finished, success)
  \/ SendFinal(d) \/ FallBack(d) \/ AgentReturns(d)

Handler(d, by) ==
  \/ Apply(d, by) \/ LoseReport(d, by)
  \/ RetryRun(d, by) \/ RetryFails(d, by) \/ RetryReturns(d, by)
  \/ RunDependents(d, by) \/ NotifyFails(d, by)

Started == {d \in Dispatches : disp[d].client # "none"}

\* What goroutines do once a group has fired.
Progress ==
  \/ \E g \in Groups, targets \in SUBSET plan.nodes : Run(g, targets)
  \/ \E d \in Started : Client(d) \/ Agent(d)
  \/ \E d \in Started, by \in By : Handler(d, by)

Next ==
  /\ \/ \E g \in Groups : Fire(g)
     \/ Progress
     \/ \E d \in Started : Break(d)
     \/ Crash
  /\ UNCHANGED plan

Spec == Init /\ [][Next]_vars

\* Goroutines run and executors return: some step is taken while one can be.
FairSpec == Spec /\ WF_vars(Progress /\ UNCHANGED plan)

-----------------------------------------------------------------------------
(* Properties. *)

\* An execution is stored as a success only if its executor succeeded: neither
\* a broken stream nor a retry, which starts from a failed execution, makes
\* one up (grpc_client.go:425-437, grpc_agent.go:110-112).
NoFalseSuccess ==
  \A e \in execs : e.success =>
    \E d \in Dispatches : Stamp[d] = e.started /\ disp[d].result.success

\* An execution is counted once, unless its stream broke and both ends report
\* it (grpc_client.go:415-437, grpc_agent.go:117-127).
CountedOnce ==
  \A d \in Dispatches :
    <<d, "client">> \in counted /\ <<d, "agent">> \in counted => disp[d].broken

\* Where no stream broke, two attempts never run at the same time on a node:
\* the handler retries only what has ended (grpc.go:203-223).
AttemptsInTurn ==
  \A c, d \in Started :
    /\ c[1] = d[1] /\ c[2] = d[2] /\ c # d
    /\ disp[c].agent = "running" /\ disp[d].agent = "running"
    => \E b \in Dispatches : b[1] = d[1] /\ b[2] = d[2] /\ disp[b].broken

\* Nothing is under way.
Quiet ==
  /\ \A g \in Groups : trigger[g] # "runnable"
  /\ \A d \in Started : disp[d].client \in {"closed", "dead"} /\ disp[d].agent = "ended"
  /\ \A d \in Started, by \in By : report[<<d, by>>].pc \in {"none", "answered", "failed"}

\* Once all is quiet, and unless a server crashed or a report was lost, the job
\* has the status of the group reported last, as the store holds it then: a
\* first message stored late is followed by another report of its group
\* (store.go:250-254, 480-491).
StatusMatchesStore ==
  Quiet /\ last # 0 /\ lost = {} /\ crashes = 0 => job.status = ComputeStatus(execs, JobName, last)

\* A group that is alone and succeeded on every node has run the dependent
\* jobs, whichever handler read the job last, unless a handler returned an
\* error (grpc.go:196-200, 231-248) or the store evicted an execution.
DependentsRun ==
  \A g \in Groups :
    /\ Quiet /\ last = g
    /\ \A r \in Dispatches \X By : report[r].pc # "failed"
    /\ \A h \in Groups \ {g} : trigger[h] = "none"
    /\ ComputeStatus(execs, JobName, g) = "success"
    => children[g] > 0

\* Once all is quiet, every executor that returned was counted, or a report of
\* it was lost on the way (grpc_agent.go:116-127).
FinishedAreCounted ==
  Quiet => \A d \in Dispatches : disp[d].result # NoExec =>
             d \in lost \/ \E by \in By : <<d, by>> \in counted

\* Every Run returns and every report is answered, through the chain of
\* retries that handlers wait for, breaks and crashes included.
Settles == []<>Quiet

\* concurrency.md:13: "If the job is already running don't send the execution".
ForbidsOverlap ==
  Forbid => \A c, d \in Dispatches :
    disp[c].agent = "running" /\ disp[d].agent = "running" => c[1] = d[1]

=============================================================================
