---------------------------- MODULE AgentProcess ----------------------------
(***************************************************************************)
(* One agent process with its plugin processes.  AgentRun calls            *)
(* (dkron/grpc_agent.go) run an executor through a broker                  *)
(* (plugin/executor.go), which calls back with the output as it comes;     *)
(* ExecutionDone calls (dkron/grpc.go) pass the execution through the      *)
(* processors of the job (plugin/execution_processor.go) and notify.       *)
(* Signals end the process (cmd/agent.go): it leaves the cluster, waits    *)
(* until no execution runs, and kills its plugins.                         *)
(*                                                                         *)
(* A plugin process serves every call and is never started again.  A call  *)
(* that finds its plugin gone gets an error; for a processor, that is a    *)
(* panic of the agent.  The store and the streams to other processes are   *)
(* the subject of ExecutionFlow.                                           *)
(***************************************************************************)
EXTENDS Executors, FiniteSets

CONSTANTS
  Calls,        \* calls that reach the agent
  Loads         \* what the calls ask and which plugins are on disk, with bounds
                \* on the signals (the channel holds 4), on the plugins that die
                \* by themselves and on the pieces of output of a command

ExecutorPlugins == {"shell", "http", "rabbitmq"}
ProcessorPlugins == {"files", "log", "syslog", "fluent"}
Plugins == ExecutorPlugins \cup ProcessorPlugins

Pipes == {"stdout", "stderr"}

\* What a call asks: an execution of a group by an executor, or the report of one
\* with, per processor of the job, whether it forwards.
Asked ==
  [type : {"none"}]
    \cup [type : {"AgentRun"}, group : Nat,
          config : Shell \cup HTTP \cup RabbitMQ \cup [executor : {""}]]
    \cup [type : {"ExecutionDone"}, notification : Notification,
          forward : UNION {[ps -> BOOLEAN] : ps \in SUBSET ProcessorPlugins}]

ASSUME AgentAssumption ==
  Loads \subseteq [asked : [Calls -> Asked], found : SUBSET Plugins,
                  signals : Nat, deaths : Nat, updates : Nat]

VARIABLES
  agent,     \* new, running, draining, cleaning, leaving, exit0, exit1, panicked
  signalCh,  \* signals not handled yet
  plugin,    \* per plugin: absent, alive, dead
  deaths,    \* plugins that died by themselves
  load,      \* one of Loads
  call,      \* per call: where it is
  running,   \* the keys of runningExecutions
  shared     \* per processor: the configuration in its struct

agentVars == <<agent, signalCh, plugin, deaths, load, call, running, shared>>

Fresh == [pc |-> "none", broker |-> "none", result |-> "error",
          pipe |-> [w \in Pipes |-> "idle"], updates |-> 0,
          wrote |-> {}, mixed |-> FALSE,
          output |-> "", sent |-> "", trailing |-> FALSE,
          uncounted |-> FALSE, cut |-> FALSE,
          todo |-> {}, in |-> "", sinks |-> {}, overlapped |-> FALSE]

AgentInit ==
  /\ agent = "new"
  /\ signalCh = <<>>
  /\ plugin = [p \in Plugins |-> "absent"]
  /\ deaths = 0
  /\ load \in Loads
  /\ call = [c \in Calls |-> Fresh]
  /\ running = {}
  /\ shared = [p \in ProcessorPlugins |-> TRUE]

asked == load.asked

Alive == agent \notin {"new", "exit0", "exit1", "panicked"}

\* A step of one call that changes nothing else.
Becomes(c, state) ==
  /\ Alive
  /\ call' = [call EXCEPT ![c] = state]
  /\ UNCHANGED <<agent, signalCh, plugin, deaths, load, running, shared>>

Panic ==
  /\ agent' = "panicked"
  /\ UNCHANGED <<signalCh, plugin, deaths, load, call, running, shared>>

\* DiscoverPlugins: every plugin found is started; one that does not start is
\* fatal.  A plugin found in both places is served by the file found last.
Discover ==
  /\ agent = "new"
  /\ \/ /\ agent' = "running"
        /\ plugin' = [p \in Plugins |-> IF p \in load.found THEN "alive" ELSE "absent"]
     \/ agent' = "exit1" /\ UNCHANGED plugin
  /\ UNCHANGED <<signalCh, deaths, load, call, running, shared>>

-----------------------------------------------------------------------------
(* AgentRun: the agent's side. *)

Executor(c) == asked[c].config.executor

\* The first message; a job without executor is an error.
AcceptRun(c) ==
  /\ asked[c].type = "AgentRun" /\ call[c].pc = "none"
  /\ Becomes(c, [call[c] EXCEPT !.pc = IF Executor(c) = "" THEN "ended" ELSE "accepted"])

\* An executor that is not present fails the execution.
NotPresent(c) ==
  /\ call[c].pc = "accepted" /\ plugin[Executor(c)] = "absent"
  /\ Becomes(c, [call[c] EXCEPT !.pc = "finishing"])

\* Mutant of Execute: the execution counts as running once it calls back.
ExecuteUncounted(c) ==
  /\ Alive
  /\ call[c].pc = "accepted" /\ plugin[Executor(c)] # "absent"
  /\ call' = [call EXCEPT ![c].pc = "calling", ![c].broker = "pending",
                          ![c].uncounted = agent \in {"cleaning", "leaving"}]
  /\ UNCHANGED <<agent, signalCh, plugin, deaths, load, running, shared>>

\* runningExecutions.Store, and ExecutorClient.Execute up to the call.
Execute(c) ==
  /\ Alive
  /\ call[c].pc = "accepted" /\ plugin[Executor(c)] # "absent"
  /\ running' = running \cup {asked[c].group}
  /\ call' = [call EXCEPT ![c].pc = "calling", ![c].broker = "pending",
                          ![c].uncounted = agent \in {"cleaning", "leaving"}]
  /\ UNCHANGED <<agent, signalCh, plugin, deaths, load, shared>>

\* The goroutine of AcceptAndServe tells the plugin where it listens; that
\* fails if the plugin is gone, and then serverFunc is never called.
BrokerAccepts(c) ==
  /\ call[c].broker = "pending"
  /\ Becomes(c, [call[c] EXCEPT !.broker = IF plugin[Executor(c)] = "alive" THEN "announced"
                                                                           ELSE "failed"])

\* serverFunc: s is set.
BrokerServes(c) ==
  /\ call[c].broker = "announced"
  /\ Becomes(c, [call[c] EXCEPT !.broker = "serving"])

\* s.Stop(), and s must not be nil.
StopServer(c) ==
  /\ Alive
  /\ call[c].pc = "returned"
  /\ IF call[c].broker = "serving"
       THEN Becomes(c, [call[c] EXCEPT !.pc = "finishing", !.broker = "closed"])
       ELSE Panic

\* The execution as it ended; it no longer counts as running.
FinishRun(c) ==
  /\ Alive
  /\ call[c].pc = "finishing"
  /\ running' = running \ {asked[c].group}
  /\ call' = [call EXCEPT ![c].pc = "final", ![c].output = IF call[c].mixed THEN "mixed" ELSE "all"]
  /\ UNCHANGED <<agent, signalCh, plugin, deaths, load, shared>>

SendLast(c) ==
  /\ call[c].pc = "final"
  /\ Becomes(c, [call[c] EXCEPT !.pc = "sent", !.sent = call[c].output])

ReturnRun(c) ==
  /\ call[c].pc = "sent"
  /\ Becomes(c, [call[c] EXCEPT !.pc = "ended"])

\* statusAgentHelper.Update, on a goroutine of the broker's server: a partial
\* message, as long as the stream is open.
Update(c, w) ==
  /\ call[c].pipe[w] = "calling" /\ call[c].broker \in {"serving", "closed"}
  /\ Becomes(c, [call[c] EXCEPT !.pipe[w] = "appending", !.output = "piece",
                                !.trailing = @ \/ call[c].pc = "sent"])

-----------------------------------------------------------------------------
(* AgentRun: the plugin's side. *)

InExecutor == {"dialing", "starting", "command", "exited", "blocked"}

\* The call reaches the plugin.
CallExecutor(c) ==
  /\ call[c].pc = "calling" /\ plugin[Executor(c)] = "alive"
  /\ Becomes(c, [call[c] EXCEPT !.pc = "dialing"])

\* ExecutorServer.Execute dials the broker once it knows where it listens; it
\* does not wait for the connection.
DialBroker(c) ==
  /\ call[c].pc = "dialing" /\ plugin[Executor(c)] = "alive"
  /\ call[c].broker \in {"announced", "serving"}
  /\ Becomes(c, [call[c] EXCEPT !.pc = "starting"])

\* The broker is not announced in time.
DialTimesOut(c) ==
  /\ call[c].pc = "dialing" /\ plugin[Executor(c)] = "alive"
  /\ call[c].broker = "pending"
  /\ Becomes(c, [call[c] EXCEPT !.pc = "returned", !.result = "timeout"])

\* ExecuteImpl, up to the end or to a command that runs.
StartImpl(c) ==
  LET result == ExecuteImpl(asked[c].config)
  IN /\ Alive
     /\ call[c].pc = "starting" /\ plugin[Executor(c)] = "alive"
     /\ IF result = "panic"
          THEN /\ plugin' = [plugin EXCEPT ![Executor(c)] = "dead"]
               /\ UNCHANGED <<agent, signalCh, deaths, load, call, running, shared>>
          ELSE Becomes(c, [call[c] EXCEPT
                 !.pc = CASE result = "started" -> "command"
                          [] result = "blocked" -> "blocked"
                          [] OTHER              -> "returned",
                 !.result = result])

\* A reportingWriter of the shell executor calls back; the two pipes of the
\* command are copied by two goroutines.
WriteOutput(c, w) ==
  /\ call[c].pc = "command" /\ plugin[Executor(c)] = "alive"
  /\ call[c].pipe[w] = "idle" /\ call[c].updates < load.updates
  /\ Becomes(c, [call[c] EXCEPT !.pipe[w] = "calling", !.updates = @ + 1,
                                !.wrote = @ \cup {w}])

\* After the callback the piece goes to the buffer of both pipes, which has no
\* lock.
AppendOutput(c, w) ==
  /\ call[c].pipe[w] = "appending" /\ plugin[Executor(c)] = "alive"
  /\ Becomes(c, [call[c] EXCEPT !.pipe[w] = "idle",
                    !.mixed = @ \/ \E v \in Pipes \ {w} : call[c].pipe[v] = "appending"])

CommandExits(c) ==
  /\ call[c].pc = "command" /\ plugin[Executor(c)] = "alive"
  /\ Becomes(c, [call[c] EXCEPT !.pc = "exited"])

\* Mutant of WaitReturns: the output is not waited for.
WaitIgnoresPipes(c) ==
  /\ call[c].pc = "exited" /\ plugin[Executor(c)] = "alive"
  /\ Becomes(c, [call[c] EXCEPT !.pc = "returned",
                                !.result = IF asked[c].config.exit = 0 THEN "ok" ELSE "error"])

\* cmd.Wait returns when both pipes are copied.
WaitReturns(c) ==
  /\ call[c].pc = "exited" /\ plugin[Executor(c)] = "alive"
  /\ \A w \in Pipes : call[c].pipe[w] = "idle"
  /\ Becomes(c, [call[c] EXCEPT !.pc = "returned",
                                !.result = IF asked[c].config.exit = 0 THEN "ok" ELSE "error"])

\* The call fails because the plugin is gone.
ExecutorGone(c) ==
  /\ call[c].pc \in InExecutor \cup {"calling"} /\ plugin[Executor(c)] = "dead"
  /\ Becomes(c, [call[c] EXCEPT !.pc = "returned", !.result = "error"])

-----------------------------------------------------------------------------
(* ExecutionDone on the leader: the processors and the notification. *)

AcceptReport(c) ==
  /\ asked[c].type = "ExecutionDone" /\ call[c].pc = "none"
  /\ Becomes(c, [call[c] EXCEPT !.pc = "process", !.output = "original",
                                !.todo = DOMAIN asked[c].forward])

\* Agent.Stop shuts down Raft and the store.
ReportFails(c) ==
  /\ agent \in {"draining", "cleaning", "leaving"}
  /\ asked[c].type = "ExecutionDone" /\ call[c].pc \in {"none", "apply"}
  /\ Becomes(c, [call[c] EXCEPT !.pc = "ended", !.result = "error"])

\* Mutant of SkipProcessor: the plugin is called without looking whether it is
\* there.
CallAbsent(c, p) ==
  /\ Alive
  /\ call[c].pc = "process" /\ p \in call[c].todo /\ plugin[p] = "absent"
  /\ Panic

\* The processors of a job are a map: they are called in any order.  One that
\* is not found is skipped.
SkipProcessor(c, p) ==
  /\ call[c].pc = "process" /\ p \in call[c].todo /\ plugin[p] = "absent"
  /\ Becomes(c, [call[c] EXCEPT !.todo = @ \ {p}])

CallProcessor(c, p) ==
  /\ call[c].pc = "process" /\ p \in call[c].todo /\ plugin[p] = "alive"
  /\ Becomes(c, [call[c] EXCEPT !.pc = "parse", !.in = p])

Others(c, p) == {d \in Calls \ {c} : call[d].pc = "write" /\ call[d].in = p}

\* parseConfig writes the configuration into the plugin's only struct.
ParseConfig(c) ==
  LET p == call[c].in
  IN /\ Alive
     /\ call[c].pc = "parse" /\ plugin[p] = "alive"
     /\ shared' = [shared EXCEPT ![p] = asked[c].forward[p]]
     /\ call' = [d \in Calls |->
                   IF d = c THEN [call[c] EXCEPT !.pc = "write"]
                   ELSE IF d \in Others(c, p) THEN [call[d] EXCEPT !.overlapped = TRUE]
                   ELSE call[d]]
     /\ UNCHANGED <<agent, signalCh, plugin, deaths, load, running>>

\* The output is handed to the processor's sink, which may fail: that is only
\* logged.  Unless the output is forwarded, a note of where it went takes its
\* place.
Processed(c, forward) ==
  LET p == call[c].in
  IN [call[c] EXCEPT !.pc = "process", !.in = "", !.todo = @ \ {p},
                     !.sinks = @ \cup {<<p, call[c].output>>},
                     !.output = IF forward THEN @ ELSE p]

\* Mutant of WriteSink: the test of forward is the wrong way round.
WriteInverted(c) ==
  /\ call[c].pc = "write" /\ plugin[call[c].in] = "alive"
  /\ Becomes(c, Processed(c, ~shared[call[c].in]))

WriteSink(c) ==
  /\ call[c].pc = "write" /\ plugin[call[c].in] = "alive"
  /\ Becomes(c, Processed(c, shared[call[c].in]))

\* Without a logger, syslog returns the execution as it is.
NoSyslog(c) ==
  /\ call[c].pc = "parse" /\ call[c].in = "syslog" /\ plugin["syslog"] = "alive"
  /\ Becomes(c, [call[c] EXCEPT !.pc = "process", !.in = "", !.todo = @ \ {"syslog"}])

\* ProcessorClient.Process panics when the plugin is gone.
ProcessorGone(c) ==
  /\ Alive
  /\ \/ call[c].pc \in {"parse", "write"} /\ plugin[call[c].in] = "dead"
     \/ call[c].pc = "process" /\ \E p \in call[c].todo : plugin[p] = "dead"
  /\ Panic

\* The execution is applied to the log; retries and dependent jobs aside, the
\* owner is notified and the call returns.
ApplyReport(c) ==
  /\ call[c].pc = "process" /\ call[c].todo = {}
  /\ Becomes(c, [call[c] EXCEPT !.pc = "apply", !.sent = call[c].output])

Notify(c) ==
  LET result == Send(asked[c].notification)
  IN /\ Alive
     /\ call[c].pc = "apply"
     /\ IF result = "panic" THEN Panic
        ELSE Becomes(c, [call[c] EXCEPT !.pc = IF result = "blocked" THEN "waiting" ELSE "ended",
                                        !.result = result])

-----------------------------------------------------------------------------
(* The process and its plugins. *)

PluginDies(p) ==
  /\ Alive
  /\ plugin[p] = "alive" /\ deaths < load.deaths
  /\ plugin' = [plugin EXCEPT ![p] = "dead"]
  /\ deaths' = deaths + 1
  /\ UNCHANGED <<agent, signalCh, load, call, running, shared>>

Signal(sig) ==
  /\ Alive /\ Len(signalCh) < load.signals
  /\ signalCh' = Append(signalCh, sig)
  /\ UNCHANGED <<agent, plugin, deaths, load, call, running, shared>>

\* handleSignals: SIGHUP reloads the configuration; SIGTERM and SIGINT start
\* Agent.Stop on a goroutine of its own.
HandleSignal ==
  /\ agent = "running" /\ signalCh # <<>>
  /\ signalCh' = Tail(signalCh)
  /\ IF Head(signalCh) = "hup" THEN UNCHANGED agent
     ELSE agent' = "draining"
  /\ UNCHANGED <<plugin, deaths, load, call, running, shared>>

RetryJoinFails ==
  /\ agent = "running"
  /\ agent' = "exit1"
  /\ UNCHANGED <<signalCh, plugin, deaths, load, call, running, shared>>

\* Mutant of NoJobsLeft: the count is compared with 0.
LessThanNone ==
  /\ agent = "draining" /\ Cardinality(running) < 0
  /\ agent' = "cleaning"
  /\ UNCHANGED <<signalCh, plugin, deaths, load, call, running, shared>>

\* GetRunningJobs() < 1
NoJobsLeft ==
  /\ agent = "draining" /\ running = {}
  /\ agent' = "cleaning"
  /\ UNCHANGED <<signalCh, plugin, deaths, load, call, running, shared>>

\* plugin.CleanupClients kills every plugin process, and what runs in it.
CleanupClients ==
  /\ agent = "cleaning"
  /\ agent' = "leaving"
  /\ plugin' = [p \in Plugins |-> IF plugin[p] = "alive" THEN "dead" ELSE plugin[p]]
  /\ call' = [c \in Calls |->
                IF asked[c].type = "AgentRun" /\ call[c].pc \in InExecutor \cup {"calling"}
                  THEN [call[c] EXCEPT !.cut = plugin[Executor(c)] = "alive"] ELSE call[c]]
  /\ UNCHANGED <<signalCh, deaths, load, running, shared>>

\* gracefulCh is closed by now; another signal may win the select.  Nothing
\* waits for Agent.Stop.
Exit ==
  /\ agent = "leaving"
  /\ \/ agent' = "exit0"
     \/ signalCh # <<>> /\ agent' = "exit1"
  /\ UNCHANGED <<signalCh, plugin, deaths, load, call, running, shared>>

-----------------------------------------------------------------------------

Run(c) ==
  \/ NotPresent(c) \/ Execute(c) \/ BrokerAccepts(c) \/ BrokerServes(c)
  \/ CallExecutor(c) \/ DialBroker(c) \/ StartImpl(c) \/ CommandExits(c) \/ WaitReturns(c)
  \/ ExecutorGone(c) \/ StopServer(c) \/ FinishRun(c) \/ SendLast(c) \/ ReturnRun(c)
  \/ \E w \in Pipes : Update(c, w) \/ AppendOutput(c, w)

Report(c) ==
  \/ ParseConfig(c) \/ WriteSink(c) \/ ProcessorGone(c) \/ ApplyReport(c) \/ Notify(c)
  \/ \E p \in ProcessorPlugins : SkipProcessor(c, p) \/ CallProcessor(c, p)

Main == Discover \/ HandleSignal \/ NoJobsLeft \/ CleanupClients \/ Exit

AgentNext ==
  \/ Main \/ RetryJoinFails
  \/ \E sig \in {"term", "hup"} : Signal(sig)
  \/ \E p \in Plugins : PluginDies(p)
  \/ \E c \in Calls :
       \/ AcceptRun(c) \/ Run(c) \/ DialTimesOut(c) \/ \E w \in Pipes : WriteOutput(c, w)
       \/ AcceptReport(c) \/ Report(c) \/ ReportFails(c) \/ NoSyslog(c)

\* The goroutines of the agent and of its plugins run, and commands end.
AgentFairness ==
  /\ WF_agentVars(Main)
  /\ \A c \in Calls : WF_agentVars(Run(c)) /\ WF_agentVars(Report(c))

AgentSpec == AgentInit /\ [][AgentNext]_agentVars /\ AgentFairness

-----------------------------------------------------------------------------
(* Properties. *)

Ended == agent \in {"exit0", "exit1", "panicked"}

\* An execution is reported as a success only if what the job asks for was
\* done, whether its plugin dies, is killed or answers too late
\* (grpc_agent.go:80-111, executor.go:47-86).
SuccessIsReal ==
  \A c \in Calls :
    /\ asked[c].type = "AgentRun" /\ call[c].pc \in {"final", "sent", "ended"}
    /\ call[c].result = "ok"
    => Succeeds(asked[c].config)

\* Unless the plugin died, the final message is the last one, and it carries
\* the whole output when the command writes to one pipe only: no callback of
\* the executor is under way when it returns (shell.go:35-38, 73-75, 109,
\* grpc_agent.go:24-33, 110-119).
FinalIsLast ==
  \A c \in Calls :
    /\ asked[c].type = "AgentRun" /\ call[c].pc \in {"sent", "ended"}
    /\ Executor(c) # "" => plugin[Executor(c)] # "dead"
    => /\ ~call[c].trailing
       /\ call[c].sent = "all" \/ Executor(c) = "" \/ call[c].wrote = Pipes

\* A graceful shutdown kills no execution, except one that was not running yet
\* when the count was 0, or one that shares its group with another: both have
\* the same key (cmd/agent.go:124-133, grpc_agent.go:82, 114).
DrainsExecutions ==
  \A c \in Calls :
    call[c].cut => \/ call[c].uncounted
                   \/ \E d \in Calls \ {c} :
                        asked[d].type = "AgentRun" /\ asked[d].group = asked[c].group

\* The agent panics only when a plugin process is gone, when an executor
\* returns without having called back (the server to stop may not be there
\* yet), or when a notification cannot be built (executor.go:60-65,
\* execution_processor.go:50-60, notifier.go:72, 144-145).
PanicsForACause ==
  agent = "panicked" =>
    \/ \E p \in Plugins : plugin[p] = "dead"
    \/ \E c \in Calls : call[c].pc = "returned" /\ call[c].updates = 0
    \/ \E c \in Calls : /\ asked[c].type = "ExecutionDone"
                        /\ Send(asked[c].notification) = "panic"

\* An execution whose processors all forward is stored with its original
\* output, and each of them got that output, in whichever order they ran,
\* unless two calls were in one processor at the same time
\* (grpc.go:175-186, files_output.go:24-51).
ForwardsOutput ==
  \A c \in Calls :
    /\ asked[c].type = "ExecutionDone" /\ call[c].pc = "apply"
    /\ ~call[c].overlapped /\ \A p \in DOMAIN asked[c].forward : asked[c].forward[p]
    => /\ call[c].sent = "original"
       /\ \A sink \in call[c].sinks : sink[2] = "original"

Stuck(c) == call[c].pc \in {"blocked", "waiting"}

\* Every call returns and every SIGTERM ends the process, unless an executor
\* or a notification is stuck: a payload that does not fit the pipe of a
\* command that is not started yet, or a request without timeout
\* (cmd/agent.go:112-145, shell.go:95, http.go:102, notifier.go:150).
Returns ==
  []<>(\/ Ended
       \/ /\ \A c \in Calls : call[c].pc \in {"none", "ended"} \/ Stuck(c)
          /\ agent \in {"draining", "cleaning", "leaving"} => \E c \in Calls : Stuck(c))

=============================================================================
