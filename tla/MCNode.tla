------------------------------- MODULE MCNode -------------------------------
(***************************************************************************)
(* Small instances, for TLC, of three parts of a node that share no state: *)
(* the choice of the nodes of a job (TargetNodes), the process that runs   *)
(* it (AgentProcess) and the files of the dashboard (CompressedFile).  A   *)
(* behaviour is one of one part; the others stay as they are.              *)
(***************************************************************************)
EXTENDS TargetNodes, AgentProcess, CompressedFile

TwoCalls == 1..2
SmallBuffers == 1..2
SomeCounts == -1..2

-----------------------------------------------------------------------------
(* What an agent is asked. *)

Command == [executor |-> "shell", shell |-> TRUE, command |-> "words", su |-> "",
            payload |-> "small", starts |-> TRUE, exit |-> 0]
Request == [executor |-> "http", url |-> "valid", method |-> "GET", headers |-> "",
            timeout |-> 30, reply |-> "complete", code |-> 200, expectCode |-> <<200>>,
            expectBody |-> ""]
Message == [executor |-> "rabbitmq", url |-> "set", queue |-> "set", body |-> "text", fails |-> ""]
Silent  == [mail |-> FALSE, webhook |-> FALSE, template |-> "", url |-> "valid",
            headers |-> "", reply |-> "ok"]

\* Every configuration of the executors; of HTTP, those that differ from
\* Request in what is sent, or in what comes back.
Configs ==
  LET sent(c) == [c EXCEPT !.code = 200, !.expectCode = <<200>>, !.expectBody = ""]
      back(c) == [c EXCEPT !.url = "valid", !.method = "GET", !.headers = "",
                           !.timeout = 30, !.reply = "complete"]
  IN Shell \cup RabbitMQ \cup {[executor |-> ""]}
       \cup {c \in HTTP : c = sent(c) \/ c = back(c)}

Runs(config, group) == [type |-> "AgentRun", config |-> config, group |-> group]
Reports(forward, notification) ==
  [type |-> "ExecutionDone", forward |-> forward, notification |-> notification]
Nothing == [type |-> "none"]

Load(first, second, found, s, d, u) ==
  [asked |-> <<first, second>>, found |-> found, signals |-> s, deaths |-> d, updates |-> u]

Idle == Load(Nothing, Nothing, {}, 0, 0, 0)

\* One run of every configuration.
AnyRun == {Load(Runs(c, 1), Nothing, ExecutorPlugins, 0, 0, 0) : c \in Configs}

\* One run with signals and a plugin that dies.
FaultyRun ==
  {Load(Runs(c, 1), Nothing, {c.executor}, 2, 1, 2) :
     c \in {Command, [Command EXCEPT !.exit = 1],
            [Command EXCEPT !.shell = FALSE, !.command = "empty"],
            [Command EXCEPT !.payload = "large"],
            Request, [Request EXCEPT !.headers = "no colon"], Message}}
  \cup {Load(Runs(Request, 1), Nothing, {"shell"}, 1, 0, 0)}

\* Two runs, of two groups or of one, and a signal.
TwoRuns == {Load(Runs(Command, 1), Runs(Request, g), {"shell", "http"}, 1, 0, 0) : g \in {1, 2}}

Forward(files, syslog) == [p \in {"files", "syslog"} |-> IF p = "files" THEN files ELSE syslog]

\* Two reports at the same time, and a processor that dies.
TwoReports ==
  {Load(Reports(Forward(f, TRUE), Silent), Reports(Forward(g, FALSE), Silent),
        {"files", "syslog"}, 0, 1, 0) : f, g \in BOOLEAN}

\* One report with a processor that is not there, and every notification.
OneReport ==
  {Load(Reports([p \in {"fluent", "log"} |-> TRUE], n), Nothing, {"log"}, 0, 0, 0) :
     n \in Notification}
  \cup {Load(Reports(Forward(TRUE, TRUE), Silent), Nothing, {"files"}, 1, 0, 0)}

AllLoads == {Idle} \cup AnyRun \cup FaultyRun \cup TwoRuns \cup TwoReports \cup OneReport

-----------------------------------------------------------------------------

VARIABLE part    \* targets, agent, files

allVars == <<part, vars, agentVars, fileVars>>

MCInit ==
  /\ part \in {"targets", "agent", "files"}
  /\ IF part = "targets" THEN TRUE
     ELSE /\ status = [n \in Nodes |-> "none"] /\ has = [n \in Nodes |-> {}]
          /\ count = [k \in Keys |-> All]
  /\ IF part = "agent" THEN TRUE ELSE load = Idle
  /\ Init /\ AgentInit /\ FileInit

MCNext ==
  /\ UNCHANGED part
  /\ \/ part = "targets" /\ Next /\ UNCHANGED <<agentVars, fileVars>>
     \/ part = "agent" /\ AgentNext /\ UNCHANGED <<vars, fileVars>>
     \/ part = "files" /\ FileNext /\ UNCHANGED <<vars, agentVars>>

\* Fairness is the agent's.  In a behaviour of another part the agent is never
\* started: what is checked there are safety properties.
MCSpec == MCInit /\ [][MCNext]_allVars /\ AgentFairness

=============================================================================
