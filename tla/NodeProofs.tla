----------------------------- MODULE NodeProofs -----------------------------
(***************************************************************************)
(* Machine-checked proofs about the three parts of a node that MCNode      *)
(* checks: the files of the dashboard (CompressedFile), for every size of  *)
(* the file and of the directory and for every buffer; the process that    *)
(* runs a job (AgentProcess), for any calls and loads; and the choice of   *)
(* the nodes of a job (TargetNodes), for any nodes, tags and counts and    *)
(* any changes of the membership.                                          *)
(***************************************************************************)
EXTENDS CompressedFile, AgentProcess, TargetNodes, TLAPS

\* Zenon checks every step that does not name SMT.
USE Zenon

-----------------------------------------------------------------------------
(* A compressed file implements a plain one. *)

\* The gzip reader is where f thinks it is, and every position is in the file:
\* this is what makes the two branches of Read arrive at seekPos.
FileInv ==
  /\ grPos \in 0..Size /\ seekPos \in 0..Size /\ gr = grPos
  /\ dirPos \in 0..Entries

\* A file is opened with all positions at its start.
LEMMA FileInvInit == FileInit => FileInv
  BY SMT, FileAssumption DEF FileInit, FileInv

\* A read starts at seekPos and gets bytes that are there.
LEMMA ReadAtSeekPos ==
  ASSUME FileInv, NEW len \in Lengths, FileRead(len)
  PROVE  \E n \in 0..(Size - seekPos) :
           /\ n = 0 => seekPos = Size
           /\ gr' = seekPos + n /\ grPos' = seekPos + n /\ seekPos' = seekPos + n
           /\ read' = <<seekPos, n>>
           /\ UNCHANGED <<dirPos, entries>>
  BY SMT, FileAssumption DEF FileInv, FileRead, Pieces

\* No read, seek or listing moves a position out of the file, or the reader
\* away from where f thinks it is.
LEMMA FileInvNext == FileInv /\ [FileNext]_fileVars => FileInv'
<1> SUFFICES ASSUME FileInv, [FileNext]_fileVars PROVE FileInv'
  OBVIOUS
<1>1. ASSUME NEW len \in Lengths, FileRead(len) PROVE FileInv'
  BY SMT, <1>1, ReadAtSeekPos, FileAssumption DEF FileInv
<1>2. ASSUME NEW base \in {0, seekPos, Size}, NEW offset \in -Size..Size, FileSeek(base, offset)
      PROVE  FileInv'
  BY <1>2, FileAssumption DEF FileInv, FileSeek
<1>3. ASSUME NEW want \in Counts, Readdir(want) PROVE FileInv'
  BY SMT, <1>3, FileAssumption DEF FileInv, Readdir
<1>4. ASSUME DirSeek PROVE FileInv'
  BY SMT, <1>4, FileAssumption DEF FileInv, DirSeek
<1>5. ASSUME UNCHANGED fileVars PROVE FileInv'
  BY <1>5 DEF FileInv, fileVars
<1> QED
  BY <1>1, <1>2, <1>3, <1>4, <1>5 DEF FileNext

\* Reads, seeks and listings of the compressed file are those of a plain one.
LEMMA FileStep ==
  ASSUME FileInv, [FileNext]_fileVars
  PROVE  [Plain!Read \/ Plain!Seek \/ Plain!List \/ Plain!Rewind]_
           <<seekPos, read, (dirPos + 1)..Entries, entries>>
<1>1. ASSUME NEW len \in Lengths, FileRead(len) PROVE Plain!Read
  BY <1>1, ReadAtSeekPos DEF Plain!Read
<1>2. ASSUME NEW base \in {0, seekPos, Size}, NEW offset \in -Size..Size, FileSeek(base, offset)
      PROVE  Plain!Seek
  BY <1>2 DEF FileSeek, Plain!Seek
<1>3. ASSUME NEW want \in Counts, Readdir(want) PROVE Plain!List
  <2> DEFINE n    == IF want <= 0 \/ want > Entries - dirPos THEN Entries - dirPos ELSE want
             next == {e \in (dirPos + 1)..Entries : e <= dirPos + n}
  <2>1. n \in 0..(Entries - dirPos) /\ dirPos + n \in 0..Entries
    BY SMT, FileAssumption DEF FileInv
  <2>2. n = 0 => dirPos = Entries
    BY SMT, FileAssumption DEF FileInv
  <2>3. /\ dirPos' = dirPos + n /\ entries' = (dirPos + 1)..(dirPos + n)
        /\ UNCHANGED <<seekPos, read>>
    BY <1>3 DEF Readdir
  <2> HIDE DEF n
  <2>4. next = (dirPos + 1)..(dirPos + n)
    BY SMT, <2>1, FileAssumption DEF FileInv
  <2>5. ((dirPos + 1)..Entries) \ next = (dirPos + n + 1)..Entries
    BY SMT, <2>1, FileAssumption DEF FileInv
  <2>6. next = {} => (dirPos + 1)..Entries = {}
    <3>1. dirPos \in Nat /\ Entries \in Nat
      BY SMT, FileAssumption DEF FileInv
    <3>2. CASE dirPos = Entries
      BY SMT, <3>1, <3>2
    <3>3. CASE dirPos # Entries
      <4>1. dirPos + 1 \in next
        BY SMT, <2>1, <2>2, <3>3, FileAssumption DEF FileInv
      <4> QED
        BY <4>1
    <3> QED
      BY <3>2, <3>3
  <2>7. ((dirPos + 1)..Entries)' = (dirPos + n + 1)..Entries
    BY <2>3
  <2> QED
    BY <2>1, <2>3, <2>4, <2>5, <2>6, <2>7 DEF Plain!List
<1>4. ASSUME DirSeek PROVE Plain!Rewind
  BY SMT, <1>4 DEF DirSeek, Plain!Rewind
<1>5. ASSUME UNCHANGED fileVars
      PROVE  UNCHANGED <<seekPos, read, (dirPos + 1)..Entries, entries>>
  BY <1>5 DEF fileVars
<1> QED
  BY <1>1, <1>2, <1>3, <1>4, <1>5 DEF FileNext

\* A compressed file reads like a plain one: after any sequence of reads and
\* seeks the next bytes are those at the position, and a directory lists every
\* entry once (templates_vfsdata.go:143-177, 208-226).
THEOREM CompressedFileImplements == FileSpec => ReadsLikeAFile
<1>1. FileInit => Plain!Init
  BY SMT, FileAssumption DEF FileInit, Plain!Init
<1> QED
  BY <1>1, FileInvInit, FileInvNext, FileStep, PTL DEF FileSpec, ReadsLikeAFile, Plain!Spec

-----------------------------------------------------------------------------
(* The process that runs a job.  Four invariants carry its properties, each *)
(* on top of the first: what is counted (DrainInv), which servers are there *)
(* (PanicInv), whose configuration a processor holds (ForwardInv), and      *)
(* which output is under way (OutputInv).                                   *)

\* What is known of a call, field by field.
Fields == DOMAIN Fresh

Fielded(t) == t = [f \in Fields |-> t[f]]

CallsOK ==
  /\ load \in Loads
  /\ call = [c \in Calls |-> call[c]]
  /\ \A c \in Calls : Fielded(call[c])

-----------------------------------------------------------------------------
(* What is asked. *)

\* A call is a run with a configuration or a report with processors and a
\* notification.
LEMMA AskedType ==
  ASSUME CallsOK, NEW c \in Calls
  PROVE  /\ asked[c].type = "AgentRun" =>
              asked[c].config \in Shell \cup HTTP \cup RabbitMQ \cup [executor : {""}]
         /\ asked[c].type = "ExecutionDone" =>
              /\ DOMAIN asked[c].forward \subseteq ProcessorPlugins
              /\ asked[c].notification \in Notification
<1>1. asked[c] \in Asked
  BY AgentAssumption DEF CallsOK, asked
<1> QED
  BY <1>1 DEF Asked

\* A shell command is started only if it can be, and never a success by itself.
LEMMA ShellImpl ==
  ASSUME NEW c \in Shell
  PROVE  /\ ExecuteImpl(c) \in {"error", "panic", "blocked", "started"}
         /\ ExecuteImpl(c) = "started" => c.starts
<1>1. c.executor = "shell" /\ c.shell \in BOOLEAN /\ c.starts \in BOOLEAN
  BY DEF Shell
<1>2. ExecuteImpl(c) = ShellResult(c)
  BY <1>1 DEF ExecuteImpl
<1> QED
  BY <1>1, <1>2 DEF ShellResult

\* A request succeeds only with a reply that is expected.
LEMMA HTTPImpl ==
  ASSUME NEW c \in HTTP
  PROVE  /\ ExecuteImpl(c) \in {"ok", "error", "panic", "blocked"}
         /\ ExecuteImpl(c) = "ok" => Succeeds(c)
<1>1. /\ c.executor = "http" /\ c.reply \in {"refused", "never", "cut", "complete"}
      /\ c.code \in {200, 404} /\ c.expectCode \in {<<>>, <<200>>, <<404, 200>>}
  BY ZenonT(60) DEF HTTP, Codes
<1>2. ExecuteImpl(c) = HTTPResult(c)
  BY <1>1 DEF ExecuteImpl
<1>3. HTTPResult(c) \in {"ok", "error", "panic", "blocked"}
  BY SMT, <1>1 DEF HTTPResult
<1>4. ASSUME HTTPResult(c) = "ok"
      PROVE  /\ c.reply = "complete" /\ c.expectBody \in {"", "found"}
             /\ c.expectCode = <<>> \/ CodeMatches(c.expectCode, c.code)
  BY ZenonT(60), <1>1, <1>4 DEF HTTPResult
<1>5. ASSUME CodeMatches(c.expectCode, c.code)
      PROVE  \E i \in DOMAIN c.expectCode : c.expectCode[i] = c.code
  BY SMT, <1>1, <1>5 DEF CodeMatches
<1> QED
  BY ZenonT(60), <1>1, <1>2, <1>3, <1>4, <1>5 DEF Succeeds

\* A message counts as sent only when it is published.
LEMMA RabbitMQImpl ==
  ASSUME NEW c \in RabbitMQ
  PROVE  /\ ExecuteImpl(c) \in {"ok", "error"}
         /\ ExecuteImpl(c) = "ok" => Succeeds(c)
<1>1. c.executor = "rabbitmq" /\ c.fails \in {"", "dial", "channel", "declare", "publish"}
  BY DEF RabbitMQ
<1>2. ExecuteImpl(c) = RabbitMQResult(c)
  BY <1>1 DEF ExecuteImpl
<1> QED
  BY <1>1, <1>2 DEF RabbitMQResult, Succeeds

\* A notification is sent, fails, blocks or panics.
LEMMA SendType ==
  ASSUME NEW n \in Notification
  PROVE  Send(n) \in {"ok", "error", "blocked", "panic"}
<1>1. n.reply \in {"ok", "refused", "never"} /\ n.mail \in BOOLEAN /\ n.webhook \in BOOLEAN
  BY DEF Notification
<1> QED
  BY <1>1 DEF Send

-----------------------------------------------------------------------------
(* The steps of a call. *)

\* The places of a run that its executor holds.
Held == InExecutor \cup {"calling", "returned"}

\* A call in state t is where a call of its type can be; a command that runs is
\* one that could be started; a run that is a success is one.
Good(c, t) ==
  /\ t.pc \in Held \cup {"accepted", "finishing"}
       => asked[c].type = "AgentRun" /\ Executor(c) # ""
  /\ t.pc \in {"process", "parse", "write", "apply"} => asked[c].type = "ExecutionDone"
  /\ t.pc \in {"command", "exited"} => asked[c].config \in Shell /\ asked[c].config.starts
  /\ asked[c].type = "AgentRun" /\ t.result = "ok" => Succeeds(asked[c].config)

\* A step keeps call c good, leaves what a shutdown notes of it, and does not
\* put it in the hands of its executor.
Moves(c) ==
  /\ Fielded(call'[c]) /\ Good(c, call'[c])
  /\ call'[c].uncounted = call[c].uncounted /\ call'[c].cut = call[c].cut
  /\ call'[c].pc \in Held => call[c].pc \in Held

Stopped == {"leaving", "exit0", "exit1", "panicked"}

\* A step that does not matter to the count of the executions.
Quiet ==
  /\ call' = [c \in Calls |-> call'[c]]
  /\ \A c \in Calls : Moves(c)
  /\ agent' = "cleaning" => agent = "cleaning"
  /\ agent \in Stopped => agent' \in Stopped
  /\ UNCHANGED <<load, running>>

CallsGood == CallsOK /\ \A c \in Calls : Good(c, call[c])

\* The fields of a call.
LEMMA FieldNames ==
  Fields = {"pc", "broker", "result", "pipe", "updates", "wrote", "mixed", "output", "sent",
            "trailing", "uncounted", "cut", "todo", "in", "sinks", "overlapped"}
BY DEF Fields, Fresh

\* What a step in which a call becomes t has to show.
LEMMA BecomesQuiet ==
  ASSUME CallsGood, NEW c \in Calls, NEW t, Fielded(t), Becomes(c, t), Good(c, t),
         t.uncounted = call[c].uncounted, t.cut = call[c].cut,
         t.pc \in Held => call[c].pc \in Held
  PROVE  Quiet
BY DEF CallsGood, CallsOK, Quiet, Moves, Becomes

\* A step that leaves the calls alone.
LEMMA SameCalls ==
  ASSUME CallsGood, UNCHANGED <<load, call, running>>,
         agent' = "cleaning" => agent = "cleaning",
         agent \in Stopped => agent' \in Stopped
  PROVE  Quiet
BY DEF CallsGood, CallsOK, Quiet, Moves

\* The agent's side of a run, but for Execute and FinishRun.
LEMMA RunQuiet ==
  ASSUME CallsGood, NEW c \in Calls,
         \/ AcceptRun(c) \/ NotPresent(c) \/ BrokerAccepts(c) \/ BrokerServes(c)
         \/ StopServer(c) \/ SendLast(c) \/ ReturnRun(c)
         \/ \E w \in Pipes : Update(c, w)
  PROVE  Quiet
<1> USE FieldNames, BecomesQuiet DEF CallsGood, CallsOK, Fielded, Good, Held, InExecutor
<1>1. CASE AcceptRun(c)
  BY <1>1 DEF AcceptRun
<1>2. CASE NotPresent(c)
  BY <1>2 DEF NotPresent
<1>3. CASE BrokerAccepts(c)
  BY ZenonT(60), <1>3 DEF BrokerAccepts
<1>4. CASE BrokerServes(c)
  BY <1>4 DEF BrokerServes
<1>5. CASE StopServer(c)
  <2>1. CASE call[c].broker = "serving"
    BY <1>5, <2>1 DEF StopServer
  <2>2. CASE call[c].broker # "serving"
    BY <1>5, <2>2, SameCalls DEF StopServer, Panic, Stopped
  <2> QED
    BY <2>1, <2>2
<1>6. CASE SendLast(c)
  BY <1>6 DEF SendLast
<1>7. CASE ReturnRun(c)
  BY <1>7 DEF ReturnRun
<1>8. CASE \E w \in Pipes : Update(c, w)
  <2>1. PICK w \in Pipes : Update(c, w)
    BY <1>8
  <2> DEFINE trailing == call[c].trailing \/ call[c].pc = "sent"
  <2>2. Becomes(c, [call[c] EXCEPT !.pipe[w] = "appending", !.output = "piece",
                                   !.trailing = trailing])
    BY <2>1 DEF Update
  <2> HIDE DEF trailing
  <2> QED
    BY ZenonT(60), <2>2
<1> QED
  BY <1>1, <1>2, <1>3, <1>4, <1>5, <1>6, <1>7, <1>8

\* The executor's side of a run.
LEMMA ExecutorQuiet ==
  ASSUME CallsGood, NEW c \in Calls,
         \/ CallExecutor(c) \/ DialBroker(c) \/ DialTimesOut(c) \/ StartImpl(c)
         \/ CommandExits(c) \/ WaitReturns(c) \/ ExecutorGone(c)
         \/ \E w \in Pipes : WriteOutput(c, w) \/ AppendOutput(c, w)
  PROVE  Quiet
<1> USE FieldNames, BecomesQuiet DEF CallsGood, CallsOK, Fielded, Good, Held, InExecutor
<1>1. CASE CallExecutor(c)
  BY <1>1 DEF CallExecutor
<1>2. CASE DialBroker(c)
  BY <1>2 DEF DialBroker
<1>3. CASE DialTimesOut(c)
  BY <1>3 DEF DialTimesOut
<1>4. CASE StartImpl(c)
  <2> DEFINE result == ExecuteImpl(asked[c].config)
  <2>1. CASE result = "panic"
    BY <1>4, <2>1, SameCalls DEF StartImpl, Panic
  <2>2. CASE result # "panic"
    <3>1. asked[c].config \in Shell \cup HTTP \cup RabbitMQ
      BY <1>4, AskedType DEF StartImpl, Executor
    <3>2. /\ result = "started" => asked[c].config \in Shell /\ asked[c].config.starts
          /\ result = "ok" => Succeeds(asked[c].config)
      BY <3>1, ShellImpl, HTTPImpl, RabbitMQImpl
    <3> DEFINE pc == CASE result = "started" -> "command"
                       [] result = "blocked" -> "blocked"
                       [] OTHER              -> "returned"
               t  == [call[c] EXCEPT !.pc = pc, !.result = result]
    <3>3. pc \in {"command", "blocked", "returned"} /\ (pc = "command" => result = "started")
      OBVIOUS
    <3>4. Becomes(c, t) /\ call[c].pc = "starting"
      BY <1>4, <2>2 DEF StartImpl
    <3> HIDE DEF pc, result
    <3> QED
      BY <3>2, <3>3, <3>4
  <2> QED
    BY <2>1, <2>2
<1>5. CASE CommandExits(c)
  BY <1>5 DEF CommandExits
<1>6. CASE WaitReturns(c)
  <2>1. asked[c].config \in Shell /\ asked[c].config.starts
    BY <1>6 DEF WaitReturns
  <2>2. asked[c].config.exit = 0 => Succeeds(asked[c].config)
    BY <2>1 DEF Succeeds, Shell
  <2> QED
    BY ZenonT(60), <1>6, <2>2 DEF WaitReturns
<1>7. CASE ExecutorGone(c)
  BY ZenonT(60), <1>7 DEF ExecutorGone
<1>8. CASE \E w \in Pipes : WriteOutput(c, w)
  BY ZenonT(60), <1>8 DEF WriteOutput
<1>9. CASE \E w \in Pipes : AppendOutput(c, w)
  <2>1. PICK w \in Pipes : AppendOutput(c, w)
    BY <1>9
  <2> DEFINE mixed == call[c].mixed \/ \E v \in Pipes \ {w} : call[c].pipe[v] = "appending"
  <2>2. Becomes(c, [call[c] EXCEPT !.pipe[w] = "idle", !.mixed = mixed])
    BY <2>1 DEF AppendOutput
  <2> HIDE DEF mixed
  <2> QED
    BY ZenonT(60), <2>2
<1> QED
  BY <1>1, <1>2, <1>3, <1>4, <1>5, <1>6, <1>7, <1>8, <1>9

\* The report of an execution.
LEMMA ReportQuiet ==
  ASSUME CallsGood, NEW c \in Calls, AcceptReport(c) \/ Report(c) \/ ReportFails(c) \/ NoSyslog(c)
  PROVE  Quiet
<1> USE FieldNames, BecomesQuiet DEF CallsGood, CallsOK, Fielded, Good, Held, InExecutor
<1>1. CASE AcceptReport(c)
  BY ZenonT(60), <1>1 DEF AcceptReport
<1>2. CASE ReportFails(c)
  BY ZenonT(60), <1>2 DEF ReportFails
<1>3. CASE NoSyslog(c)
  BY <1>3 DEF NoSyslog
<1>4. CASE \E p \in ProcessorPlugins : SkipProcessor(c, p)
  BY <1>4 DEF SkipProcessor
<1>5. CASE \E p \in ProcessorPlugins : CallProcessor(c, p)
  BY ZenonT(60), <1>5 DEF CallProcessor
<1>6. CASE ParseConfig(c)
  <2>1. Moves(c)
    BY ZenonT(60), <1>6 DEF ParseConfig, Moves
  <2>2. ASSUME NEW d \in Calls \ {c}
        PROVE  Moves(d)
    <3> DEFINE yes == TRUE
    <3>1. \/ call'[d] = call[d]
          \/ call'[d] = [call[d] EXCEPT !.overlapped = yes]
      BY <1>6, <2>2 DEF ParseConfig
    <3> HIDE DEF yes
    <3>2. CASE call'[d] = call[d]
      BY <2>2, <3>2 DEF Moves
    <3>3. CASE call'[d] = [call[d] EXCEPT !.overlapped = yes]
      <4>1. /\ Fielded(call'[d]) /\ call'[d].pc = call[d].pc /\ call'[d].result = call[d].result
            /\ call'[d].uncounted = call[d].uncounted /\ call'[d].cut = call[d].cut
        BY ZenonT(60), <2>2, <3>3
      <4> QED
        BY <2>2, <4>1 DEF Moves
    <3> QED
      BY <3>1, <3>2, <3>3
  <2> QED
    BY <1>6, <2>1, <2>2 DEF ParseConfig, Quiet
<1>7. CASE WriteSink(c)
  BY ZenonT(60), <1>7 DEF WriteSink, Processed
<1>8. CASE ProcessorGone(c)
  BY <1>8, SameCalls DEF ProcessorGone, Panic, Stopped
<1>9. CASE ApplyReport(c)
  BY ZenonT(60), <1>9 DEF ApplyReport
<1>10. CASE Notify(c)
  <2> DEFINE result == Send(asked[c].notification)
  <2>1. CASE result = "panic"
    BY <1>10, <2>1, SameCalls DEF Notify, Panic, Stopped
  <2>2. CASE result # "panic"
    <3> DEFINE pc == IF result = "blocked" THEN "waiting" ELSE "ended"
    <3>1. /\ Becomes(c, [call[c] EXCEPT !.pc = pc, !.result = result])
          /\ call[c].pc = "apply" /\ pc \in {"waiting", "ended"}
      BY <1>10, <2>2 DEF Notify
    <3> HIDE DEF pc, result
    <3> QED
      BY <3>1
  <2> QED
    BY <2>1, <2>2
<1> QED
  BY <1>1, <1>2, <1>3, <1>4, <1>5, <1>6, <1>7, <1>8, <1>9, <1>10 DEF Report

-----------------------------------------------------------------------------
(* The shutdown. *)

\* Another call runs an execution of the same group.
Shared(c) == \E d \in Calls \ {c} : asked[d].type = "AgentRun" /\ asked[d].group = asked[c].group

\* A call whose execution nothing stands for among the running ones.
Excepted(c) == call[c].uncounted \/ Shared(c)

\* An executor at work is counted; when the plugins are killed none is; a call
\* is cut only then.
DrainInv ==
  /\ CallsGood
  /\ \A c \in Calls :
       /\ call[c].pc \in Held => Excepted(c) \/ asked[c].group \in running
       /\ agent = "cleaning" /\ call[c].pc \in Held => Excepted(c)
       /\ call[c].cut => agent \in Stopped /\ Excepted(c)

\* Steps that do not matter to the count keep the invariant.
LEMMA QuietInv ==
  ASSUME DrainInv, Quiet
  PROVE  DrainInv'
<1>1. CallsGood'
  BY DEF DrainInv, CallsGood, CallsOK, Quiet, Moves, Good, asked, Executor, Fielded, Fields
<1>2. ASSUME NEW c \in Calls
      PROVE  (Excepted(c) <=> Excepted(c)') /\ Moves(c)
  BY DEF Quiet, Moves, Excepted, Shared, asked
<1> QED
  BY <1>1, <1>2 DEF DrainInv, Quiet, Moves, asked

\* The initial states satisfy the invariant.
LEMMA InitInv == AgentInit => DrainInv
<1> SUFFICES ASSUME AgentInit
             PROVE  DrainInv
  OBVIOUS
<1>1. \A c \in Calls : call[c] = Fresh
  BY DEF AgentInit
<1>2. Fresh.pc = "none" /\ Fresh.result = "error" /\ Fresh.cut = FALSE /\ Fielded(Fresh)
  BY FieldNames DEF Fresh, Fielded
<1>3. CallsOK
  BY <1>1, <1>2 DEF AgentInit, CallsOK
<1>4. \A c \in Calls : Good(c, call[c])
  BY <1>1, <1>2 DEF Good, Held, InExecutor
<1> QED
  BY <1>1, <1>2, <1>3, <1>4 DEF DrainInv, CallsGood, Held, InExecutor

\* An execution is stored as running before its executor is called; one that
\* comes too late for that is marked.
LEMMA ExecuteInv ==
  ASSUME DrainInv, NEW c \in Calls, Execute(c)
  PROVE  DrainInv'
<1> DEFINE late == agent \in {"cleaning", "leaving"}
<1>1. /\ call' = [call EXCEPT ![c].pc = "calling", ![c].broker = "pending", ![c].uncounted = late]
      /\ call[c].pc = "accepted" /\ agent \notin {"exit0", "exit1", "panicked"}
      /\ running' = running \cup {asked[c].group} /\ UNCHANGED <<agent, load>>
  BY DEF Execute, Alive
<1>2. (agent = "cleaning" => late) /\ (agent \in Stopped => late)
  BY <1>1 DEF Stopped
<1> HIDE DEF late
<1> USE DEF DrainInv, CallsGood, CallsOK
<1>3. /\ Fielded(call'[c]) /\ call'[c].pc = "calling" /\ call'[c].uncounted = late
      /\ call'[c].cut = call[c].cut /\ call'[c].result = call[c].result
  <2>1. call'[c] = [call[c] EXCEPT !.pc = "calling", !.broker = "pending", !.uncounted = late]
    BY <1>1
  <2> QED
    BY <2>1, FieldNames DEF Fielded
<1>4. \A d \in Calls \ {c} : call'[d] = call[d]
  BY <1>1
<1>5. CallsOK'
  BY SMTT(30), <1>1, <1>3, <1>4, FieldNames DEF Fielded, Fields
<1>6. ASSUME NEW d \in Calls
      PROVE  Good(d, call[d])'
  <2>1. asked' = asked /\ Good(d, call[d])
    BY <1>1 DEF asked
  <2>2. CASE d = c
    BY <1>1, <1>3, <2>1, <2>2 DEF Good, Held, InExecutor, Executor
  <2>3. CASE d # c
    BY <1>4, <2>1, <2>3 DEF Good, Executor
  <2> QED
    BY <2>2, <2>3
<1>7. late => Excepted(c)'
  BY <1>3 DEF Excepted
<1>8. \A d \in Calls \ {c} : Excepted(d)' <=> Excepted(d)
  BY <1>1, <1>4 DEF Excepted, Shared, asked
<1>9. ASSUME NEW d \in Calls
      PROVE  /\ call[d].pc \in Held => Excepted(d) \/ asked[d].group \in running
             /\ agent = "cleaning" /\ call[d].pc \in Held => Excepted(d)
             /\ call[d].cut => agent \in Stopped /\ Excepted(d)
  OBVIOUS
<1>10. ASSUME NEW d \in Calls
       PROVE  (/\ call[d].pc \in Held => Excepted(d) \/ asked[d].group \in running
               /\ agent = "cleaning" /\ call[d].pc \in Held => Excepted(d)
               /\ call[d].cut => agent \in Stopped /\ Excepted(d))'
  <2>1. CASE d = c
    BY <1>1, <1>2, <1>3, <1>7, <1>9, <2>1 DEF asked
  <2>2. CASE d # c
    BY <1>1, <1>4, <1>8, <1>9, <2>2 DEF asked
  <2> QED
    BY <2>1, <2>2
<1> QED
  BY <1>5, <1>6, <1>10

\* An execution that ends takes its group with it, and so the count of those
\* that share it.
LEMMA FinishRunInv ==
  ASSUME DrainInv, NEW c \in Calls, FinishRun(c)
  PROVE  DrainInv'
<1> DEFINE output == IF call[c].mixed THEN "mixed" ELSE "all"
<1>1. /\ call' = [call EXCEPT ![c].pc = "final", ![c].output = output]
      /\ call[c].pc = "finishing" /\ running' = running \ {asked[c].group}
      /\ UNCHANGED <<agent, load>>
  BY DEF FinishRun
<1> HIDE DEF output
<1> USE DEF DrainInv, CallsGood, CallsOK
<1>2. /\ Fielded(call'[c]) /\ call'[c].pc = "final" /\ call'[c].uncounted = call[c].uncounted
      /\ call'[c].cut = call[c].cut /\ call'[c].result = call[c].result
  <2>1. call'[c] = [call[c] EXCEPT !.pc = "final", !.output = output]
    BY <1>1
  <2> QED
    BY <2>1, FieldNames DEF Fielded
<1>3. \A d \in Calls \ {c} : call'[d] = call[d]
  BY <1>1
<1>4. CallsOK'
  BY SMT, <1>1, <1>2, <1>3, FieldNames DEF Fielded, Fields
<1>5. asked' = asked
  BY <1>1 DEF asked
<1>6. ASSUME NEW d \in Calls
      PROVE  Good(d, call[d])' /\ (Excepted(d)' <=> Excepted(d))
  <2>1. CASE d = c
    BY <1>2, <1>5, <2>1 DEF Good, Held, InExecutor, Executor, Excepted, Shared
  <2>2. CASE d # c
    BY <1>3, <1>5, <2>2 DEF Good, Executor, Excepted, Shared
  <2> QED
    BY <2>1, <2>2
<1>7. ASSUME NEW d \in Calls, d # c, call[d].pc \in Held, asked[d].group = asked[c].group
      PROVE  Shared(d)
  BY <1>1, <1>7 DEF Good, Shared
<1>8. ASSUME NEW d \in Calls
      PROVE  (/\ call[d].pc \in Held => Excepted(d) \/ asked[d].group \in running
              /\ agent = "cleaning" /\ call[d].pc \in Held => Excepted(d)
              /\ call[d].cut => agent \in Stopped /\ Excepted(d))'
  <2>1. CASE d = c
    BY <1>1, <1>2, <1>6, <2>1 DEF Held, InExecutor
  <2>2. CASE d # c
    BY <1>1, <1>3, <1>5, <1>6, <1>7, <2>2 DEF Excepted
  <2> QED
    BY <2>1, <2>2
<1> QED
  BY <1>4, <1>6, <1>8

\* The plugins are killed only after the count was 0.
LEMMA NoJobsLeftInv ==
  ASSUME DrainInv, NoJobsLeft
  PROVE  DrainInv'
<1> USE DEF DrainInv, CallsGood
<1>1. /\ agent = "draining" /\ agent' = "cleaning" /\ running = {}
      /\ UNCHANGED <<load, call, running>> /\ asked' = asked
  BY DEF NoJobsLeft, asked
<1>2. CallsGood'
  BY <1>1 DEF CallsOK, Good, Executor, Fielded, Fields
<1>3. \A c \in Calls : Excepted(c)' <=> Excepted(c)
  BY <1>1 DEF Excepted, Shared
<1> QED
  BY <1>1, <1>2, <1>3 DEF Stopped

\* What is killed then is excepted.
LEMMA CleanupInv ==
  ASSUME DrainInv, CleanupClients
  PROVE  DrainInv'
<1> USE DEF DrainInv, CallsGood, CallsOK
<1>1. /\ agent = "cleaning" /\ agent' = "leaving" /\ asked' = asked
      /\ UNCHANGED <<load, running>> /\ call' = [c \in Calls |-> call'[c]]
  BY DEF CleanupClients, asked
<1>2. ASSUME NEW c \in Calls
      PROVE  /\ Fielded(call'[c]) /\ call'[c].pc = call[c].pc /\ call'[c].result = call[c].result
             /\ call'[c].uncounted = call[c].uncounted
             /\ call'[c].cut => call[c].pc \in Held
  <2> DEFINE alive == plugin[Executor(c)] = "alive"
  <2>1. \/ call'[c] = call[c]
        \/ call[c].pc \in Held /\ call'[c] = [call[c] EXCEPT !.cut = alive]
    BY DEF CleanupClients, Held
  <2> HIDE DEF alive
  <2>2. CASE call'[c] = call[c]
    BY <1>1, <2>2 DEF Stopped
  <2>3. CASE call[c].pc \in Held /\ call'[c] = [call[c] EXCEPT !.cut = alive]
    BY <2>3, FieldNames DEF Fielded
  <2> QED
    BY <2>1, <2>2, <2>3
<1>3. CallsOK'
  BY <1>1, <1>2, FieldNames DEF Fielded, Fields
<1>4. ASSUME NEW c \in Calls
      PROVE  Good(c, call[c])' /\ (Excepted(c)' <=> Excepted(c))
  BY <1>1, <1>2 DEF Good, Executor, Excepted, Shared
<1> QED
  BY <1>1, <1>2, <1>3, <1>4 DEF Stopped

\* Every step keeps the invariant.
LEMMA NextInv == DrainInv /\ [AgentNext]_agentVars => DrainInv'
<1> SUFFICES ASSUME DrainInv, [AgentNext]_agentVars
             PROVE  DrainInv'
  OBVIOUS
<1> CallsGood
  BY DEF DrainInv
<1>1. CASE UNCHANGED agentVars
  BY <1>1, SameCalls, QuietInv DEF agentVars
<1>2. CASE Discover \/ HandleSignal \/ Exit \/ RetryJoinFails
  BY <1>2, SameCalls, QuietInv DEF Discover, HandleSignal, Exit, RetryJoinFails, Stopped
<1>3. CASE \E sig \in {"term", "hup"} : Signal(sig)
  BY <1>3, SameCalls, QuietInv DEF Signal
<1>4. CASE \E p \in Plugins : PluginDies(p)
  BY <1>4, SameCalls, QuietInv DEF PluginDies
<1>5. CASE NoJobsLeft \/ CleanupClients
  BY <1>5, NoJobsLeftInv, CleanupInv
<1>6. ASSUME NEW c \in Calls,
             \/ AcceptRun(c) \/ Run(c) \/ DialTimesOut(c) \/ \E w \in Pipes : WriteOutput(c, w)
             \/ AcceptReport(c) \/ Report(c) \/ ReportFails(c) \/ NoSyslog(c)
      PROVE  DrainInv'
  BY <1>6, RunQuiet, ExecutorQuiet, ReportQuiet, QuietInv, ExecuteInv, FinishRunInv DEF Run
<1> QED
  BY <1>1, <1>2, <1>3, <1>4, <1>5, <1>6 DEF AgentNext, Main

\* A graceful shutdown kills no execution that was counted and shares its group
\* with no other, for any calls, plugins and signals (cmd/agent.go:124-133,
\* grpc_agent.go:82, 114).
THEOREM DrainSafe == AgentSpec => []DrainsExecutions
<1>1. DrainInv => DrainsExecutions
  BY DEF DrainInv, DrainsExecutions, Excepted, Shared
<1> QED
  BY <1>1, InitInv, NextInv, PTL DEF AgentSpec

\* No execution is reported as a success unless what the job asks for was done,
\* for any calls, whichever plugin dies (grpc_agent.go:80-111,
\* executor.go:47-86).
THEOREM SuccessSafe == AgentSpec => []SuccessIsReal
<1>1. DrainInv => SuccessIsReal
  BY DEF DrainInv, CallsGood, Good, SuccessIsReal
<1> QED
  BY <1>1, InitInv, NextInv, PTL DEF AgentSpec

-----------------------------------------------------------------------------
(* Panics. *)

Dead == \E p \in Plugins : plugin[p] = "dead"

\* A call in state t: its server is stopped once, and is there when an executor
\* that called back returns; it looks for processors only.
Sure(t) ==
  /\ t.pipe = [w \in Pipes |-> t.pipe[w]]
  /\ t.pc \in Held \cup {"none", "accepted"} => t.broker # "closed"
  /\ t.pc \in {"none", "accepted", "calling", "dialing", "starting"} => t.updates = 0
  /\ t.pc \in {"command", "exited", "blocked"} =>
       t.updates = 0 \/ t.broker = "serving" \/ \E w \in Pipes : t.pipe[w] = "calling"
  /\ t.pc = "returned" => t.updates = 0 \/ t.broker = "serving" \/ Dead
  /\ t.pc \in {"process", "parse", "write"} => t.todo \subseteq Plugins
  /\ t.pc \in {"parse", "write"} => t.in \in Plugins

PanicInv ==
  /\ plugin = [p \in Plugins |-> plugin[p]]
  /\ agent = "new" => ~Dead
  /\ \A c \in Calls : Sure(call[c])
  /\ PanicsForACause

\* The fields that matter.
LEMMA SameSure ==
  ASSUME NEW s, NEW t, Sure(s), t.pc = s.pc, t.pipe = s.pipe, t.broker = s.broker,
         t.updates = s.updates, t.todo = s.todo, t.in = s.in
  PROVE  Sure(t)
BY DEF Sure

\* What a step in which a call becomes t has to show.
LEMMA BecomesSure ==
  ASSUME CallsOK, PanicInv, NEW c \in Calls, NEW t, Becomes(c, t), Sure(t)
  PROVE  PanicInv'
<1>1. /\ call' = [call EXCEPT ![c] = t] /\ agent # "panicked"
      /\ UNCHANGED <<agent, plugin, load>>
  BY DEF Becomes, Alive
<1>2. (Dead' <=> Dead) /\ Sure(t)' = Sure(t)
  BY <1>1 DEF Dead, Sure
<1>3. \A d \in Calls : Sure(call[d])'
  BY <1>1, <1>2 DEF CallsOK, PanicInv, Sure
<1> QED
  BY <1>1, <1>2, <1>3 DEF PanicInv, PanicsForACause

\* The agent's side of a run.
LEMMA RunSure ==
  ASSUME CallsGood, PanicInv, NEW c \in Calls,
         \/ AcceptRun(c) \/ NotPresent(c) \/ BrokerAccepts(c) \/ BrokerServes(c)
         \/ StopServer(c) \/ SendLast(c) \/ ReturnRun(c)
         \/ \E w \in Pipes : Update(c, w)
  PROVE  PanicInv'
<1>0. CallsOK /\ Fielded(call[c]) /\ Sure(call[c])
  BY DEF CallsGood, CallsOK, PanicInv
<1> USE <1>0, FieldNames, BecomesSure DEF Fielded, Sure, Held, InExecutor
<1>1. CASE AcceptRun(c)
  BY <1>1 DEF AcceptRun
<1>2. CASE NotPresent(c)
  BY <1>2 DEF NotPresent
<1>3. CASE BrokerAccepts(c)
  BY <1>3 DEF BrokerAccepts
<1>4. CASE BrokerServes(c)
  BY <1>4 DEF BrokerServes
<1>5. CASE StopServer(c)
  <2>1. CASE call[c].broker = "serving"
    BY <1>5, <2>1 DEF StopServer
  <2>2. CASE call[c].broker # "serving"
    <3>1. Panic /\ call[c].pc = "returned"
      BY <1>5, <2>2 DEF StopServer
    <3>2. agent' = "panicked" /\ UNCHANGED <<call, plugin>> /\ asked' = asked
      BY <3>1 DEF Panic, asked
    <3>3. Dead \/ call[c].updates = 0
      BY <2>2, <3>1 DEF PanicInv
    <3>4. PanicsForACause'
      BY <3>1, <3>2, <3>3 DEF PanicsForACause, Dead
    <3> QED
      BY <3>2, <3>4 DEF PanicInv, Dead
  <2> QED
    BY <2>1, <2>2
<1>6. CASE SendLast(c)
  BY <1>6 DEF SendLast
<1>7. CASE ReturnRun(c)
  BY <1>7 DEF ReturnRun
<1>8. CASE \E w \in Pipes : Update(c, w)
  <2>1. PICK w \in Pipes : Update(c, w)
    BY <1>8
  <2> DEFINE trailing == call[c].trailing \/ call[c].pc = "sent"
  <2>2. /\ call[c].broker \in {"serving", "closed"}
        /\ Becomes(c, [call[c] EXCEPT !.pipe[w] = "appending", !.output = "piece",
                                      !.trailing = trailing])
    BY <2>1 DEF Update
  <2> HIDE DEF trailing
  <2> QED
    BY <2>2
<1> QED
  BY <1>1, <1>2, <1>3, <1>4, <1>5, <1>6, <1>7, <1>8

\* The executor's side of a run.
LEMMA ExecutorSure ==
  ASSUME CallsGood, PanicInv, NEW c \in Calls,
         \/ CallExecutor(c) \/ DialBroker(c) \/ DialTimesOut(c) \/ StartImpl(c)
         \/ CommandExits(c) \/ WaitReturns(c) \/ ExecutorGone(c)
         \/ \E w \in Pipes : WriteOutput(c, w) \/ AppendOutput(c, w)
  PROVE  PanicInv'
<1>0. CallsOK /\ Fielded(call[c]) /\ Sure(call[c])
  BY DEF CallsGood, CallsOK, PanicInv
<1>a. call[c].pc \in Held => Executor(c) \in Plugins
  <2>1. call[c].pc \in Held => asked[c].config \in Shell \cup HTTP \cup RabbitMQ
    BY <1>0, AskedType DEF CallsGood, Good, Executor
  <2> QED
    BY ZenonT(60), <2>1 DEF Executor, Plugins, ExecutorPlugins, Shell, HTTP, RabbitMQ
<1> USE <1>0, FieldNames, BecomesSure DEF Fielded, Sure, Held, InExecutor
<1>1. CASE CallExecutor(c)
  BY <1>1 DEF CallExecutor
<1>2. CASE DialBroker(c)
  BY <1>2 DEF DialBroker
<1>3. CASE DialTimesOut(c)
  BY <1>3 DEF DialTimesOut
<1>4. CASE StartImpl(c)
  <2> DEFINE result == ExecuteImpl(asked[c].config)
  <2>1. CASE result = "panic"
    <3>1. /\ plugin' = [plugin EXCEPT ![Executor(c)] = "dead"] /\ Executor(c) \in Plugins
          /\ UNCHANGED <<agent, load, call>> /\ agent \notin {"new", "panicked"}
      BY <1>4, <1>a, <2>1 DEF StartImpl, Alive
    <3>2. Dead'
      BY <3>1 DEF PanicInv, Dead
    <3> QED
      BY <3>1, <3>2 DEF PanicInv, PanicsForACause
  <2>2. CASE result # "panic"
    <3> DEFINE pc == CASE result = "started" -> "command"
                       [] result = "blocked" -> "blocked"
                       [] OTHER              -> "returned"
    <3>1. /\ Becomes(c, [call[c] EXCEPT !.pc = pc, !.result = result]) /\ call[c].pc = "starting"
          /\ pc \in {"command", "blocked", "returned"}
      BY <1>4, <2>2 DEF StartImpl
    <3> HIDE DEF pc, result
    <3> QED
      BY <3>1
  <2> QED
    BY <2>1, <2>2
<1>5. CASE CommandExits(c)
  BY <1>5 DEF CommandExits
<1>6. CASE WaitReturns(c)
  <2> DEFINE result == IF asked[c].config.exit = 0 THEN "ok" ELSE "error"
  <2>1. /\ Becomes(c, [call[c] EXCEPT !.pc = "returned", !.result = result])
        /\ call[c].pc = "exited" /\ \A w \in Pipes : call[c].pipe[w] = "idle"
    BY <1>6 DEF WaitReturns
  <2> HIDE DEF result
  <2> QED
    BY <2>1
<1>7. CASE ExecutorGone(c)
  <2>1. Dead
    BY <1>7, <1>a DEF ExecutorGone, Dead
  <2> QED
    BY <1>7, <2>1 DEF ExecutorGone
<1>8. CASE \E w \in Pipes : WriteOutput(c, w)
  BY <1>8 DEF WriteOutput
<1>9. CASE \E w \in Pipes : AppendOutput(c, w)
  <2>1. PICK w \in Pipes : AppendOutput(c, w)
    BY <1>9
  <2> DEFINE mixed == call[c].mixed \/ \E v \in Pipes \ {w} : call[c].pipe[v] = "appending"
  <2>2. /\ Becomes(c, [call[c] EXCEPT !.pipe[w] = "idle", !.mixed = mixed])
        /\ call[c].pipe[w] = "appending"
    BY <2>1 DEF AppendOutput
  <2> HIDE DEF mixed
  <2> QED
    BY <2>2
<1> QED
  BY <1>1, <1>2, <1>3, <1>4, <1>5, <1>6, <1>7, <1>8, <1>9

\* The steps of a run that change what counts as running.
LEMMA CountSure ==
  ASSUME CallsGood, PanicInv, NEW c \in Calls, Execute(c) \/ FinishRun(c)
  PROVE  PanicInv'
<1> DEFINE late == agent \in {"cleaning", "leaving"}
           output == IF call[c].mixed THEN "mixed" ELSE "all"
<1>1. /\ UNCHANGED <<agent, plugin, load>> /\ agent # "panicked"
      /\ call[c].pc \in {"accepted", "finishing"}
  BY DEF Execute, FinishRun, Alive
<1>2. \/ /\ call' = [call EXCEPT ![c].pc = "calling", ![c].broker = "pending", ![c].uncounted = late]
         /\ call[c].pc = "accepted"
      \/ call' = [call EXCEPT ![c].pc = "final", ![c].output = output]
  BY DEF Execute, FinishRun
<1> HIDE DEF late, output
<1> USE DEF CallsGood, CallsOK, PanicInv
<1>3. Sure(call'[c])
  <2>1. \/ /\ call'[c] = [call[c] EXCEPT !.pc = "calling", !.broker = "pending", !.uncounted = late]
           /\ call[c].pc = "accepted"
        \/ call'[c] = [call[c] EXCEPT !.pc = "final", !.output = output]
    BY <1>2
  <2>2. Fielded(call[c]) /\ Sure(call[c])
    OBVIOUS
  <2>3. /\ call'[c].pipe = call[c].pipe /\ call'[c].updates = call[c].updates
        /\ \/ call'[c].pc = "calling" /\ call'[c].broker = "pending" /\ call[c].pc = "accepted"
           \/ call'[c].pc = "final"
    BY <2>1, <2>2, FieldNames DEF Fielded
  <2> QED
    BY <2>2, <2>3 DEF Sure, Held, InExecutor
<1>4. \A d \in Calls \ {c} : call'[d] = call[d]
  BY <1>2
<1> QED
  BY SMT, <1>1, <1>3, <1>4 DEF Sure, Dead, PanicsForACause

\* A call that enters a processor marks the others in it.
LEMMA ParseSure ==
  ASSUME CallsGood, PanicInv, NEW c \in Calls, ParseConfig(c)
  PROVE  PanicInv'
<1> DEFINE yes == TRUE
<1>1. /\ UNCHANGED <<agent, plugin, load>> /\ agent # "panicked" /\ call[c].pc = "parse"
      /\ call'[c] = [call[c] EXCEPT !.pc = "write"]
  BY DEF ParseConfig, Alive
<1>2. \A d \in Calls \ {c} : \/ call'[d] = call[d]
                            \/ call'[d] = [call[d] EXCEPT !.overlapped = yes]
  BY DEF ParseConfig
<1> HIDE DEF yes
<1>3. \A d \in Calls : Fielded(call[d]) /\ Sure(call[d])
  BY DEF CallsGood, CallsOK, PanicInv
<1>4. Sure(call'[c])
  BY ZenonT(60), <1>1, <1>3, FieldNames DEF Fielded, Sure, Held, InExecutor
<1>5. ASSUME NEW d \in Calls \ {c}
      PROVE  Sure(call'[d])
  <2>1. /\ call'[d].pc = call[d].pc /\ call'[d].pipe = call[d].pipe
        /\ call'[d].broker = call[d].broker /\ call'[d].updates = call[d].updates
        /\ call'[d].todo = call[d].todo /\ call'[d].in = call[d].in
    BY ZenonT(60), <1>2, <1>3, FieldNames DEF Fielded
  <2> QED
    BY <1>3, <2>1, SameSure
<1> QED
  BY ZenonT(60), <1>1, <1>4, <1>5 DEF PanicInv, PanicsForACause, Sure, Dead

\* The report of an execution.
LEMMA ReportSure ==
  ASSUME CallsGood, PanicInv, NEW c \in Calls,
         AcceptReport(c) \/ Report(c) \/ ReportFails(c) \/ NoSyslog(c)
  PROVE  PanicInv'
<1>0. CallsOK /\ Fielded(call[c]) /\ Sure(call[c]) /\ Good(c, call[c])
  BY DEF CallsGood, CallsOK, PanicInv
<1> USE <1>0, FieldNames, BecomesSure DEF Fielded, Sure, Held, InExecutor
<1>1. CASE AcceptReport(c)
  <2>1. DOMAIN asked[c].forward \subseteq Plugins
    BY <1>1, AskedType DEF AcceptReport, Plugins
  <2> QED
    BY <1>1, <2>1 DEF AcceptReport
<1>2. CASE ReportFails(c)
  BY <1>2 DEF ReportFails
<1>3. CASE NoSyslog(c)
  BY <1>3 DEF NoSyslog
<1>4. CASE \E p \in ProcessorPlugins : SkipProcessor(c, p)
  BY <1>4 DEF SkipProcessor
<1>5. CASE \E p \in ProcessorPlugins : CallProcessor(c, p)
  BY <1>5 DEF CallProcessor, Plugins
<1>6. CASE ParseConfig(c)
  BY <1>6, ParseSure
<1>7. CASE WriteSink(c)
  BY ZenonT(60), <1>7 DEF WriteSink, Processed
<1>8. CASE ProcessorGone(c)
  <2>1. Dead
    BY <1>8 DEF ProcessorGone, Dead
  <2> QED
    BY <1>8, <2>1 DEF ProcessorGone, Panic, PanicInv, PanicsForACause, Dead
<1>9. CASE ApplyReport(c)
  BY <1>9 DEF ApplyReport
<1>10. CASE Notify(c)
  <2> DEFINE result == Send(asked[c].notification)
  <2>1. CASE result = "panic"
    <3>1. asked[c].type = "ExecutionDone" /\ Panic
      BY <1>10, <2>1 DEF Notify, Good
    <3>2. asked' = asked
      BY <3>1 DEF Panic, asked
    <3> QED
      BY ZenonT(60), <2>1, <3>1, <3>2 DEF Panic, PanicInv, PanicsForACause, Dead
  <2>2. CASE result # "panic"
    <3> DEFINE pc == IF result = "blocked" THEN "waiting" ELSE "ended"
    <3>1. /\ Becomes(c, [call[c] EXCEPT !.pc = pc, !.result = result])
          /\ pc \in {"waiting", "ended"}
      BY <1>10, <2>2 DEF Notify
    <3> HIDE DEF pc, result
    <3> QED
      BY <3>1
  <2> QED
    BY <2>1, <2>2
<1> QED
  BY <1>1, <1>2, <1>3, <1>4, <1>5, <1>6, <1>7, <1>8, <1>9, <1>10 DEF Report

\* The process and its plugins: a plugin that is dead stays dead.
LEMMA MainSure ==
  ASSUME CallsGood, PanicInv,
         \/ Main \/ RetryJoinFails \/ UNCHANGED agentVars
         \/ \E sig \in {"term", "hup"} : Signal(sig)
         \/ \E p \in Plugins : PluginDies(p)
  PROVE  PanicInv'
<1> USE DEF CallsGood, CallsOK, PanicInv
<1>1. plugin' = [p \in Plugins |-> plugin'[p]] /\ (Dead => Dead')
  <2>1. CASE UNCHANGED plugin
    BY <2>1 DEF Dead
  <2>2. CASE Discover
    BY <2>2 DEF Discover, Dead
  <2>3. CASE CleanupClients
    BY <2>3 DEF CleanupClients, Dead
  <2>4. CASE \E p \in Plugins : PluginDies(p)
    BY <2>4 DEF PluginDies, Dead
  <2> QED
    BY <2>1, <2>2, <2>3, <2>4
    DEF Main, HandleSignal, NoJobsLeft, Exit, RetryJoinFails, Signal, agentVars
<1>2. agent' = "new" => agent = "new" /\ UNCHANGED plugin
  BY DEF Main, Discover, HandleSignal, NoJobsLeft, CleanupClients, Exit, RetryJoinFails,
         Signal, PluginDies, Alive, agentVars
<1>3. agent' = "panicked" => agent = "panicked" /\ UNCHANGED <<plugin, load, call>>
  BY DEF Main, Discover, HandleSignal, NoJobsLeft, CleanupClients, Exit, RetryJoinFails,
         Signal, PluginDies, Alive, agentVars
<1>4. ASSUME NEW c \in Calls
      PROVE  Sure(call[c])'
  <2> DEFINE alive == plugin[Executor(c)] = "alive"
  <2>1. call'[c] = call[c] \/ call'[c] = [call[c] EXCEPT !.cut = alive]
    BY DEF Main, Discover, HandleSignal, NoJobsLeft, CleanupClients, Exit, RetryJoinFails,
           Signal, PluginDies, agentVars
  <2> HIDE DEF alive
  <2>2. /\ call'[c].pc = call[c].pc /\ call'[c].pipe = call[c].pipe
        /\ call'[c].broker = call[c].broker /\ call'[c].updates = call[c].updates
        /\ call'[c].todo = call[c].todo /\ call'[c].in = call[c].in
    BY <2>1, FieldNames DEF Fielded
  <2>3. Sure(call'[c])
    BY <2>2, SameSure
  <2> QED
    BY <1>1, <2>3 DEF Sure
<1> QED
  BY <1>1, <1>2, <1>3, <1>4 DEF Dead, PanicsForACause, asked

\* The initial states satisfy PanicInv.
LEMMA PanicInit == AgentInit => PanicInv
<1> SUFFICES ASSUME AgentInit
             PROVE  PanicInv
  OBVIOUS
<1>1. \A c \in Calls : Sure(call[c])
  BY DEF AgentInit, Fresh, Sure, Held, InExecutor
<1> QED
  BY <1>1 DEF AgentInit, PanicInv, PanicsForACause, Dead

\* Every step keeps PanicInv.
LEMMA PanicNext == DrainInv /\ PanicInv /\ [AgentNext]_agentVars => PanicInv'
<1> SUFFICES ASSUME CallsGood, PanicInv, [AgentNext]_agentVars
             PROVE  PanicInv'
  BY DEF DrainInv
<1>1. ASSUME NEW c \in Calls,
             \/ AcceptRun(c) \/ Run(c) \/ DialTimesOut(c) \/ \E w \in Pipes : WriteOutput(c, w)
             \/ AcceptReport(c) \/ Report(c) \/ ReportFails(c) \/ NoSyslog(c)
      PROVE  PanicInv'
  BY <1>1, RunSure, ExecutorSure, CountSure, ReportSure DEF Run
<1> QED
  BY <1>1, MainSure DEF AgentNext

\* The agent panics only for one of the three causes, for any calls, plugins and
\* signals (executor.go:60-65, execution_processor.go:50-60, notifier.go:72,
\* 144-145).
THEOREM PanicSafe == AgentSpec => []PanicsForACause
<1>1. PanicInv => PanicsForACause
  BY DEF PanicInv
<1> QED
  BY <1>1, InitInv, NextInv, PanicInit, PanicNext, PTL DEF AgentSpec

-----------------------------------------------------------------------------
(* Processors. *)

Forwards(c) == \A p \in DOMAIN asked[c].forward : asked[c].forward[p]

\* A report in state t is in no run; the struct of the processor it is in holds
\* its configuration unless another call came; and if all processors forward,
\* the output is still the original.
Kept(c, t) ==
  asked[c].type = "ExecutionDone" =>
    /\ t.broker = "none" /\ t.pc \notin {"final", "sent"}
    /\ t.pc = "none" => t.sinks = {}
    /\ t.pc \in {"process", "parse", "write"} => t.todo \subseteq DOMAIN asked[c].forward
    /\ t.pc \in {"parse", "write"} => t.in \in DOMAIN asked[c].forward
    /\ t.pc = "write" /\ ~t.overlapped => shared[t.in] = asked[c].forward[t.in]
    /\ t.pc \in {"process", "parse", "write", "apply"} /\ ~t.overlapped /\ Forwards(c)
         => /\ t.output = "original"
            /\ \A sink \in t.sinks : sink[2] = "original"
            /\ t.pc = "apply" => t.sent = "original"

ForwardInv ==
  /\ shared = [p \in ProcessorPlugins |-> shared[p]]
  /\ \A c \in Calls : Kept(c, call[c])

\* A step that leaves the reports alone.
LEMMA SameReports ==
  ASSUME ForwardInv, UNCHANGED <<load, shared>>,
         \A c \in Calls : asked[c].type = "ExecutionDone" => call'[c] = call[c]
  PROVE  ForwardInv'
<1>1. asked' = asked
  BY DEF asked
<1> QED
  BY SMT, <1>1 DEF ForwardInv, Kept, Forwards

\* What a step in which a call becomes t has to show.
LEMMA BecomesKept ==
  ASSUME CallsOK, ForwardInv, NEW c \in Calls, NEW t, Becomes(c, t), Kept(c, t)
  PROVE  ForwardInv'
<1>1. call' = [call EXCEPT ![c] = t] /\ asked' = asked /\ UNCHANGED shared
  BY DEF Becomes, asked
<1>2. \A d \in Calls : Kept(d, call'[d])
  BY <1>1 DEF CallsOK, ForwardInv
<1> QED
  BY SMT, <1>1, <1>2 DEF ForwardInv, Kept, Forwards

\* A run leaves the reports alone.
LEMMA RunKept ==
  ASSUME CallsGood, ForwardInv, NEW c \in Calls,
         AcceptRun(c) \/ Run(c) \/ DialTimesOut(c) \/ \E w \in Pipes : WriteOutput(c, w)
  PROVE  ForwardInv'
<1>0. CallsOK /\ Fielded(call[c]) /\ Good(c, call[c]) /\ Kept(c, call[c])
  BY DEF CallsGood, CallsOK, ForwardInv
<1>1. CASE \E w \in Pipes : AppendOutput(c, w)
  <2>1. PICK w \in Pipes : AppendOutput(c, w)
    BY <1>1
  <2> DEFINE mixed == call[c].mixed \/ \E v \in Pipes \ {w} : call[c].pipe[v] = "appending"
             t     == [call[c] EXCEPT !.pipe[w] = "idle", !.mixed = mixed]
  <2>2. Becomes(c, t)
    BY <2>1 DEF AppendOutput
  <2> HIDE DEF mixed
  <2>3. /\ t.broker = call[c].broker /\ t.pc = call[c].pc /\ t.sinks = call[c].sinks
        /\ t.todo = call[c].todo /\ t.in = call[c].in /\ t.output = call[c].output
        /\ t.sent = call[c].sent /\ t.overlapped = call[c].overlapped
    BY <1>0, FieldNames DEF Fielded
  <2> HIDE DEF t
  <2>4. Kept(c, t)
    BY <1>0, <2>3 DEF Kept
  <2> QED
    BY <1>0, <2>2, <2>4, BecomesKept
<1>2. CASE ~ \E w \in Pipes : AppendOutput(c, w)
  <2>1. UNCHANGED <<load, shared>> /\ \A d \in Calls \ {c} : call'[d] = call[d]
    BY <1>0, <1>2
    DEF CallsOK, Run, AcceptRun, NotPresent, Execute, BrokerAccepts, BrokerServes, CallExecutor,
        DialBroker, StartImpl, CommandExits, WaitReturns, ExecutorGone, StopServer, FinishRun,
        SendLast, ReturnRun, Update, DialTimesOut, WriteOutput, Becomes, Panic
  <2>2. asked[c].type # "ExecutionDone" \/ call'[c] = call[c]
    BY <1>0, <1>2
    DEF Good, Kept, Held, InExecutor, Run, AcceptRun, NotPresent, Execute, BrokerAccepts,
        BrokerServes, CallExecutor, DialBroker, StartImpl, CommandExits, WaitReturns,
        ExecutorGone, StopServer, FinishRun, SendLast, ReturnRun, Update, DialTimesOut,
        WriteOutput
  <2> QED
    BY <2>1, <2>2, SameReports
<1> QED
  BY <1>1, <1>2

\* parseConfig puts the configuration of its call in place, and whoever is in
\* the processor is overlapped.
LEMMA ParseKept ==
  ASSUME CallsGood, ForwardInv, NEW c \in Calls, ParseConfig(c)
  PROVE  ForwardInv'
<1> DEFINE p == call[c].in
           yes == TRUE
<1>1. /\ call[c].pc = "parse" /\ asked' = asked
      /\ shared' = [shared EXCEPT ![p] = asked[c].forward[p]]
      /\ call'[c] = [call[c] EXCEPT !.pc = "write"]
  BY DEF ParseConfig, asked
<1>2. \A d \in Calls \ {c} :
         \/ call'[d] = call[d] /\ ~(call[d].pc = "write" /\ call[d].in = p)
         \/ call'[d] = [call[d] EXCEPT !.overlapped = yes]
  BY DEF ParseConfig, Others
<1>3. yes
  OBVIOUS
<1> HIDE DEF yes
<1>4. \A d \in Calls : Fielded(call[d]) /\ Kept(d, call[d]) /\ Good(d, call[d])
  BY DEF CallsGood, CallsOK, ForwardInv
<1>5. asked[c].type = "ExecutionDone" /\ p \in DOMAIN asked[c].forward
  BY <1>1, <1>4 DEF Good, Kept
<1>6. p \in ProcessorPlugins
  BY <1>5, AskedType DEF CallsGood
<1>7. Kept(c, call[c])'
  <2>1. /\ call'[c].broker = call[c].broker /\ call'[c].pc = "write"
        /\ call'[c].sinks = call[c].sinks /\ call'[c].todo = call[c].todo
        /\ call'[c].in = call[c].in /\ call'[c].output = call[c].output
        /\ call'[c].overlapped = call[c].overlapped
    BY <1>1, <1>4, FieldNames DEF Fielded
  <2>2. shared'[p] = asked[c].forward[p]
    BY <1>1, <1>6 DEF ForwardInv
  <2> QED
    BY SMT, <1>1, <1>4, <2>1, <2>2 DEF Kept, Forwards
<1>8. ASSUME NEW d \in Calls \ {c}
      PROVE  Kept(d, call[d])'
  <2>1. /\ call'[d].broker = call[d].broker /\ call'[d].pc = call[d].pc
        /\ call'[d].sinks = call[d].sinks /\ call'[d].todo = call[d].todo
        /\ call'[d].in = call[d].in /\ call'[d].output = call[d].output
        /\ call'[d].sent = call[d].sent
        /\ call'[d].overlapped \/ /\ call'[d].overlapped = call[d].overlapped
                                  /\ ~(call[d].pc = "write" /\ call[d].in = p)
    BY <1>2, <1>3, <1>4, FieldNames DEF Fielded
  <2>2. \A q \in ProcessorPlugins \ {p} : shared'[q] = shared[q]
    BY <1>1 DEF ForwardInv
  <2>3. asked[d].type = "ExecutionDone" => DOMAIN asked[d].forward \subseteq ProcessorPlugins
    BY AskedType DEF CallsGood
  <2> HIDE DEF p
  <2> QED
    BY SMT, <1>1, <1>4, <2>1, <2>2, <2>3 DEF Kept, Forwards
<1> QED
  BY <1>1, <1>7, <1>8 DEF ForwardInv

\* A processor that forwards gives back what it got.
LEMMA WriteKept ==
  ASSUME CallsGood, ForwardInv, NEW c \in Calls, WriteSink(c)
  PROVE  ForwardInv'
<1> DEFINE p      == call[c].in
           output == IF shared[p] THEN call[c].output ELSE p
           t      == [call[c] EXCEPT !.pc = "process", !.in = "", !.todo = @ \ {p},
                                     !.sinks = @ \cup {<<p, call[c].output>>}, !.output = output]
<1>1. CallsOK /\ Fielded(call[c]) /\ Good(c, call[c]) /\ Kept(c, call[c])
  BY DEF CallsGood, CallsOK, ForwardInv
<1>2. call[c].pc = "write" /\ Becomes(c, t)
  BY DEF WriteSink, Processed
<1>3. ~call[c].overlapped /\ Forwards(c) => output = call[c].output
  BY <1>1, <1>2 DEF Good, Kept, Forwards
<1> HIDE DEF output
<1>4. /\ t.broker = call[c].broker /\ t.pc = "process" /\ t.todo = call[c].todo \ {p}
      /\ t.sinks = call[c].sinks \cup {<<p, call[c].output>>} /\ t.output = output
      /\ t.overlapped = call[c].overlapped
  BY <1>1, FieldNames DEF Fielded
<1> HIDE DEF p, t
<1>5. Kept(c, t)
  BY SMT, <1>1, <1>2, <1>3, <1>4 DEF Kept
<1> QED
  BY <1>1, <1>2, <1>5, BecomesKept

\* The report of an execution.
LEMMA ReportKept ==
  ASSUME CallsGood, ForwardInv, NEW c \in Calls,
         AcceptReport(c) \/ Report(c) \/ ReportFails(c) \/ NoSyslog(c)
  PROVE  ForwardInv'
<1>0. CallsOK /\ Fielded(call[c]) /\ Good(c, call[c]) /\ Kept(c, call[c])
  BY DEF CallsGood, CallsOK, ForwardInv
<1> USE <1>0, FieldNames, BecomesKept DEF Fielded, Kept
<1>1. CASE AcceptReport(c)
  BY <1>1 DEF AcceptReport
<1>2. CASE ReportFails(c)
  BY <1>2 DEF ReportFails
<1>3. CASE NoSyslog(c)
  BY <1>3 DEF NoSyslog
<1>4. CASE \E p \in ProcessorPlugins : SkipProcessor(c, p)
  BY <1>4 DEF SkipProcessor
<1>5. CASE \E p \in ProcessorPlugins : CallProcessor(c, p)
  BY <1>5 DEF CallProcessor
<1>6. CASE ParseConfig(c)
  BY <1>6, ParseKept
<1>7. CASE WriteSink(c)
  BY <1>7, WriteKept
<1>8. CASE ProcessorGone(c)
  BY <1>8, SameReports DEF ProcessorGone, Panic
<1>9. CASE ApplyReport(c)
  BY <1>9 DEF ApplyReport
<1>10. CASE Notify(c)
  <2> DEFINE result == Send(asked[c].notification)
             pc     == IF result = "blocked" THEN "waiting" ELSE "ended"
  <2>1. \/ Panic
        \/ /\ Becomes(c, [call[c] EXCEPT !.pc = pc, !.result = result])
           /\ pc \in {"waiting", "ended"}
    BY <1>10 DEF Notify
  <2> HIDE DEF pc, result
  <2> QED
    BY <2>1, SameReports DEF Panic
<1> QED
  BY <1>1, <1>2, <1>3, <1>4, <1>5, <1>6, <1>7, <1>8, <1>9, <1>10 DEF Report

\* An execution whose processors all forward keeps its output, for any calls and
\* processors, unless two calls were in one processor at the same time
\* (grpc.go:175-186, files_output.go:24-51).
THEOREM ForwardSafe == AgentSpec => []ForwardsOutput
<1>1. AgentInit => ForwardInv
  <2> SUFFICES ASSUME AgentInit
               PROVE  ForwardInv
    OBVIOUS
  <2>1. \A c \in Calls : call[c] = Fresh
    BY DEF AgentInit
  <2>2. Fresh.pc = "none" /\ Fresh.broker = "none" /\ Fresh.sinks = {}
    BY DEF Fresh
  <2> QED
    BY <2>1, <2>2 DEF AgentInit, ForwardInv, Kept
<1>2. DrainInv /\ ForwardInv /\ [AgentNext]_agentVars => ForwardInv'
  <2> SUFFICES ASSUME CallsGood, ForwardInv, [AgentNext]_agentVars
               PROVE  ForwardInv'
    BY DEF DrainInv
  <2>1. ASSUME NEW c \in Calls,
               \/ AcceptRun(c) \/ Run(c) \/ DialTimesOut(c) \/ \E w \in Pipes : WriteOutput(c, w)
               \/ AcceptReport(c) \/ Report(c) \/ ReportFails(c) \/ NoSyslog(c)
        PROVE  ForwardInv'
    BY <2>1, RunKept, ReportKept
  <2>2. CASE \/ Main \/ RetryJoinFails \/ UNCHANGED agentVars
             \/ \E sig \in {"term", "hup"} : Signal(sig)
             \/ \E p \in Plugins : PluginDies(p)
    BY <2>2, SameReports
    DEF Main, Discover, HandleSignal, NoJobsLeft, CleanupClients, Exit, RetryJoinFails, Signal,
        PluginDies, agentVars
  <2> QED
    BY <2>1, <2>2 DEF AgentNext
<1>3. ForwardInv => ForwardsOutput
  BY DEF ForwardInv, Kept, Forwards, ForwardsOutput
<1> QED
  BY <1>1, <1>2, <1>3, InitInv, NextInv, PTL DEF AgentSpec

-----------------------------------------------------------------------------
(* Output. *)

Live(c) == Executor(c) # "" => plugin[Executor(c)] # "dead"

\* A run in state t whose plugin did not die: it calls back only while its
\* command runs, and output is lost only between two pipes.
Whole(c, t) ==
  asked[c].type = "AgentRun" /\ Live(c) =>
    /\ ~t.trailing
    /\ t.pc \notin {"command", "exited"} => \A w \in Pipes : t.pipe[w] = "idle"
    /\ \A w \in Pipes : t.pipe[w] # "idle" => w \in t.wrote
    /\ t.wrote \subseteq Pipes
    /\ t.mixed => Pipes \subseteq t.wrote
    /\ t.pc = "final" => t.output = "all" \/ Pipes \subseteq t.wrote
    /\ t.pc \in {"sent", "ended"} => t.sent = "all" \/ Executor(c) = "" \/ Pipes \subseteq t.wrote

OutputInv == \A c \in Calls : Whole(c, call[c])

\* A step that leaves the runs alone, in which no plugin comes back.
LEMMA SameRuns ==
  ASSUME OutputInv, UNCHANGED load,
         \A c \in Calls : asked[c].type = "AgentRun" /\ Live(c)' => Live(c),
         \A c \in Calls : asked[c].type = "AgentRun" => call'[c] = call[c]
  PROVE  OutputInv'
<1>1. asked' = asked
  BY DEF asked
<1> QED
  BY ZenonT(60), <1>1 DEF OutputInv, Whole, Executor

\* A plugin that is dead stays dead, and so its runs are not live again.
LEMMA DeadStaysDead ==
  ASSUME CallsOK, UNCHANGED load,
         \A p \in Plugins : plugin[p] = "dead" => plugin'[p] = "dead"
  PROVE  \A c \in Calls : asked[c].type = "AgentRun" /\ Live(c)' => Live(c)
<1>1. asked' = asked
  BY DEF asked
<1>2. ASSUME NEW c \in Calls, asked[c].type = "AgentRun", Executor(c) # ""
      PROVE  Executor(c) \in Plugins
  <2>1. asked[c].config \in Shell \cup HTTP \cup RabbitMQ
    BY <1>2, AskedType DEF Executor
  <2> QED
    BY ZenonT(60), <2>1 DEF Executor, Plugins, ExecutorPlugins, Shell, HTTP, RabbitMQ
<1> QED
  BY <1>1, <1>2 DEF Live, Executor

\* What a step in which a call becomes t has to show.
LEMMA BecomesWhole ==
  ASSUME CallsOK, OutputInv, NEW c \in Calls, NEW t, Becomes(c, t), Whole(c, t)
  PROVE  OutputInv'
<1>1. call' = [call EXCEPT ![c] = t] /\ asked' = asked /\ UNCHANGED plugin
  BY DEF Becomes, asked
<1>2. \A d \in Calls : Whole(d, call'[d])
  BY <1>1 DEF CallsOK, OutputInv
<1> QED
  BY <1>1, <1>2 DEF OutputInv, Whole, Live, Executor

\* The executor's side of a run.
LEMMA ExecutorWhole ==
  ASSUME CallsGood, PanicInv, OutputInv, NEW c \in Calls,
         \/ CallExecutor(c) \/ DialBroker(c) \/ DialTimesOut(c) \/ StartImpl(c)
         \/ CommandExits(c) \/ WaitReturns(c) \/ ExecutorGone(c)
         \/ \E w \in Pipes : WriteOutput(c, w) \/ AppendOutput(c, w)
  PROVE  OutputInv'
<1>0. /\ CallsOK /\ Fielded(call[c]) /\ Good(c, call[c]) /\ Whole(c, call[c])
      /\ call[c].pipe = [w \in Pipes |-> call[c].pipe[w]]
  BY DEF CallsGood, CallsOK, PanicInv, OutputInv, Sure
<1> USE <1>0, FieldNames, BecomesWhole DEF Fielded, Whole
<1>1. CASE CallExecutor(c)
  BY <1>1 DEF CallExecutor
<1>2. CASE DialBroker(c)
  BY <1>2 DEF DialBroker
<1>3. CASE DialTimesOut(c)
  BY <1>3 DEF DialTimesOut
<1>4. CASE StartImpl(c)
  <2> DEFINE result == ExecuteImpl(asked[c].config)
  <2>1. CASE result = "panic"
    <3>1. plugin' = [plugin EXCEPT ![Executor(c)] = "dead"] /\ UNCHANGED <<load, call>>
      BY <1>4, <2>1 DEF StartImpl
    <3>2. \A d \in Calls : asked[d].type = "AgentRun" /\ Live(d)' => Live(d)
      BY <3>1, DeadStaysDead DEF CallsGood, PanicInv
    <3> QED
      BY <3>1, <3>2, SameRuns
  <2>2. CASE result # "panic"
    <3> DEFINE pc == CASE result = "started" -> "command"
                       [] result = "blocked" -> "blocked"
                       [] OTHER              -> "returned"
    <3>1. /\ Becomes(c, [call[c] EXCEPT !.pc = pc, !.result = result]) /\ call[c].pc = "starting"
          /\ pc \in {"command", "blocked", "returned"}
      BY <1>4, <2>2 DEF StartImpl
    <3> HIDE DEF pc, result
    <3> QED
      BY <3>1
  <2> QED
    BY <2>1, <2>2
<1>5. CASE CommandExits(c)
  BY <1>5 DEF CommandExits
<1>6. CASE WaitReturns(c)
  <2> DEFINE result == IF asked[c].config.exit = 0 THEN "ok" ELSE "error"
  <2>1. /\ Becomes(c, [call[c] EXCEPT !.pc = "returned", !.result = result])
        /\ \A w \in Pipes : call[c].pipe[w] = "idle"
    BY <1>6 DEF WaitReturns
  <2> HIDE DEF result
  <2> QED
    BY <2>1
<1>7. CASE ExecutorGone(c)
  BY <1>7 DEF ExecutorGone, Good, Held, Live
<1>8. CASE \E w \in Pipes : WriteOutput(c, w)
  BY <1>8 DEF WriteOutput
<1>9. CASE \E w \in Pipes : AppendOutput(c, w)
  <2>1. PICK w \in Pipes : AppendOutput(c, w)
    BY <1>9
  <2> DEFINE mixed == call[c].mixed \/ \E v \in Pipes \ {w} : call[c].pipe[v] = "appending"
             t     == [call[c] EXCEPT !.pipe[w] = "idle", !.mixed = mixed]
  <2>2. Becomes(c, t) /\ call[c].pipe[w] = "appending"
    BY <2>1 DEF AppendOutput
  <2>3. asked[c].type = "AgentRun" /\ Live(c) /\ mixed => Pipes \subseteq call[c].wrote
    BY <2>2 DEF Pipes
  <2> HIDE DEF mixed
  <2>4. /\ t.trailing = call[c].trailing /\ t.pc = call[c].pc /\ t.wrote = call[c].wrote
        /\ t.mixed = mixed /\ t.output = call[c].output /\ t.sent = call[c].sent
        /\ \A v \in Pipes : t.pipe[v] = IF v = w THEN "idle" ELSE call[c].pipe[v]
    OBVIOUS
  <2> HIDE DEF t
  <2>5. Whole(c, t)
    BY ZenonT(60), <2>3, <2>4
  <2> QED
    BY <2>2, <2>5
<1> QED
  BY <1>1, <1>2, <1>3, <1>4, <1>5, <1>6, <1>7, <1>8, <1>9

\* The agent's side of a run.
LEMMA RunWhole ==
  ASSUME CallsGood, PanicInv, OutputInv, NEW c \in Calls,
         \/ AcceptRun(c) \/ NotPresent(c) \/ BrokerAccepts(c) \/ BrokerServes(c)
         \/ StopServer(c) \/ SendLast(c) \/ ReturnRun(c)
         \/ \E w \in Pipes : Update(c, w)
  PROVE  OutputInv'
<1>0. /\ CallsOK /\ Fielded(call[c]) /\ Whole(c, call[c])
      /\ call[c].pipe = [w \in Pipes |-> call[c].pipe[w]]
  BY DEF CallsGood, CallsOK, PanicInv, OutputInv, Sure
<1> USE <1>0, FieldNames, BecomesWhole DEF Fielded, Whole
<1>1. CASE AcceptRun(c)
  BY <1>1 DEF AcceptRun
<1>2. CASE NotPresent(c)
  BY <1>2 DEF NotPresent
<1>3. CASE BrokerAccepts(c)
  BY <1>3 DEF BrokerAccepts
<1>4. CASE BrokerServes(c)
  BY <1>4 DEF BrokerServes
<1>5. CASE StopServer(c)
  <2>1. CASE call[c].broker = "serving"
    BY <1>5, <2>1 DEF StopServer
  <2>2. CASE call[c].broker # "serving"
    BY <1>5, <2>2, SameRuns, DeadStaysDead DEF StopServer, Panic
  <2> QED
    BY <2>1, <2>2
<1>6. CASE SendLast(c)
  BY <1>6 DEF SendLast
<1>7. CASE ReturnRun(c)
  BY <1>7 DEF ReturnRun
<1>8. CASE \E w \in Pipes : Update(c, w)
  <2>1. PICK w \in Pipes : Update(c, w)
    BY <1>8
  <2> DEFINE trailing == call[c].trailing \/ call[c].pc = "sent"
  <2>2. /\ call[c].pipe[w] = "calling"
        /\ Becomes(c, [call[c] EXCEPT !.pipe[w] = "appending", !.output = "piece",
                                      !.trailing = trailing])
    BY <2>1 DEF Update
  <2>3. asked[c].type = "AgentRun" /\ Live(c)
          => ~trailing /\ call[c].pc \in {"command", "exited"}
    BY <2>2
  <2> HIDE DEF trailing
  <2> QED
    BY <2>2, <2>3
<1> QED
  BY <1>1, <1>2, <1>3, <1>4, <1>5, <1>6, <1>7, <1>8

\* The steps of a run that change what counts as running.
LEMMA CountWhole ==
  ASSUME CallsGood, OutputInv, NEW c \in Calls, Execute(c) \/ FinishRun(c)
  PROVE  OutputInv'
<1> DEFINE late == agent \in {"cleaning", "leaving"}
           output == IF call[c].mixed THEN "mixed" ELSE "all"
<1>1. UNCHANGED <<plugin, load>> /\ asked' = asked
  BY DEF Execute, FinishRun, asked
<1>2. \/ /\ call' = [call EXCEPT ![c].pc = "calling", ![c].broker = "pending", ![c].uncounted = late]
         /\ call[c].pc = "accepted"
      \/ /\ call' = [call EXCEPT ![c].pc = "final", ![c].output = output]
         /\ call[c].pc = "finishing"
  BY DEF Execute, FinishRun
<1>3. ~call[c].mixed => output = "all"
  OBVIOUS
<1> HIDE DEF late, output
<1> USE DEF CallsGood, CallsOK, OutputInv
<1>4. Whole(c, call'[c])
  <2>1. Fielded(call[c]) /\ Whole(c, call[c])
    OBVIOUS
  <2>2. /\ call'[c].pipe = call[c].pipe /\ call'[c].trailing = call[c].trailing
        /\ call'[c].wrote = call[c].wrote /\ call'[c].mixed = call[c].mixed
        /\ \/ call'[c].pc = "calling" /\ call[c].pc = "accepted"
           \/ call'[c].pc = "final" /\ call[c].pc = "finishing" /\ call'[c].output = output
    <3>1. \/ /\ call'[c] = [call[c] EXCEPT !.pc = "calling", !.broker = "pending", !.uncounted = late]
             /\ call[c].pc = "accepted"
          \/ /\ call'[c] = [call[c] EXCEPT !.pc = "final", !.output = output]
             /\ call[c].pc = "finishing"
      BY <1>2
    <3> QED
      BY ZenonT(60), <2>1, <3>1, FieldNames DEF Fielded
  <2> QED
    BY <1>3, <2>1, <2>2 DEF Whole
<1>5. \A d \in Calls \ {c} : call'[d] = call[d]
  BY <1>2
<1>6. \A d \in Calls : Whole(d, call'[d])
  BY <1>4, <1>5
<1> QED
  BY <1>1, <1>6 DEF Whole, Live, Executor

\* A report leaves the runs alone.
LEMMA ReportWhole ==
  ASSUME CallsGood, OutputInv, NEW c \in Calls,
         AcceptReport(c) \/ Report(c) \/ ReportFails(c) \/ NoSyslog(c)
  PROVE  OutputInv'
<1>1. UNCHANGED <<plugin, load>>
  BY DEF Report, ParseConfig, WriteSink, ProcessorGone, ApplyReport, Notify, SkipProcessor,
         CallProcessor, AcceptReport, ReportFails, NoSyslog, Becomes, Panic
<1>2. \A d \in Calls : asked[d].type = "AgentRun" => call'[d] = call[d]
  <2>1. CASE ParseConfig(c)
    BY <2>1 DEF ParseConfig, Others, CallsGood, Good
  <2>2. CASE ~ParseConfig(c)
    <3>1. UNCHANGED call \/ \E t : call' = [call EXCEPT ![c] = t]
      BY <2>2 DEF Report, WriteSink, ProcessorGone, ApplyReport, Notify, SkipProcessor,
                  CallProcessor, AcceptReport, ReportFails, NoSyslog, Becomes, Panic
    <3>2. asked[c].type # "AgentRun" \/ UNCHANGED call
      BY <2>2 DEF CallsGood, Good, Report, WriteSink, ProcessorGone, ApplyReport, Notify,
                  SkipProcessor, CallProcessor, AcceptReport, ReportFails, NoSyslog
    <3> QED
      BY <3>1, <3>2 DEF CallsGood, CallsOK
  <2> QED
    BY <2>1, <2>2
<1> QED
  BY <1>1, <1>2, SameRuns, DeadStaysDead DEF CallsGood

\* The runs that a shutdown cuts keep their output.
LEMMA CleanupWhole ==
  ASSUME CallsGood, OutputInv, CleanupClients
  PROVE  OutputInv'
<1>1. /\ asked' = asked /\ UNCHANGED load
      /\ \A p \in Plugins : plugin[p] = "dead" => plugin'[p] = "dead"
  BY DEF CleanupClients, asked
<1>2. ASSUME NEW c \in Calls, Live(c)', asked[c].type = "AgentRun"
      PROVE  Live(c)
  BY <1>1, <1>2, DeadStaysDead DEF CallsGood
<1>3. ASSUME NEW c \in Calls
      PROVE  /\ call'[c].pipe = call[c].pipe /\ call'[c].trailing = call[c].trailing
             /\ call'[c].wrote = call[c].wrote /\ call'[c].mixed = call[c].mixed
             /\ call'[c].pc = call[c].pc /\ call'[c].output = call[c].output
             /\ call'[c].sent = call[c].sent
  <2> DEFINE alive == plugin[Executor(c)] = "alive"
  <2>1. call'[c] = call[c] \/ call'[c] = [call[c] EXCEPT !.cut = alive]
    BY DEF CleanupClients
  <2> HIDE DEF alive
  <2> QED
    BY <2>1, FieldNames DEF CallsGood, CallsOK, Fielded
<1>4. ASSUME NEW c \in Calls
      PROVE  Whole(c, call[c])'
  <2>1. Executor(c)' = Executor(c) /\ Whole(c, call[c])
    BY <1>1 DEF Executor, OutputInv
  <2>2. CASE ~(asked[c].type = "AgentRun" /\ Live(c)')
    BY <1>1, <2>2 DEF Whole
  <2>3. CASE asked[c].type = "AgentRun" /\ Live(c)'
    <3>1. Live(c)
      BY <1>2, <2>3
    <3> QED
      BY <1>3, <2>1, <2>3, <3>1 DEF Whole
  <2> QED
    BY <2>2, <2>3
<1> QED
  BY <1>4 DEF OutputInv

\* Unless its plugin died, the final message of a run is the last one and whole,
\* but for a command that writes to both pipes, for any calls and any output
\* (shell.go:35-38, 73-75, 109, grpc_agent.go:24-33, 110-119).
THEOREM FinalSafe == AgentSpec => []FinalIsLast
<1>1. AgentInit => OutputInv
  <2> SUFFICES ASSUME AgentInit
               PROVE  OutputInv
    OBVIOUS
  <2>1. \A c \in Calls : call[c] = Fresh
    BY DEF AgentInit
  <2>2. /\ Fresh.pc = "none" /\ Fresh.trailing = FALSE /\ Fresh.mixed = FALSE
        /\ Fresh.wrote = {} /\ \A w \in Pipes : Fresh.pipe[w] = "idle"
    BY DEF Fresh
  <2> QED
    BY <2>1, <2>2 DEF OutputInv, Whole
<1>2. DrainInv /\ PanicInv /\ OutputInv /\ [AgentNext]_agentVars => OutputInv'
  <2> SUFFICES ASSUME CallsGood, PanicInv, OutputInv, [AgentNext]_agentVars
               PROVE  OutputInv'
    BY DEF DrainInv
  <2>1. ASSUME NEW c \in Calls,
               \/ AcceptRun(c) \/ Run(c) \/ DialTimesOut(c) \/ \E w \in Pipes : WriteOutput(c, w)
               \/ AcceptReport(c) \/ Report(c) \/ ReportFails(c) \/ NoSyslog(c)
        PROVE  OutputInv'
    BY <2>1, RunWhole, ExecutorWhole, CountWhole, ReportWhole DEF Run
  <2>2. CASE CleanupClients
    BY <2>2, CleanupWhole
  <2>3. CASE \/ (Main /\ ~CleanupClients) \/ RetryJoinFails \/ UNCHANGED agentVars
             \/ \E sig \in {"term", "hup"} : Signal(sig)
             \/ \E p \in Plugins : PluginDies(p)
    <3>1. \A p \in Plugins : plugin[p] = "dead" => plugin'[p] = "dead"
      BY <2>3
      DEF Main, Discover, HandleSignal, NoJobsLeft, Exit, RetryJoinFails, Signal, PluginDies,
          agentVars, PanicInv, Dead
    <3>2. UNCHANGED <<load, call>>
      BY <2>3
      DEF Main, Discover, HandleSignal, NoJobsLeft, Exit, RetryJoinFails, Signal, PluginDies,
          agentVars
    <3> QED
      BY <3>1, <3>2, SameRuns, DeadStaysDead DEF CallsGood
  <2> QED
    BY <2>1, <2>2, <2>3 DEF AgentNext, Main
<1>3. OutputInv => FinalIsLast
  <2> SUFFICES ASSUME OutputInv
               PROVE  FinalIsLast
    OBVIOUS
  <2>1. \A c \in Calls : Whole(c, call[c])
    BY DEF OutputInv
  <2> QED
    BY <2>1 DEF Whole, Live, FinalIsLast
<1> QED
  BY <1>1, <1>2, <1>3, InitInv, NextInv, PanicInit, PanicNext, PTL DEF AgentSpec

-----------------------------------------------------------------------------
(* The choice of the nodes of a job. *)

\* The theorems about finite sets, and the same two notions by name.
Finite == INSTANCE FiniteSetTheorems

\* Finite!IsFiniteSet and Finite!Cardinality are IsFiniteSet and Cardinality.
LEMMA FiniteIs ==
  \A S : (IsFiniteSet(S) <=> Finite!IsFiniteSet(S)) /\ Cardinality(S) = Finite!Cardinality(S)
  BY DEF IsFiniteSet, Finite!IsFiniteSet, Cardinality, Finite!Cardinality

\* A part of a finite set is finite and no larger.
LEMMA PartOf ==
  ASSUME NEW S, IsFiniteSet(S), NEW T \in SUBSET S
  PROVE  /\ IsFiniteSet(T) /\ Cardinality(T) <= Cardinality(S)
         /\ Cardinality(S) \in Nat /\ Cardinality(T) \in Nat
<1>1. Finite!IsFiniteSet(T) /\ Finite!Cardinality(T) <= Finite!Cardinality(S)
  BY FiniteIs, Finite!FS_Subset
<1>2. Finite!Cardinality(S) \in Nat /\ Finite!Cardinality(T) \in Nat
  BY <1>1, FiniteIs, Finite!FS_CardinalityType
<1> QED
  BY <1>1, <1>2, FiniteIs

\* Every state of a selection is well formed.
THEOREM TypeCorrect == Spec => []TypeOK
  <1>1. Init => TypeOK
    BY SMT, TargetAssumption DEF Init, TypeOK
  <1>2. TypeOK /\ [Next]_vars => TypeOK'
    <2> SUFFICES ASSUME TypeOK, [Next]_vars PROVE TypeOK'
      OBVIOUS
    <2>1. ASSUME NEW k \in Keys, Collect(k) PROVE TypeOK'
      <3>1. PICK chosen \in Choices(k) : candidates' = [candidates EXCEPT ![k] = chosen]
        BY <2>1 DEF Collect
      <3>2. chosen \subseteq Nodes
        BY DEF Choices, Having
      <3> QED
        BY <2>1, <3>1, <3>2 DEF Collect, TypeOK
    <2>2. ASSUME NEW k \in Keys, BadCount(k) PROVE TypeOK'
      BY <2>2 DEF BadCount, TypeOK
    <2>3. CASE Intersect
      BY <2>3 DEF Intersect, Intersection, TypeOK
    <2>4. ASSUME NEW n \in Nodes, Resolve(n) PROVE TypeOK'
      BY <2>4 DEF Resolve, TypeOK
    <2>5. CASE Dispatch
      BY <2>5 DEF Dispatch, TypeOK
    <2>6. ASSUME NEW n \in Nodes, NEW s \in {"none", "alive", "failed", "left"}, Change(n, s)
          PROVE  TypeOK'
      BY SMT, <2>6, TargetAssumption DEF Change, TypeOK
    <2>7. CASE UNCHANGED vars
      BY <2>7 DEF vars, TypeOK
    <2> QED
      BY <2>1, <2>2, <2>3, <2>4, <2>5, <2>6, <2>7 DEF Next
  <1> QED
    BY <1>1, <1>2, PTL DEF Spec

-----------------------------------------------------------------------------
(* Never more nodes than a count, and only nodes with every tag. *)

\* What a tag that was looked at has collected.
Collected ==
  \A k \in Keys \ pending :
    /\ count[k] # Bad
    /\ \A n \in candidates[k] : k \in has[n]
    /\ count[k] # All => Cardinality(candidates[k]) <= count[k]

\* The nodes chosen so far were collected for every tag.
Chosen ==
  /\ phase \in {"resolve", "dispatched"} => pending = {}
  /\ \A n \in targets \cup unresolved : pending = {} /\ \A k \in Keys : n \in candidates[k]

ChoiceInv == Collected /\ Chosen

\* The choice for a tag has the tag and at most its count.
LEMMA ChoicesBounded ==
  ASSUME TypeOK, NEW k \in Keys, count[k] # Bad, NEW chosen \in Choices(k)
  PROVE  /\ chosen \subseteq Having(k)
         /\ count[k] # All => Cardinality(chosen) <= count[k]
  <1>1. chosen \subseteq Having(k)
    BY DEF Choices
  <1>2. ASSUME count[k] # All PROVE Cardinality(chosen) <= count[k]
    <2>1. count[k] \in Nat
      BY <1>2 DEF TypeOK
    <2>2. IsFiniteSet(Having(k))
      BY TargetAssumption, PartOf DEF Having
    <2>3. Cardinality(Having(k)) \in Nat
      BY <2>2, PartOf
    <2>4. Cardinality(chosen) = IF Cardinality(Having(k)) < count[k] THEN Cardinality(Having(k))
                                                                     ELSE count[k]
      BY <1>2 DEF Choices
    <2> QED
      BY SMT, <2>1, <2>3, <2>4
  <1> QED
    BY <1>1, <1>2

\* Initially nothing is chosen.
LEMMA ChoiceInit == Init => ChoiceInv
  BY DEF Init, ChoiceInv, Collected, Chosen

\* Every step keeps the invariant of the choice.
LEMMA ChoiceStep == TypeOK /\ ChoiceInv /\ [Next]_vars => ChoiceInv'
  <1> SUFFICES ASSUME TypeOK, ChoiceInv, [Next]_vars PROVE ChoiceInv'
    OBVIOUS
  <1> USE DEF ChoiceInv
  <1>1. ASSUME NEW k \in Keys, Collect(k) PROVE ChoiceInv'
    <2>1. PICK chosen \in Choices(k) : candidates' = [candidates EXCEPT ![k] = chosen]
      BY <1>1 DEF Collect
    <2>2. count[k] # Bad /\ pending' = pending \ {k} /\ k \in pending /\ phase = "filter"
          /\ UNCHANGED <<has, count, targets, unresolved, phase>>
      BY <1>1 DEF Collect
    <2>3. /\ \A n \in chosen : k \in has[n]
          /\ count[k] # All => Cardinality(chosen) <= count[k]
      BY <2>1, <2>2, ChoicesBounded DEF Having
    <2>4. candidates'[k] = chosen /\ \A l \in Keys \ {k} : candidates'[l] = candidates[l]
      BY <2>1 DEF TypeOK
    <2>5. Collected'
      BY <2>2, <2>3, <2>4 DEF Collected
    <2>6. Chosen'
      BY <2>2 DEF Chosen
    <2> QED
      BY <2>5, <2>6
  <1>2. ASSUME NEW k \in Keys, BadCount(k) PROVE ChoiceInv'
    BY <1>2 DEF BadCount, Collected, Chosen
  <1>3. CASE Intersect
    BY <1>3 DEF Intersect, Intersection, Collected, Chosen
  <1>4. ASSUME NEW n \in Nodes, Resolve(n) PROVE ChoiceInv'
    BY <1>4 DEF Resolve, Collected, Chosen
  <1>5. CASE Dispatch
    BY <1>5 DEF Dispatch, Collected, Chosen
  <1>6. ASSUME NEW n \in Nodes, NEW s \in {"none", "alive", "failed", "left"}, Change(n, s)
        PROVE  ChoiceInv'
    BY <1>6 DEF Change, Collected, Chosen
  <1>7. CASE UNCHANGED vars
    BY <1>7 DEF vars, Collected, Chosen
  <1> QED
    BY <1>1, <1>2, <1>3, <1>4, <1>5, <1>6, <1>7 DEF Next

\* However the membership changes meanwhile, a job never runs on more nodes
\* than any of its counts allows.
THEOREM CountSafe == Spec => []AtMostCount
  <1>1. TypeOK /\ ChoiceInv => AtMostCount
    <2> SUFFICES ASSUME TypeOK, ChoiceInv, NEW k \in Counted, targets # {}
                 PROVE  Cardinality(targets) <= count[k]
      BY DEF AtMostCount
    <2>1. k \in Keys \ pending /\ targets \subseteq candidates[k]
      BY DEF ChoiceInv, Chosen, Counted
    <2>2. Cardinality(candidates[k]) <= count[k] /\ count[k] \in Nat
      BY <2>1 DEF ChoiceInv, Collected, Counted, TypeOK
    <2>3. IsFiniteSet(candidates[k])
      BY <2>1, TargetAssumption, PartOf DEF TypeOK
    <2>4. Cardinality(targets) <= Cardinality(candidates[k])
          /\ Cardinality(targets) \in Nat /\ Cardinality(candidates[k]) \in Nat
      BY <2>1, <2>3, PartOf
    <2> QED
      BY SMT, <2>2, <2>4
  <1> QED
    BY <1>1, ChoiceInit, ChoiceStep, TypeCorrect, PTL DEF Spec

\* Every node the job runs on has all the tags of the job.
THEOREM TagsSafe == Spec => []HaveAllTags
  <1>1. TypeOK /\ ChoiceInv => HaveAllTags
    <2> SUFFICES ASSUME TypeOK, ChoiceInv, NEW n \in targets PROVE has[n] = Keys
      BY DEF HaveAllTags
    <2>1. \A k \in Keys : k \in has[n]
      BY DEF ChoiceInv, Chosen, Collected
    <2> QED
      BY <2>1 DEF TypeOK
  <1> QED
    BY <1>1, ChoiceInit, ChoiceStep, TypeCorrect, PTL DEF Spec

-----------------------------------------------------------------------------
(* As many nodes as a count asks for, while the membership is stable. *)

\* The choice is over: the intersection was taken and every address looked up.
Over == phase = "dispatched" \/ (phase = "failed" /\ pending = {})

\* While no member changes, what was collected is still a choice of the tag, and
\* no node of the intersection gets lost.
StableInv ==
  changes = 0 =>
    /\ \A k \in Keys \ pending : candidates[k] \in Choices(k)
    /\ phase = "filter" => targets = {}
    /\ phase = "resolve" \/ Over => pending = {} /\ targets \cup unresolved = Intersection
    /\ Over => unresolved = {}

\* Initially nothing was collected.
LEMMA StableInit == Init => StableInv
  BY DEF Init, StableInv, Over

\* A node collected for every tag is a member.
LEMMA CollectedAlive ==
  ASSUME pending = {}, \A k \in Keys \ pending : candidates[k] \in Choices(k), NEW n \in Intersection
  PROVE  status[n] = "alive"
  <1>1. Region \in Keys
    BY TargetAssumption
  <1>2. candidates[Region] \in Choices(Region) /\ n \in candidates[Region]
    BY <1>1 DEF Intersection
  <1>3. candidates[Region] \subseteq Having(Region)
    BY <1>2 DEF Choices
  <1> QED
    BY <1>2, <1>3 DEF Having

\* Every step keeps the invariant of the stable choice.
LEMMA StableStep == TypeOK /\ StableInv /\ [Next]_vars => StableInv'
  <1> SUFFICES ASSUME TypeOK, StableInv, [Next]_vars, changes' = 0 PROVE StableInv'
    BY DEF StableInv
  <1>0. UNCHANGED <<status, has, count>> => \A k : Choices(k)' = Choices(k)
    BY DEF Choices, Having
  <1>1. ASSUME NEW k \in Keys, Collect(k) PROVE StableInv'
    <2>1. PICK chosen \in Choices(k) : candidates' = [candidates EXCEPT ![k] = chosen]
      BY <1>1 DEF Collect
    <2>2. pending' = pending \ {k} /\ phase = "filter"
          /\ UNCHANGED <<status, has, count, targets, unresolved, phase, changes>>
      BY <1>1 DEF Collect
    <2>3. candidates'[k] = chosen /\ \A l \in Keys \ {k} : candidates'[l] = candidates[l]
      BY <2>1 DEF TypeOK
    <2>4. \A l \in Keys \ pending' : candidates'[l] \in Choices(l)'
      BY <1>0, <2>2, <2>3 DEF StableInv
    <2> QED
      BY <2>2, <2>4 DEF StableInv, Over
  <1>2. ASSUME NEW k \in Keys, BadCount(k) PROVE StableInv'
    <2>1. k \in pending /\ phase' = "failed"
          /\ UNCHANGED <<status, has, count, pending, candidates, changes>>
      BY <1>2 DEF BadCount
    <2> QED
      BY <1>0, <2>1 DEF StableInv, Over
  <1>3. CASE Intersect
    <2>1. phase = "filter" /\ pending = {} /\ unresolved' = Intersection /\ phase' = "resolve"
          /\ UNCHANGED <<status, has, count, pending, candidates, targets, changes>>
      BY <1>3 DEF Intersect
    <2>2. Intersection' = Intersection
      BY <2>1 DEF Intersection
    <2> QED
      BY <1>0, <2>1, <2>2 DEF StableInv, Over
  <1>4. ASSUME NEW n \in Nodes, Resolve(n) PROVE StableInv'
    <2>1. phase = "resolve" /\ n \in unresolved /\ unresolved' = unresolved \ {n}
          /\ targets' = (IF status[n] = "none" THEN targets ELSE targets \cup {n})
          /\ UNCHANGED <<status, has, count, pending, candidates, phase, changes>>
      BY <1>4 DEF Resolve
    <2>2. status[n] = "alive"
      BY <2>1, CollectedAlive DEF StableInv
    <2>3. Intersection' = Intersection
      BY <2>1 DEF Intersection
    <2> QED
      BY <1>0, <2>1, <2>2, <2>3 DEF StableInv, Over
  <1>5. CASE Dispatch
    <2>1. phase = "resolve" /\ unresolved = {} /\ phase' \in {"failed", "dispatched"}
          /\ UNCHANGED <<status, has, count, pending, candidates, unresolved, targets, changes>>
      BY <1>5 DEF Dispatch
    <2>2. Intersection' = Intersection
      BY <2>1 DEF Intersection
    <2> QED
      BY <1>0, <2>1, <2>2 DEF StableInv, Over
  <1>6. ASSUME NEW n \in Nodes, NEW s \in {"none", "alive", "failed", "left"}, Change(n, s)
        PROVE  StableInv'
    <2>1. changes \in Nat /\ changes' = changes + 1
      BY SMT, <1>6 DEF Change, TypeOK
    <2> QED
      BY SMT, <2>1
  <1>7. CASE UNCHANGED vars
    <2>1. Intersection' = Intersection
      BY <1>7 DEF vars, Intersection
    <2> QED
      BY <1>0, <1>7, <2>1 DEF vars, StableInv, Over
  <1> QED
    BY <1>1, <1>2, <1>3, <1>4, <1>5, <1>6, <1>7 DEF Next

\* While the membership is stable and at most one tag has a count, which tells
\* no more nodes apart than the others do, the job runs on as many nodes as the
\* count asks for and are there, on all that are eligible if there is no count
\* (agent.go:706-740).
THEOREM EnoughSafe == Spec => []EnoughTargets
  <1>1. TypeOK /\ StableInv => EnoughTargets
    <2> SUFFICES ASSUME TypeOK, StableInv, Over, changes = 0,
                        \A k, l \in Counted : k = l, \A k \in Counted : Having(k) = Eligible
                 PROVE  IF Counted = {} THEN targets = Eligible
                        ELSE \A k \in Counted :
                               Cardinality(targets) = IF Cardinality(Eligible) < count[k]
                                                        THEN Cardinality(Eligible) ELSE count[k]
      BY DEF EnoughTargets, Over
    <2>1. targets = Intersection /\ \A k \in Keys : candidates[k] \in Choices(k)
      BY DEF StableInv
    <2>2. \A k \in Keys \ Counted : candidates[k] = Having(k)
      BY <2>1 DEF Counted, Choices
    <2>3. \A n \in Nodes : n \in Eligible <=> \A k \in Keys : n \in Having(k)
      <3>1. Region \in Keys
        BY TargetAssumption
      <3>2. \A n \in Nodes : has[n] \subseteq Keys
        BY DEF TypeOK
      <3> QED
        BY <3>1, <3>2 DEF Eligible, Having
    <2>4. CASE Counted = {}
      BY SMT, <2>1, <2>2, <2>3, <2>4 DEF Intersection, Eligible
    <2>5. ASSUME NEW k \in Counted
          PROVE  Cardinality(targets) = IF Cardinality(Eligible) < count[k]
                                          THEN Cardinality(Eligible) ELSE count[k]
      <3>1. k \in Keys /\ count[k] # All
        BY DEF Counted
      <3>2. /\ candidates[k] \subseteq Eligible
            /\ Cardinality(candidates[k]) = IF Cardinality(Eligible) < count[k]
                                              THEN Cardinality(Eligible) ELSE count[k]
        BY <2>1, <3>1 DEF Choices
      <3>3. \A l \in Keys \ {k} : candidates[l] = Having(l)
        BY <2>2
      <3>4. targets = candidates[k]
        BY SMT, <2>1, <2>3, <3>1, <3>2, <3>3 DEF Intersection, Eligible
      <3> QED
        BY <3>2, <3>4
    <2> QED
      BY <2>4, <2>5
  <1> QED
    BY <1>1, StableInit, StableStep, TypeCorrect, PTL DEF Spec

=============================================================================
