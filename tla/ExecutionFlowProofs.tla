------------------------ MODULE ExecutionFlowProofs -------------------------
(***************************************************************************)
(* Machine-checked proofs about ExecutionFlow, for any nodes, groups,      *)
(* retries and times, and any number of broken streams and crashes: the    *)
(* invariant of each dispatch, what every step keeps of it, and the safety *)
(* properties that follow.                                                 *)
(***************************************************************************)
EXTENDS ExecutionFlow, TLAPS

\* Zenon checks every step that does not name SMT.
USE Zenon

-----------------------------------------------------------------------------
(* Dispatches. *)

\* The first attempts have the empty path.
LEMMA EmptyPath == <<>> \in Paths /\ Len(<<>>) = 0
<1>1. 0 \in 0..MaxRetries
  BY SMT, FlowAssumption
<1>2. <<>> \in [1..0 -> By]
  BY SMT
<1> QED
  BY <1>1, <1>2 DEF Paths

\* A path is a sequence of at most MaxRetries reports.
LEMMA PathType ==
  ASSUME NEW p \in Paths
  PROVE  /\ p \in Seq(By)
         /\ Len(p) \in 0..MaxRetries
         /\ p \in [1..Len(p) -> By]
<1>1. PICK k \in 0..MaxRetries : p \in [1..k -> By]
  BY DEF Paths
<1>2. k \in Nat
  BY SMT, <1>1, FlowAssumption
<1> QED
  BY SMT, <1>1, <1>2

\* A path that is not full can be extended.
LEMMA PathExtends ==
  ASSUME NEW p \in Paths, NEW by \in By, Len(p) < MaxRetries
  PROVE  /\ Append(p, by) \in Paths
         /\ Len(Append(p, by)) = Len(p) + 1
         /\ Append(p, by)[Len(p) + 1] = by
         /\ \A i \in 1..Len(p) : Append(p, by)[i] = p[i]
<1>1. p \in Seq(By) /\ Len(p) \in 0..MaxRetries
  BY PathType
<1>2. Append(p, by) \in Seq(By) /\ Len(Append(p, by)) = Len(p) + 1
  BY SMT, <1>1
<1>3. Append(p, by) \in [1..(Len(p) + 1) -> By]
  <2> DEFINE q == Append(p, by)
  <2> HIDE DEF q
  <2>1. q \in Seq(By) => q \in [1..Len(q) -> By]
    BY SMT
  <2> QED
    BY <1>2, <2>1 DEF q
<1>4. Len(p) + 1 \in 0..MaxRetries
  BY SMT, <1>1, FlowAssumption
<1>5. Append(p, by) \in Paths
  BY <1>3, <1>4 DEF Paths
<1> QED
  BY SMT, <1>1, <1>2, <1>5

\* The parts of a dispatch.
LEMMA DispatchType ==
  ASSUME NEW d \in Dispatches
  PROVE  /\ d[1] \in Groups /\ d[1] \in Nat \ {0}
         /\ d[2] \in Nodes
         /\ d[3] \in Paths
         /\ d = <<d[1], d[2], d[3]>>
<1>1. d \in Groups \X Nodes \X Paths
  BY DEF Dispatches
<1>2. Groups \subseteq Nat \ {0}
  BY FlowAssumption
<1>3. d[1] \in Groups /\ d[2] \in Nodes /\ d[3] \in Paths /\ d = <<d[1], d[2], d[3]>>
  BY SMT, <1>1
<1> QED
  BY <1>2, <1>3

\* A failed report within the bound of the plan names another dispatch, and no
\* other report names the same one.
LEMMA RetryType ==
  ASSUME plan \in Plan, NEW d \in Dispatches, NEW by \in By, Attempt(d) < plan.retries + 1
  PROVE  /\ Retry(d, by) \in Dispatches
         /\ Retry(d, by)[1] = d[1] /\ Retry(d, by)[2] = d[2]
         /\ Retry(d, by)[3] = Append(d[3], by)
         /\ Len(Retry(d, by)[3]) = Len(d[3]) + 1
<1>1. plan.retries \in 0..MaxRetries
  BY DEF Plan
<1>2. d[3] \in Paths /\ Len(d[3]) \in Nat
  BY SMT, DispatchType, PathType
<1>3. Len(d[3]) < MaxRetries
  BY SMT, <1>1, <1>2, FlowAssumption DEF Attempt
<1>4. Append(d[3], by) \in Paths /\ Len(Append(d[3], by)) = Len(d[3]) + 1
  BY <1>2, <1>3, PathExtends
<1> QED
  BY <1>4, DispatchType DEF Retry, Dispatches

\* No two reports lead to the same dispatch, and none to a first attempt.
LEMMA RetryInjective ==
  ASSUME NEW c \in Dispatches, NEW d \in Dispatches, NEW b \in By, NEW by \in By,
         Retry(c, b) = Retry(d, by)
  PROVE  c = d /\ b = by
<1>1. /\ c[1] = d[1] /\ c[2] = d[2]
      /\ Append(c[3], b) = Append(d[3], by)
  BY DEF Retry
<1>2. c[3] \in Seq(By) /\ d[3] \in Seq(By)
  BY DispatchType, PathType
<1>3. Len(c[3]) = Len(d[3])
  <2>1. Len(Append(c[3], b)) = Len(c[3]) + 1 /\ Len(Append(d[3], by)) = Len(d[3]) + 1
    BY SMT, <1>2
  <2> QED
    BY SMT, <1>1, <1>2, <2>1
<1>4. b = by
  <2>1. Append(c[3], b)[Len(c[3]) + 1] = b /\ Append(d[3], by)[Len(d[3]) + 1] = by
    BY SMT, <1>2
  <2> QED
    BY <1>1, <1>3, <2>1
<1>5. ASSUME NEW i \in 1..Len(c[3]) PROVE c[3][i] = d[3][i]
  <2>1. Append(c[3], b)[i] = c[3][i] /\ Append(d[3], by)[i] = d[3][i]
    BY SMT, <1>2, <1>3
  <2> QED
    BY <1>1, <2>1
<1>6. c[3] = d[3]
  BY SMT, <1>2, <1>3, <1>5
<1> QED
  BY <1>1, <1>4, <1>6, DispatchType

-----------------------------------------------------------------------------
(* Types. *)

ClientStates == {"none", "dial", "recv", "set", "report", "closed", "dead"}

AgentStates == {"none", "running", "final", "fallback", "ended"}

Dispatch ==
  [client : ClientStates, agent : AgentStates,
   sent : 0..2, received : 0..2, broken : BOOLEAN, base : Execution, result : Execution]

Report ==
  [pc : {"none", "sent", "applied", "retrying", "answered", "failed"}, exec : Execution]

\* The type invariant of the proofs.
FlowTypeOK ==
  /\ plan \in Plan
  /\ job \in Job
  /\ execs \subseteq Execution
  /\ trigger \in [Groups -> {"none", "runnable", "started"}]
  /\ disp \in [Dispatches -> Dispatch]
  /\ report \in [Dispatches \X By -> Report]
  /\ counted \subseteq Dispatches \X By
  /\ last \in Groups \cup {0}
  /\ lost \subseteq Dispatches
  /\ children \in [Groups -> Nat]
  /\ breaks \in Nat
  /\ crashes \in Nat

\* What is written of an execution is an execution.
LEMMA ExecType ==
  ASSUME NEW d \in Dispatches, NEW s \in Nat, NEW f \in Nat, NEW ok \in BOOLEAN
  PROVE  Exec(d, s, f, ok) \in Execution
BY DispatchType, FlowAssumption DEF Exec, Execution

\* The empty execution is one.
LEMMA NoExecType == NoExec \in Execution
BY FlowAssumption DEF NoExec, Execution

\* No dispatch starts at time 0.
LEMMA StampType ==
  ASSUME NEW d \in Dispatches
  PROVE  Stamp[d] \in Nat /\ Stamp[d] # 0
BY FlowAssumption

\* Initially everything is well formed.
LEMMA TypeInit == Init => FlowTypeOK
<1> SUFFICES ASSUME Init PROVE FlowTypeOK
  OBVIOUS
<1>1. plan \in Plan
  BY FlowAssumption DEF Init
<1>2. job \in Job
  <2>1. ZeroJob \in Job
    BY StoreAssumption DEF ZeroJob, Job, NoDeps, Status, NoName, NoSchedule
  <2>2. PICK s \in Schedules : job = [ZeroJob EXCEPT !.stored = TRUE, !.schedule = s]
    BY DEF Init
  <2> HIDE DEF ZeroJob
  <2> DEFINE yes == TRUE
  <2> HIDE DEF yes
  <2>3. job = [ZeroJob EXCEPT !.stored = yes, !.schedule = s] /\ yes \in BOOLEAN
    BY <2>2 DEF yes
  <2> QED
    BY <2>1, <2>3 DEF Job
<1>3. disp \in [Dispatches -> Dispatch]
  <2> DEFINE no == FALSE
  <2> HIDE DEF no
  <2>1. no \in BOOLEAN
    BY DEF no
  <2>2. disp = [d \in Dispatches |->
                 [client |-> "none", agent |-> "none", sent |-> 0, received |-> 0,
                  broken |-> no, base |-> NoExec, result |-> NoExec]]
    BY DEF Init, no
  <2> QED
    BY SMT, NoExecType, <2>1, <2>2 DEF Dispatch, ClientStates, AgentStates
<1>4. report \in [Dispatches \X By -> Report]
  BY NoExecType DEF Init, Report
<1> QED
  BY <1>1, <1>2, <1>3, <1>4 DEF Init, FlowTypeOK

\* Storing the next firing changes nothing else of the job.
LEMMA RescheduledType ==
  ASSUME job \in Job, NEW g \in Nat
  PROVE  Rescheduled(g) \in Job /\ Rescheduled(g).status = job.status
BY DEF Rescheduled, Merge, Job, Larger, KeepStatus

\* Counting a report sets the status.
LEMMA CountDoneType ==
  ASSUME NEW jb \in Job, NEW e \in Execution, NEW st \in Status
  PROVE  CountDone(jb, e, st) \in Job /\ CountDone(jb, e, st).status = st
<1> DEFINE s == jb.successCount + 1
           f == jb.errorCount + 1
           t == e.finished
<1>1. s \in Nat /\ f \in Nat /\ t \in Nat
  BY SMT DEF Job, Execution
<1>2. CountDone(jb, e, st) =
        IF e.success
          THEN [jb EXCEPT !.successCount = s, !.lastSuccess = t, !.status = st]
          ELSE [jb EXCEPT !.errorCount = f, !.lastError = t, !.status = st]
  BY DEF CountDone
<1> HIDE DEF s, f, t
<1>3. [jb EXCEPT !.successCount = s, !.lastSuccess = t, !.status = st] \in Job
  BY <1>1 DEF Job
<1>4. [jb EXCEPT !.errorCount = f, !.lastError = t, !.status = st] \in Job
  BY <1>1 DEF Job
<1>5. [jb EXCEPT !.successCount = s, !.lastSuccess = t, !.status = st].status = st
  BY DEF Job
<1>6. [jb EXCEPT !.errorCount = f, !.lastError = t, !.status = st].status = st
  BY DEF Job
<1> QED
  BY <1>2, <1>3, <1>4, <1>5, <1>6

-----------------------------------------------------------------------------
(* The parts of a dispatch and of its reports, by name. *)

Cl(d) == disp[d].client

Ag(d) == disp[d].agent

Msgs(d) == disp[d].sent

Got(d) == disp[d].received

Cut(d) == disp[d].broken

Base(d) == disp[d].base

Result(d) == disp[d].result

Pc(d, by) == report[<<d, by>>].pc

Told(d, by) == report[<<d, by>>].exec

\* They have their types.
LEMMA Parts ==
  ASSUME FlowTypeOK, NEW d \in Dispatches
  PROVE  /\ disp[d] \in Dispatch
         /\ Cl(d) \in ClientStates /\ Ag(d) \in AgentStates
         /\ Msgs(d) \in 0..2 /\ Got(d) \in 0..2 /\ Cut(d) \in BOOLEAN
         /\ Base(d) \in Execution /\ Result(d) \in Execution
         /\ \A by \in By : report[<<d, by>>] \in Report /\ Told(d, by) \in Execution
<1>1. disp[d] \in Dispatch /\ \A by \in By : report[<<d, by>>] \in Report
  BY DEF FlowTypeOK
<1> QED
  BY <1>1 DEF Dispatch, Report, Cl, Ag, Msgs, Got, Cut, Base, Result, Told

-----------------------------------------------------------------------------
(* What the steps do to them. *)

\* No dispatch but d changes.
Others(d) ==
  /\ disp' \in [Dispatches -> Dispatch]
  /\ \A c \in Dispatches \ {d} : disp'[c] = disp[c]

\* Both ends of d become what is said.
Ends(d, cl, ag, se, re, br, ba, rs) ==
  /\ Cl(d)' = cl /\ Ag(d)' = ag /\ Msgs(d)' = se /\ Got(d)' = re
  /\ Cut(d)' = br /\ Base(d)' = ba /\ Result(d)' = rs

\* d alone becomes what is said.
Becomes(d, cl, ag, se, re, br, ba, rs) ==
  Others(d) /\ Ends(d, cl, ag, se, re, br, ba, rs)

\* No report but the one of d by one of its ends changes.
OtherCalls(d, by) ==
  /\ report' \in [Dispatches \X By -> Report]
  /\ \A r \in (Dispatches \X By) \ {<<d, by>>} : report'[r] = report[r]

\* That report gets to q with execution e.
Calls(d, by, q, e) == OtherCalls(d, by) /\ Pc(d, by)' = q /\ Told(d, by)' = e

\* Both ends of d stay as they are.
SameEnds(d) ==
  /\ Cl(d)' = Cl(d) /\ Ag(d)' = Ag(d) /\ Msgs(d)' = Msgs(d) /\ Got(d)' = Got(d)
  /\ Cut(d)' = Cut(d) /\ Base(d)' = Base(d) /\ Result(d)' = Result(d)

\* A report of d stays as it is.
SameCall(d, by) == Pc(d, by)' = Pc(d, by) /\ Told(d, by)' = Told(d, by)

\* What is counted and what is lost of d stays so.
SameCounts(d) ==
  /\ \A by \in By : <<d, by>> \in counted' <=> <<d, by>> \in counted
  /\ d \in lost' <=> d \in lost

\* Nothing that concerns d changes.
Same(d) == SameEnds(d) /\ (\A by \in By : SameCall(d, by)) /\ SameCounts(d)

\* A dispatch that keeps its record keeps its ends, a report its state.
LEMMA SameRecords ==
  /\ \A d : disp'[d] = disp[d] => SameEnds(d)
  /\ \A d, by : report'[<<d, by>>] = report[<<d, by>>] => SameCall(d, by)
BY DEF SameEnds, SameCall, Cl, Ag, Msgs, Got, Cut, Base, Result, Pc, Told

\* The record of a dispatch is replaced.
LEMMA BecomesBy ==
  ASSUME FlowTypeOK, NEW d \in Dispatches, NEW t \in Dispatch, disp' = [disp EXCEPT ![d] = t]
  PROVE  Becomes(d, t.client, t.agent, t.sent, t.received, t.broken, t.base, t.result)
<1>1. disp'[d] = t
  BY DEF FlowTypeOK
<1>2. Ends(d, t.client, t.agent, t.sent, t.received, t.broken, t.base, t.result)
  BY <1>1 DEF Ends, Cl, Ag, Msgs, Got, Cut, Base, Result
<1> QED
  BY <1>2 DEF Becomes, Others, FlowTypeOK

\* A report is sent.
LEMMA CallsBy ==
  ASSUME FlowTypeOK, NEW d \in Dispatches, NEW by \in By, NEW e \in Execution,
         report' = [report EXCEPT ![<<d, by>>] = [pc |-> "sent", exec |-> e]]
  PROVE  Calls(d, by, "sent", e)
<1>1. [pc |-> "sent", exec |-> e] \in Report
  BY DEF Report
<1>2. report'[<<d, by>>] = [pc |-> "sent", exec |-> e]
  BY DEF FlowTypeOK
<1> QED
  BY <1>1, <1>2 DEF Calls, OtherCalls, FlowTypeOK, Pc, Told

\* Only the state of a report changes.
LEMMA CallMoves ==
  ASSUME FlowTypeOK, NEW d \in Dispatches, NEW by \in By,
         NEW q \in {"sent", "applied", "retrying", "answered", "failed"},
         report' = [report EXCEPT ![<<d, by>>].pc = q]
  PROVE  Calls(d, by, q, Told(d, by))
<1> DEFINE x == report[<<d, by>>]
           t == [x EXCEPT !.pc = q]
<1>1. x \in Report
  BY DEF FlowTypeOK
<1>2. report' = [report EXCEPT ![<<d, by>>] = t]
  OBVIOUS
<1> HIDE DEF x
<1>3. t \in Report /\ t.pc = q /\ t.exec = x.exec
  BY <1>1 DEF Report
<1> HIDE DEF t
<1>4. report'[<<d, by>>] = t
  BY <1>2 DEF FlowTypeOK
<1> QED
  BY <1>2, <1>3, <1>4 DEF Calls, OtherCalls, FlowTypeOK, Pc, Told, x

\* A status that computeStatus returns is one of the four.
LEMMA ComputeStatusType ==
  ASSUME NEW ex, NEW n, NEW g
  PROVE  ComputeStatus(ex, n, g) \in Status
BY DEF ComputeStatus, Status

\* The server moves on.
LEMMA ClientMoves ==
  ASSUME FlowTypeOK, NEW d \in Dispatches, NEW cl \in ClientStates,
         disp' = [disp EXCEPT ![d].client = cl]
  PROVE  Becomes(d, cl, Ag(d), Msgs(d), Got(d),
                 Cut(d), Base(d), Result(d))
<1> DEFINE x == disp[d]
           t == [x EXCEPT !.client = cl]
<1>1. x \in Dispatch
  BY Parts
<1>2. disp' = [disp EXCEPT ![d] = t]
  OBVIOUS
<1> HIDE DEF x
<1>3. t \in Dispatch
  BY <1>1 DEF Dispatch
<1>4. t.client = cl /\ t.agent = x.agent /\ t.sent = x.sent /\ t.received = x.received
      /\ t.broken = x.broken /\ t.base = x.base /\ t.result = x.result
  BY <1>1 DEF Dispatch
<1> HIDE DEF t
<1>5. Becomes(d, t.client, t.agent, t.sent, t.received, t.broken, t.base, t.result)
  BY <1>2, <1>3, BecomesBy
<1>6. /\ Cl(d) = x.client /\ Ag(d) = x.agent /\ Msgs(d) = x.sent /\ Got(d) = x.received
      /\ Cut(d) = x.broken /\ Base(d) = x.base /\ Result(d) = x.result
  BY DEF x, Cl, Ag, Msgs, Got, Cut, Base, Result
<1> QED
  BY <1>4, <1>5, <1>6

\* The node moves on.
LEMMA AgentMoves ==
  ASSUME FlowTypeOK, NEW d \in Dispatches, NEW ag \in AgentStates,
         disp' = [disp EXCEPT ![d].agent = ag]
  PROVE  Becomes(d, Cl(d), ag, Msgs(d), Got(d),
                 Cut(d), Base(d), Result(d))
<1> DEFINE x == disp[d]
           t == [x EXCEPT !.agent = ag]
<1>1. x \in Dispatch
  BY Parts
<1>2. disp' = [disp EXCEPT ![d] = t]
  OBVIOUS
<1> HIDE DEF x
<1>3. t \in Dispatch
  BY <1>1 DEF Dispatch
<1>4. t.client = x.client /\ t.agent = ag /\ t.sent = x.sent /\ t.received = x.received
      /\ t.broken = x.broken /\ t.base = x.base /\ t.result = x.result
  BY <1>1 DEF Dispatch
<1> HIDE DEF t
<1>5. Becomes(d, t.client, t.agent, t.sent, t.received, t.broken, t.base, t.result)
  BY <1>2, <1>3, BecomesBy
<1>6. /\ Cl(d) = x.client /\ Ag(d) = x.agent /\ Msgs(d) = x.sent /\ Got(d) = x.received
      /\ Cut(d) = x.broken /\ Base(d) = x.base /\ Result(d) = x.result
  BY DEF x, Cl, Ag, Msgs, Got, Cut, Base, Result
<1> QED
  BY <1>4, <1>5, <1>6

\* The stream breaks.
LEMMA StreamBreaks ==
  ASSUME FlowTypeOK, NEW d \in Dispatches, NEW br \in BOOLEAN,
         disp' = [disp EXCEPT ![d].broken = br]
  PROVE  Becomes(d, Cl(d), Ag(d), Msgs(d), Got(d),
                 br, Base(d), Result(d))
<1> DEFINE x == disp[d]
           t == [x EXCEPT !.broken = br]
<1>1. x \in Dispatch
  BY Parts
<1>2. disp' = [disp EXCEPT ![d] = t]
  OBVIOUS
<1> HIDE DEF x
<1>3. t \in Dispatch
  BY <1>1 DEF Dispatch
<1>4. t.client = x.client /\ t.agent = x.agent /\ t.sent = x.sent /\ t.received = x.received
      /\ t.broken = br /\ t.base = x.base /\ t.result = x.result
  BY <1>1 DEF Dispatch
<1> HIDE DEF t
<1>5. Becomes(d, t.client, t.agent, t.sent, t.received, t.broken, t.base, t.result)
  BY <1>2, <1>3, BecomesBy
<1>6. /\ Cl(d) = x.client /\ Ag(d) = x.agent /\ Msgs(d) = x.sent /\ Got(d) = x.received
      /\ Cut(d) = x.broken /\ Base(d) = x.base /\ Result(d) = x.result
  BY DEF x, Cl, Ag, Msgs, Got, Cut, Base, Result
<1> QED
  BY <1>4, <1>5, <1>6

\* Both ends move on.
LEMMA BothMove ==
  ASSUME FlowTypeOK, NEW d \in Dispatches, NEW cl \in ClientStates, NEW ag \in AgentStates,
         disp' = [disp EXCEPT ![d].client = cl, ![d].agent = ag]
  PROVE  Becomes(d, cl, ag, Msgs(d), Got(d),
                 Cut(d), Base(d), Result(d))
<1> DEFINE x == disp[d]
           t == [x EXCEPT !.client = cl, !.agent = ag]
<1>1. x \in Dispatch
  BY Parts
<1>2. disp' = [disp EXCEPT ![d] = t]
  OBVIOUS
<1> HIDE DEF x
<1>3. t \in Dispatch
  BY <1>1 DEF Dispatch
<1>4. t.client = cl /\ t.agent = ag /\ t.sent = x.sent /\ t.received = x.received
      /\ t.broken = x.broken /\ t.base = x.base /\ t.result = x.result
  BY <1>1 DEF Dispatch
<1> HIDE DEF t
<1>5. Becomes(d, t.client, t.agent, t.sent, t.received, t.broken, t.base, t.result)
  BY <1>2, <1>3, BecomesBy
<1>6. /\ Cl(d) = x.client /\ Ag(d) = x.agent /\ Msgs(d) = x.sent /\ Got(d) = x.received
      /\ Cut(d) = x.broken /\ Base(d) = x.base /\ Result(d) = x.result
  BY DEF x, Cl, Ag, Msgs, Got, Cut, Base, Result
<1> QED
  BY <1>4, <1>5, <1>6

\* The server receives a message.
LEMMA ClientReceives ==
  ASSUME FlowTypeOK, NEW d \in Dispatches, NEW re \in 0..2, NEW cl \in ClientStates,
         disp' = [disp EXCEPT ![d].received = re, ![d].client = cl]
  PROVE  Becomes(d, cl, Ag(d), Msgs(d), re,
                 Cut(d), Base(d), Result(d))
<1> DEFINE x == disp[d]
           t == [x EXCEPT !.received = re, !.client = cl]
<1>1. x \in Dispatch
  BY Parts
<1>2. disp' = [disp EXCEPT ![d] = t]
  OBVIOUS
<1> HIDE DEF x
<1>3. t \in Dispatch
  BY <1>1 DEF Dispatch
<1>4. t.client = cl /\ t.agent = x.agent /\ t.sent = x.sent /\ t.received = re
      /\ t.broken = x.broken /\ t.base = x.base /\ t.result = x.result
  BY <1>1 DEF Dispatch
<1> HIDE DEF t
<1>5. Becomes(d, t.client, t.agent, t.sent, t.received, t.broken, t.base, t.result)
  BY <1>2, <1>3, BecomesBy
<1>6. /\ Cl(d) = x.client /\ Ag(d) = x.agent /\ Msgs(d) = x.sent /\ Got(d) = x.received
      /\ Cut(d) = x.broken /\ Base(d) = x.base /\ Result(d) = x.result
  BY DEF x, Cl, Ag, Msgs, Got, Cut, Base, Result
<1> QED
  BY <1>4, <1>5, <1>6

\* The server closes a stream.
LEMMA ClientBreaks ==
  ASSUME FlowTypeOK, NEW d \in Dispatches, NEW cl \in ClientStates, NEW br \in BOOLEAN,
         disp' = [disp EXCEPT ![d].client = cl, ![d].broken = br]
  PROVE  Becomes(d, cl, Ag(d), Msgs(d), Got(d),
                 br, Base(d), Result(d))
<1> DEFINE x == disp[d]
           t == [x EXCEPT !.client = cl, !.broken = br]
<1>1. x \in Dispatch
  BY Parts
<1>2. disp' = [disp EXCEPT ![d] = t]
  OBVIOUS
<1> HIDE DEF x
<1>3. t \in Dispatch
  BY <1>1 DEF Dispatch
<1>4. t.client = cl /\ t.agent = x.agent /\ t.sent = x.sent /\ t.received = x.received
      /\ t.broken = br /\ t.base = x.base /\ t.result = x.result
  BY <1>1 DEF Dispatch
<1> HIDE DEF t
<1>5. Becomes(d, t.client, t.agent, t.sent, t.received, t.broken, t.base, t.result)
  BY <1>2, <1>3, BecomesBy
<1>6. /\ Cl(d) = x.client /\ Ag(d) = x.agent /\ Msgs(d) = x.sent /\ Got(d) = x.received
      /\ Cut(d) = x.broken /\ Base(d) = x.base /\ Result(d) = x.result
  BY DEF x, Cl, Ag, Msgs, Got, Cut, Base, Result
<1> QED
  BY <1>4, <1>5, <1>6

\* The node sends a message.
LEMMA AgentSends ==
  ASSUME FlowTypeOK, NEW d \in Dispatches, NEW ag \in AgentStates, NEW se \in 0..2,
         disp' = [disp EXCEPT ![d].agent = ag, ![d].sent = se]
  PROVE  Becomes(d, Cl(d), ag, se, Got(d),
                 Cut(d), Base(d), Result(d))
<1> DEFINE x == disp[d]
           t == [x EXCEPT !.agent = ag, !.sent = se]
<1>1. x \in Dispatch
  BY Parts
<1>2. disp' = [disp EXCEPT ![d] = t]
  OBVIOUS
<1> HIDE DEF x
<1>3. t \in Dispatch
  BY <1>1 DEF Dispatch
<1>4. t.client = x.client /\ t.agent = ag /\ t.sent = se /\ t.received = x.received
      /\ t.broken = x.broken /\ t.base = x.base /\ t.result = x.result
  BY <1>1 DEF Dispatch
<1> HIDE DEF t
<1>5. Becomes(d, t.client, t.agent, t.sent, t.received, t.broken, t.base, t.result)
  BY <1>2, <1>3, BecomesBy
<1>6. /\ Cl(d) = x.client /\ Ag(d) = x.agent /\ Msgs(d) = x.sent /\ Got(d) = x.received
      /\ Cut(d) = x.broken /\ Base(d) = x.base /\ Result(d) = x.result
  BY DEF x, Cl, Ag, Msgs, Got, Cut, Base, Result
<1> QED
  BY <1>4, <1>5, <1>6

\* The node finds the stream broken.
LEMMA AgentBreaks ==
  ASSUME FlowTypeOK, NEW d \in Dispatches, NEW ag \in AgentStates, NEW br \in BOOLEAN,
         disp' = [disp EXCEPT ![d].agent = ag, ![d].broken = br]
  PROVE  Becomes(d, Cl(d), ag, Msgs(d), Got(d),
                 br, Base(d), Result(d))
<1> DEFINE x == disp[d]
           t == [x EXCEPT !.agent = ag, !.broken = br]
<1>1. x \in Dispatch
  BY Parts
<1>2. disp' = [disp EXCEPT ![d] = t]
  OBVIOUS
<1> HIDE DEF x
<1>3. t \in Dispatch
  BY <1>1 DEF Dispatch
<1>4. t.client = x.client /\ t.agent = ag /\ t.sent = x.sent /\ t.received = x.received
      /\ t.broken = br /\ t.base = x.base /\ t.result = x.result
  BY <1>1 DEF Dispatch
<1> HIDE DEF t
<1>5. Becomes(d, t.client, t.agent, t.sent, t.received, t.broken, t.base, t.result)
  BY <1>2, <1>3, BecomesBy
<1>6. /\ Cl(d) = x.client /\ Ag(d) = x.agent /\ Msgs(d) = x.sent /\ Got(d) = x.received
      /\ Cut(d) = x.broken /\ Base(d) = x.base /\ Result(d) = x.result
  BY DEF x, Cl, Ag, Msgs, Got, Cut, Base, Result
<1> QED
  BY <1>4, <1>5, <1>6

\* The executor returns.
LEMMA AgentEnds ==
  ASSUME FlowTypeOK, NEW d \in Dispatches, NEW ag \in AgentStates, NEW rs \in Execution,
         disp' = [disp EXCEPT ![d].agent = ag, ![d].result = rs]
  PROVE  Becomes(d, Cl(d), ag, Msgs(d), Got(d),
                 Cut(d), Base(d), rs)
<1> DEFINE x == disp[d]
           t == [x EXCEPT !.agent = ag, !.result = rs]
<1>1. x \in Dispatch
  BY Parts
<1>2. disp' = [disp EXCEPT ![d] = t]
  OBVIOUS
<1> HIDE DEF x
<1>3. t \in Dispatch
  BY <1>1 DEF Dispatch
<1>4. t.client = x.client /\ t.agent = ag /\ t.sent = x.sent /\ t.received = x.received
      /\ t.broken = x.broken /\ t.base = x.base /\ t.result = rs
  BY <1>1 DEF Dispatch
<1> HIDE DEF t
<1>5. Becomes(d, t.client, t.agent, t.sent, t.received, t.broken, t.base, t.result)
  BY <1>2, <1>3, BecomesBy
<1>6. /\ Cl(d) = x.client /\ Ag(d) = x.agent /\ Msgs(d) = x.sent /\ Got(d) = x.received
      /\ Cut(d) = x.broken /\ Base(d) = x.base /\ Result(d) = x.result
  BY DEF x, Cl, Ag, Msgs, Got, Cut, Base, Result
<1> QED
  BY <1>4, <1>5, <1>6

\* The server dials the node.
LEMMA ClientDials ==
  ASSUME FlowTypeOK, NEW d \in Dispatches, NEW cl \in ClientStates, NEW ba \in Execution,
         disp' = [disp EXCEPT ![d].client = cl, ![d].base = ba]
  PROVE  Becomes(d, cl, Ag(d), Msgs(d), Got(d),
                 Cut(d), ba, Result(d))
<1> DEFINE x == disp[d]
           t == [x EXCEPT !.client = cl, !.base = ba]
<1>1. x \in Dispatch
  BY Parts
<1>2. disp' = [disp EXCEPT ![d] = t]
  OBVIOUS
<1> HIDE DEF x
<1>3. t \in Dispatch
  BY <1>1 DEF Dispatch
<1>4. t.client = cl /\ t.agent = x.agent /\ t.sent = x.sent /\ t.received = x.received
      /\ t.broken = x.broken /\ t.base = ba /\ t.result = x.result
  BY <1>1 DEF Dispatch
<1> HIDE DEF t
<1>5. Becomes(d, t.client, t.agent, t.sent, t.received, t.broken, t.base, t.result)
  BY <1>2, <1>3, BecomesBy
<1>6. /\ Cl(d) = x.client /\ Ag(d) = x.agent /\ Msgs(d) = x.sent /\ Got(d) = x.received
      /\ Cut(d) = x.broken /\ Base(d) = x.base /\ Result(d) = x.result
  BY DEF x, Cl, Ag, Msgs, Got, Cut, Base, Result
<1> QED
  BY <1>4, <1>5, <1>6

-----------------------------------------------------------------------------
(* What holds of each dispatch. *)

\* The keys of executions: their stamps, and 0 for what never reached its node.
Stamps == {0} \cup {Stamp[d] : d \in Dispatches}

\* The two ends agree on how far the stream got.
EndsOK(d) ==
  /\ Got(d) <= Msgs(d)
  /\ Cl(d) \in {"none", "dial"} => Ag(d) = "none"
  /\ Cl(d) = "set" => Got(d) = 1
  /\ Ag(d) = "none" => Msgs(d) = 0
  /\ Msgs(d) = 2 => Ag(d) = "ended" /\ Result(d) # NoExec

\* An execution of the group of d.
Belongs(e, d) == e.job = JobName /\ e.group = d[1] /\ e.started \in Stamps

\* What is run is no success yet, and what has ended bears the dispatch's stamp.
ExecsOK(d) ==
  /\ ~Base(d).success
  /\ Cl(d) # "none" => Belongs(Base(d), d)
  /\ Result(d) # NoExec => Belongs(Result(d), d) /\ Result(d).started = Stamp[d]
  /\ Ag(d) \in {"none", "running"} => Result(d) = NoExec
  /\ Ag(d) \in {"final", "fallback"} => Result(d) # NoExec

\* What is reported is an execution of the group, and a success only if the
\* executor succeeded.
SaysTruth(d, by) ==
  Pc(d, by) # "none" =>
    /\ Belongs(Told(d, by), d)
    /\ Told(d, by).success =>
         Told(d, by).started = Stamp[d] /\ Result(d).success

\* Each end reports at its end only, the node only what it could not send.
ReportsOK(d) ==
  /\ \A by \in By : SaysTruth(d, by)
  /\ Cl(d) \in {"none", "dial", "recv", "set"} => Pc(d, "client") = "none"
  /\ Cl(d) = "report" => Pc(d, "client") # "none"
  /\ Pc(d, "agent") # "none" => Cut(d) /\ Ag(d) \in {"fallback", "ended"}
  /\ Ag(d) = "fallback" => Pc(d, "agent") # "none"
  /\ Pc(d, "client") # "none" /\ ~Cut(d) => Ag(d) = "ended"

\* A report that is over was counted, unless it was lost.
CountOK(d, by) ==
  /\ <<d, by>> \in counted => Pc(d, by) # "none"
  /\ Pc(d, by) \in {"applied", "retrying", "answered"} => <<d, by>> \in counted
  /\ Pc(d, by) = "failed" => <<d, by>> \in counted \/ d \in lost

\* What has ended is reported, will be, or is lost.
FinalOK(d) ==
  Ag(d) = "ended" /\ Result(d) # NoExec =>
    \/ Pc(d, "agent") # "none"
    \/ /\ Msgs(d) = 2
       /\ \/ Cl(d) \in {"recv", "set"}
          \/ Pc(d, "client") # "none"
          \/ d \in lost

\* The invariant of a dispatch.
Good(d) ==
  /\ EndsOK(d) /\ ExecsOK(d) /\ ReportsOK(d)
  /\ \A by \in By : CountOK(d, by)
  /\ FinalOK(d)

AllGood == \A d \in Dispatches : Good(d)

\* The handler has counted the report and looked at it again.
Done == {"retrying", "answered", "failed"}

\* The server will report what it stored of d.
Owing(d) ==
  \/ Cl(d) = "recv" /\ Got(d) > 0
  \/ Cl(d) = "report" /\ Pc(d, "client") = "sent"

\* A success is counted and its handler has not looked at the job again.
Pending(d, by) == Pc(d, by) = "applied" /\ Told(d, by).success

\* The job has the status of the group reported last.
Current == job.status = ComputeStatus(execs, JobName, last)

\* What no step takes back.
Kept(d) ==
  /\ Cut(d) => Cut(d)'
  /\ Cl(d) # "none" => Cl(d)' # "none"
  /\ Ag(d) = "ended" => Ag(d)' = "ended"
  /\ Result(d) # NoExec => Result(d)' = Result(d)
  /\ \A by \in By : Pc(d, by) \in Done => Pc(d, by)' \in Done
  /\ \A by \in By : Pc(d, by) = "failed" => Pc(d, by)' = "failed"

\* What is owed is paid, lost in a crash or on the way.
Paid(d) ==
  Owing(d) => Owing(d)' \/ d \in lost' \/ crashes' # 0 \/ Current'

\* A handler that looks at the job runs the dependents of a success.
Looked(d) ==
  \A by \in By : Pending(d, by) =>
    \/ Pending(d, by)'
    \/ Pc(d, by)' = "failed"
    \/ job.status = "success" => children'[d[1]] > 0

\* A step that is right for d.
Right(d) == Good(d)' /\ Kept(d) /\ Paid(d) /\ Looked(d)

\* Nothing goes wrong where nothing changes.
LEMMA SameRight ==
  ASSUME NEW d \in Dispatches, Good(d), Same(d)
  PROVE  Right(d)
<1>1. Good(d)'
  BY DEF Same, SameEnds, SameCall, SameCounts, By,
         Good, EndsOK, ExecsOK, ReportsOK, SaysTruth, CountOK, FinalOK
<1>2. Kept(d) /\ Paid(d) /\ Looked(d)
  BY DEF Same, SameEnds, SameCall, By, Kept, Paid, Owing, Looked, Pending
<1> QED
  BY <1>1, <1>2 DEF Right

\* Only d is concerned, and it was started before if it is now.
Concerns(d) ==
  /\ \A c \in Dispatches \ {d} : Same(c)
  /\ Cl(d) = "none" => Cl(d)' = "none"

\* A step of one dispatch that was started before.
Moves(d) == FlowTypeOK' /\ Right(d) /\ Concerns(d)

-----------------------------------------------------------------------------
(* The steps of one dispatch. *)

\* A step of the ends of d types the state and leaves the reports of d and all
\* other dispatches alone.
LEMMA EndMoves ==
  ASSUME FlowTypeOK, NEW d \in Dispatches, Others(d), execs' \subseteq Execution, breaks' \in Nat,
         lost' = lost \/ lost' = lost \cup {d},
         UNCHANGED <<plan, job, trigger, report, counted, last, children, crashes>>
  PROVE  /\ FlowTypeOK'
         /\ \A by \in By : SameCall(d, by)
         /\ \A c \in Dispatches \ {d} : Same(c)
<1>1. FlowTypeOK'
  BY DEF FlowTypeOK, Others
<1>2. \A c, by : SameCall(c, by)
  BY SameRecords
<1>3. \A c \in Dispatches \ {d} : SameEnds(c)
  BY SameRecords DEF Others
<1>4. \A c \in Dispatches \ {d} : SameCounts(c)
  BY DEF SameCounts
<1> QED
  BY <1>1, <1>2, <1>3, <1>4 DEF Same

\* So does a step that reports.
LEMMA ReportMoves ==
  ASSUME FlowTypeOK, NEW d \in Dispatches, NEW by \in By, Others(d), OtherCalls(d, by),
         UNCHANGED <<plan, job, execs, trigger, counted, last, lost, children, breaks, crashes>>
  PROVE  /\ FlowTypeOK'
         /\ \A s \in By \ {by} : SameCall(d, s)
         /\ \A c \in Dispatches \ {d} : Same(c)
<1>1. FlowTypeOK'
  BY DEF FlowTypeOK, Others, OtherCalls
<1>2. \A c \in Dispatches, s \in By : <<c, s>> # <<d, by>> => SameCall(c, s)
  BY SameRecords DEF OtherCalls
<1>3. \A c \in Dispatches \ {d} : SameEnds(c)
  BY SameRecords DEF Others
<1>4. \A c \in Dispatches \ {d} : SameCounts(c)
  BY DEF SameCounts
<1> QED
  BY <1>1, <1>2, <1>3, <1>4 DEF Same


\* A step of the server's end.
LEMMA ClientStep ==
  ASSUME FlowTypeOK, AllGood, NEW d \in Dispatches, Client(d), UNCHANGED plan
  PROVE  Moves(d)
<1>0. Good(d)
  BY DEF AllGood
<1>a. /\ Cl(d) \in ClientStates /\ Ag(d) \in AgentStates
      /\ Msgs(d) \in 0..2 /\ Got(d) \in 0..2 /\ Cut(d) \in BOOLEAN
      /\ Base(d) \in Execution /\ Result(d) \in Execution
  BY Parts
<1>1. CASE Open(d)
  <2>1. Becomes(d, "recv", Ag(d), Msgs(d), Got(d), Cut(d), Base(d), Result(d))
    BY <1>1, ClientMoves DEF Open, ClientStates
  <2>2. /\ Cl(d) = "dial"
        /\ UNCHANGED <<plan, job, execs, trigger, report, counted, last, lost, children, breaks,
                       crashes>>
    BY <1>1 DEF Open, Cl
  <2>3. FlowTypeOK' /\ (\A by \in By : SameCall(d, by)) /\ \A c \in Dispatches \ {d} : Same(c)
    BY <2>1, <2>2, EndMoves DEF Becomes, FlowTypeOK
  <2>4. Right(d) /\ (Cl(d) = "none" => Cl(d)' = "none")
    BY <1>0, <1>a, <2>1, <2>2, <2>3
       DEF Right, Good, EndsOK, ExecsOK, ReportsOK, SaysTruth, CountOK, FinalOK, Belongs,
           Kept, Done, Paid, Owing, Looked, Pending, Ends, SameCall, By, Becomes
  <2> QED
    BY <2>3, <2>4 DEF Moves, Concerns
<1>2. CASE DialFails(d)
  <2>1. Becomes(d, "closed", "ended", Msgs(d), Got(d), Cut(d), Base(d), Result(d))
    BY <1>2, BothMove DEF DialFails, ClientStates, AgentStates
  <2>2. /\ Cl(d) = "dial"
        /\ UNCHANGED <<plan, job, execs, trigger, report, counted, last, lost, children, breaks,
                       crashes>>
    BY <1>2 DEF DialFails, Cl
  <2>3. FlowTypeOK' /\ (\A by \in By : SameCall(d, by)) /\ \A c \in Dispatches \ {d} : Same(c)
    BY <2>1, <2>2, EndMoves DEF Becomes, FlowTypeOK
  <2>4. Right(d) /\ (Cl(d) = "none" => Cl(d)' = "none")
    BY <1>0, <1>a, <2>1, <2>2, <2>3
       DEF Right, Good, EndsOK, ExecsOK, ReportsOK, SaysTruth, CountOK, FinalOK, Belongs,
           Kept, Done, Paid, Owing, Looked, Pending, Ends, SameCall, By, Becomes
  <2> QED
    BY <2>3, <2>4 DEF Moves, Concerns
<1>3. CASE Receive(d)
  <2> DEFINE to == IF Got(d) = 0 THEN "set" ELSE "recv"
  <2>0. /\ to \in ClientStates /\ Got(d) + 1 \in 0..2
        /\ to = "recv" \/ (to = "set" /\ Got(d) = 0)
    BY SMT, <1>a, <1>3 DEF Receive, ClientStates, Got, Msgs
  <2> HIDE DEF to
  <2>1. Becomes(d, to, Ag(d), Msgs(d), Got(d) + 1, Cut(d), Base(d), Result(d))
    BY <1>3, <2>0, ClientReceives DEF Receive, Got, to
  <2>2. /\ Cl(d) = "recv" /\ Got(d) < Msgs(d)
        /\ UNCHANGED <<plan, job, execs, trigger, report, counted, last, lost, children, breaks,
                       crashes>>
    BY <1>3 DEF Receive, Cl, Got, Msgs
  <2>3. FlowTypeOK' /\ (\A by \in By : SameCall(d, by)) /\ \A c \in Dispatches \ {d} : Same(c)
    BY <2>1, <2>2, EndMoves DEF Becomes, FlowTypeOK
  <2>4. Right(d) /\ (Cl(d) = "none" => Cl(d)' = "none")
    <3>0. EndsOK(d)'
      BY SMT, <1>0, <1>a, <2>1, <2>2, <2>0 DEF Good, EndsOK, ExecsOK, Becomes, Ends
    <3>1. ExecsOK(d)'
      BY <1>0, <1>a, <2>1, <2>2, <2>0 DEF Good, EndsOK, ExecsOK, Becomes, Ends, Belongs
    <3>2. ReportsOK(d)' /\ (\A by \in By : CountOK(d, by))'
      BY <1>0, <1>a, <2>1, <2>2, <2>3, <2>0
         DEF Good, EndsOK, ReportsOK, SaysTruth, CountOK, Becomes, Ends, SameCall, By
    <3>3. FinalOK(d)'
      BY <1>0, <1>a, <2>1, <2>2, <2>3, <2>0
         DEF Good, EndsOK, ExecsOK, ReportsOK, CountOK, FinalOK, Becomes, Ends, SameCall, By,
             ClientStates
    <3>4. Kept(d) /\ Looked(d) /\ (Cl(d) = "none" => Cl(d)' = "none")
      BY <2>1, <2>2, <2>3, <2>0 DEF Kept, Looked, Pending, Becomes, Ends, SameCall, By
    <3>5. Paid(d)
      BY SMT, <1>a, <2>1, <2>2, <2>0 DEF Paid, Owing, Becomes, Ends
    <3> QED
      BY <3>0, <3>1, <3>2, <3>3, <3>4, <3>5 DEF Right, Good
  <2> QED
    BY <2>3, <2>4 DEF Moves, Concerns
<1>4. CASE StoreFirst(d)
  <2>0. execs' \subseteq Execution
    <3>1. First(d) \in Execution
      BY <1>a, ExecType, StampType DEF First, Execution, Base
    <3> QED
      BY <1>4, <3>1 DEF StoreFirst, SetExecution, PutExecution, FlowTypeOK
  <2>1. Becomes(d, "recv", Ag(d), Msgs(d), Got(d), Cut(d), Base(d), Result(d))
    BY <1>4, ClientMoves DEF StoreFirst, ClientStates
  <2>2. /\ Cl(d) = "set"
        /\ UNCHANGED <<plan, job, trigger, report, counted, last, lost, children, breaks, crashes>>
    BY <1>4 DEF StoreFirst, Cl
  <2>3. FlowTypeOK' /\ (\A by \in By : SameCall(d, by)) /\ \A c \in Dispatches \ {d} : Same(c)
    BY <2>1, <2>2, <2>0, EndMoves DEF Becomes, FlowTypeOK
  <2>4. Right(d) /\ (Cl(d) = "none" => Cl(d)' = "none")
    BY <1>0, <1>a, <2>1, <2>2, <2>3
       DEF Right, Good, EndsOK, ExecsOK, ReportsOK, SaysTruth, CountOK, FinalOK, Belongs,
           Kept, Done, Paid, Owing, Looked, Pending, Ends, SameCall, By, Becomes
  <2> QED
    BY <2>3, <2>4 DEF Moves, Concerns
<1>5. CASE StoreFirstFails(d)
  <2>1. Becomes(d, "closed", Ag(d), Msgs(d), Got(d), TRUE, Base(d), Result(d))
    BY <1>5, ClientBreaks DEF StoreFirstFails, ClientStates
  <2>2. /\ Cl(d) = "set" /\ lost' = IF Ag(d) = "ended" THEN lost \cup {d} ELSE lost
        /\ UNCHANGED <<plan, job, execs, trigger, report, counted, last, children, breaks, crashes>>
    BY <1>5 DEF StoreFirstFails, Cl, Ag
  <2>3. FlowTypeOK' /\ (\A by \in By : SameCall(d, by)) /\ \A c \in Dispatches \ {d} : Same(c)
    BY <2>1, <2>2, EndMoves DEF Becomes, FlowTypeOK
  <2>4. Right(d) /\ (Cl(d) = "none" => Cl(d)' = "none")
    BY <1>0, <1>a, <2>1, <2>2, <2>3
       DEF Right, Good, EndsOK, ExecsOK, ReportsOK, SaysTruth, CountOK, FinalOK, Belongs,
           Kept, Done, Paid, Owing, Looked, Pending, Ends, SameCall, By, Becomes
  <2> QED
    BY <2>3, <2>4 DEF Moves, Concerns
<1>b. ASSUME Cl(d) = "recv"
      PROVE  /\ Known(d) \in Execution /\ Belongs(Known(d), d)
             /\ Known(d).success => Known(d).started = Stamp[d] /\ Result(d).success
  <2>1. CASE Got(d) = 0
    <3>1. Known(d) = Base(d)
      BY SMT, <2>1 DEF Known, Got, Base
    <3> QED
      BY <1>0, <1>a, <1>b, <3>1 DEF Good, ExecsOK
  <2>2. CASE Got(d) = 1
    <3>1. Known(d) = First(d)
      BY SMT, <2>2 DEF Known, Got
    <3>2. First(d) \in Execution
      BY <1>a, ExecType, StampType DEF First, Execution, Base
    <3>3. ~First(d).success /\ Belongs(First(d), d)
      BY DEF First, Exec, Belongs, Stamps
    <3> QED
      BY <3>1, <3>2, <3>3
  <2>3. CASE Got(d) = 2
    <3>1. Known(d) = Result(d)
      BY SMT, <2>3 DEF Known, Got, Result
    <3>2. Result(d) # NoExec
      BY SMT, <1>0, <1>a, <2>3 DEF Good, EndsOK
    <3> QED
      BY <1>0, <1>a, <3>1, <3>2 DEF Good, ExecsOK
  <2>4. Got(d) = 0 \/ Got(d) = 1 \/ Got(d) = 2
    BY SMT, <1>a
  <2> QED
    BY <2>1, <2>2, <2>3, <2>4
<1>6. ASSUME Cl(d) = "recv", ~Cut(d) => Ag(d) = "ended", NEW e \in Execution, Belongs(e, d),
             e.success => e.started = Stamp[d] /\ Result(d).success, ClientReports(d, e)
      PROVE  Moves(d)
  <2>1. Becomes(d, "report", Ag(d), Msgs(d), Got(d), Cut(d), Base(d), Result(d))
    BY <1>6, ClientMoves DEF ClientReports, ClientStates
  <2>c. Calls(d, "client", "sent", e)
    BY <1>6, CallsBy DEF ClientReports, By
  <2>2. /\ Cl(d) = "recv" /\ (~Cut(d) => Ag(d) = "ended")
        /\ UNCHANGED <<plan, job, execs, trigger, counted, last, lost, children, breaks, crashes>>
    BY <1>6 DEF ClientReports
  <2>3. /\ FlowTypeOK' /\ (\A by \in By \ {"client"} : SameCall(d, by))
        /\ \A c \in Dispatches \ {d} : Same(c)
    BY <2>1, <2>2, <2>c, ReportMoves DEF Becomes, Calls, By
  <2>4. Right(d) /\ (Cl(d) = "none" => Cl(d)' = "none")
    BY ZenonT(60), <1>0, <1>a, <2>1, <2>2, <2>3, <2>c, <1>6
       DEF Right, Good, EndsOK, ExecsOK, ReportsOK, SaysTruth, CountOK, FinalOK, Belongs,
           Kept, Done, Paid, Owing, Looked, Pending, Ends, SameCall, By, Becomes, Calls
  <2> QED
    BY <2>3, <2>4 DEF Moves, Concerns
<1>7. CASE ReceiveEOF(d)
  <2>1. Cl(d) = "recv" /\ Ag(d) = "ended" /\ ClientReports(d, Known(d))
    BY <1>7 DEF ReceiveEOF, Cl, Ag
  <2> QED
    BY <1>b, <1>6, <2>1
<1>8. ASSUME NEW now \in plan.errors, ReceiveError(d, now) PROVE Moves(d)
  <2> DEFINE e == [Known(d) EXCEPT !.finished = now]
  <2>1. now \in Nat
    BY DEF FlowTypeOK, Plan
  <2>2. Cl(d) = "recv" /\ Cut(d) /\ ClientReports(d, e)
    BY <1>8 DEF ReceiveError, Cl, Cut
  <2>3. Known(d) \in Execution
    BY <1>b, <2>2
  <2>4. e \in Execution /\ e.job = Known(d).job /\ e.group = Known(d).group
        /\ e.started = Known(d).started /\ e.success = Known(d).success
    BY <2>1, <2>3 DEF Execution
  <2> HIDE DEF e
  <2> QED
    BY <1>b, <1>6, <2>2, <2>4 DEF Belongs
<1>9. CASE ClientReturns(d)
  <2>1. Becomes(d, "closed", Ag(d), Msgs(d), Got(d), Cut(d), Base(d), Result(d))
    BY <1>9, ClientMoves DEF ClientReturns, ClientStates
  <2>2. /\ Cl(d) = "report" /\ Pc(d, "client") \in {"answered", "failed"}
        /\ UNCHANGED <<plan, job, execs, trigger, report, counted, last, lost, children, breaks,
                       crashes>>
    BY <1>9 DEF ClientReturns, Cl, Pc
  <2>3. FlowTypeOK' /\ (\A by \in By : SameCall(d, by)) /\ \A c \in Dispatches \ {d} : Same(c)
    BY <2>1, <2>2, EndMoves DEF Becomes, FlowTypeOK
  <2>4. Right(d) /\ (Cl(d) = "none" => Cl(d)' = "none")
    BY <1>0, <1>a, <2>1, <2>2, <2>3
       DEF Right, Good, EndsOK, ExecsOK, ReportsOK, SaysTruth, CountOK, FinalOK, Belongs,
           Kept, Done, Paid, Owing, Looked, Pending, Ends, SameCall, By, Becomes
  <2> QED
    BY <2>3, <2>4 DEF Moves, Concerns
<1> QED
  BY <1>1, <1>2, <1>3, <1>4, <1>5, <1>7, <1>8, <1>9 DEF Client


\* A step of the node's end.
LEMMA AgentStep ==
  ASSUME FlowTypeOK, AllGood, NEW d \in Dispatches, Agent(d), UNCHANGED plan
  PROVE  Moves(d)
<1>0. Good(d)
  BY DEF AllGood
<1>a. /\ Cl(d) \in ClientStates /\ Ag(d) \in AgentStates
      /\ Msgs(d) \in 0..2 /\ Got(d) \in 0..2 /\ Cut(d) \in BOOLEAN
      /\ Base(d) \in Execution /\ Result(d) \in Execution
  BY Parts
<1>1. ASSUME AgentStart(d), disp' = [disp EXCEPT ![d].agent = "running", ![d].sent = 1]
      PROVE  Moves(d)
  <2>0. 1 \in 0..2 /\ "running" \in AgentStates
    BY SMT DEF AgentStates
  <2>1. Becomes(d, Cl(d), "running", 1, Got(d), Cut(d), Base(d), Result(d))
    BY <1>1, <2>0, AgentSends
  <2>2. /\ Ag(d) = "none" /\ Cl(d) \notin {"none", "dial"}
        /\ UNCHANGED <<plan, job, execs, trigger, report, counted, last, lost, children, breaks,
                       crashes>>
    BY <1>1 DEF AgentStart, Ag, Cl
  <2>3. FlowTypeOK' /\ (\A by \in By : SameCall(d, by)) /\ \A c \in Dispatches \ {d} : Same(c)
    BY <2>1, <2>2, EndMoves DEF Becomes, FlowTypeOK
  <2>4. Right(d) /\ (Cl(d) = "none" => Cl(d)' = "none")
    <3>0. EndsOK(d)'
      BY SMT, <1>0, <1>a, <2>1, <2>2 DEF Good, EndsOK, ExecsOK, Becomes, Ends
    <3>1. ExecsOK(d)'
      BY <1>0, <1>a, <2>1, <2>2 DEF Good, EndsOK, ExecsOK, Becomes, Ends, Belongs
    <3>2. ReportsOK(d)' /\ (\A by \in By : CountOK(d, by))'
      BY <1>0, <1>a, <2>1, <2>2, <2>3
         DEF Good, EndsOK, ReportsOK, SaysTruth, CountOK, Becomes, Ends, SameCall, By
    <3>3. FinalOK(d)'
      BY <1>0, <1>a, <2>1, <2>2, <2>3
         DEF Good, EndsOK, ExecsOK, ReportsOK, CountOK, FinalOK, Becomes, Ends, SameCall, By,
             ClientStates
    <3>4. Kept(d) /\ Paid(d) /\ Looked(d) /\ (Cl(d) = "none" => Cl(d)' = "none")
      BY <1>0, <1>a, <2>1, <2>2, <2>3
         DEF Good, EndsOK, Kept, Paid, Owing, Looked, Pending, Becomes, Ends, SameCall, By
    <3> QED
      BY <3>0, <3>1, <3>2, <3>3, <3>4 DEF Right, Good
  <2> QED
    BY <2>3, <2>4 DEF Moves, Concerns
<1>2. ASSUME AgentStart(d), disp' = [disp EXCEPT ![d].agent = "ended", ![d].broken = TRUE]
      PROVE  Moves(d)
  <2>1. Becomes(d, Cl(d), "ended", Msgs(d), Got(d), TRUE, Base(d), Result(d))
    BY <1>2, AgentBreaks DEF AgentStates
  <2>2. /\ Ag(d) = "none" /\ Cl(d) \notin {"none", "dial"}
        /\ UNCHANGED <<plan, job, execs, trigger, report, counted, last, lost, children, breaks,
                       crashes>>
    BY <1>2 DEF AgentStart, Ag, Cl
  <2>3. FlowTypeOK' /\ (\A by \in By : SameCall(d, by)) /\ \A c \in Dispatches \ {d} : Same(c)
    BY <2>1, <2>2, EndMoves DEF Becomes, FlowTypeOK
  <2>4. Right(d) /\ (Cl(d) = "none" => Cl(d)' = "none")
    BY <1>0, <1>a, <2>1, <2>2, <2>3
       DEF Right, Good, EndsOK, ExecsOK, ReportsOK, SaysTruth, CountOK, FinalOK, Belongs,
           Kept, Done, Paid, Owing, Looked, Pending, Ends, SameCall, By, Becomes
  <2> QED
    BY <2>3, <2>4 DEF Moves, Concerns
<1>3. ASSUME NEW f \in plan.ends, NEW ok \in BOOLEAN, AgentFinish(d, f, ok)
      PROVE  Moves(d)
  <2> DEFINE e == Exec(d, Stamp[d], f, ok)
  <2>0. e \in Execution /\ e # NoExec /\ Belongs(e, d) /\ e.started = Stamp[d] /\ ~NoExec.success
    <3>1. f \in Nat
      BY DEF FlowTypeOK, Plan
    <3>2. e \in Execution
      BY <3>1, ExecType, StampType
    <3>3. Belongs(e, d) /\ e.started = Stamp[d]
      BY DEF Exec, Belongs, Stamps
    <3>4. e.started # NoExec.started /\ ~NoExec.success
      BY <3>3, StampType DEF NoExec
    <3> QED
      BY <3>2, <3>3, <3>4
  <2> HIDE DEF e
  <2>1. Becomes(d, Cl(d), "final", Msgs(d), Got(d), Cut(d), Base(d), e)
    BY <1>3, <2>0, AgentEnds DEF AgentFinish, AgentStates, e
  <2>2. /\ Ag(d) = "running"
        /\ UNCHANGED <<plan, job, execs, trigger, report, counted, last, lost, children, breaks,
                       crashes>>
    BY <1>3 DEF AgentFinish, Ag
  <2>3. FlowTypeOK' /\ (\A by \in By : SameCall(d, by)) /\ \A c \in Dispatches \ {d} : Same(c)
    BY <2>1, <2>2, EndMoves DEF Becomes, FlowTypeOK
  <2>4. Right(d) /\ (Cl(d) = "none" => Cl(d)' = "none")
    BY <1>0, <1>a, <2>1, <2>2, <2>3, <2>0
       DEF Right, Good, EndsOK, ExecsOK, ReportsOK, SaysTruth, CountOK, FinalOK, Belongs,
           Kept, Done, Paid, Owing, Looked, Pending, Ends, SameCall, By, Becomes
  <2> QED
    BY <2>3, <2>4 DEF Moves, Concerns
<1>4. CASE SendFinal(d)
  <2>0. 2 \in 0..2 /\ "ended" \in AgentStates
    BY SMT DEF AgentStates
  <2>1. Becomes(d, Cl(d), "ended", 2, Got(d), Cut(d), Base(d), Result(d))
    BY <1>4, <2>0, AgentSends DEF SendFinal
  <2>2. /\ Ag(d) = "final"
        /\ lost' = IF Cl(d) \in {"closed", "dead"} /\ <<d, "client">> \notin counted
                     THEN lost \cup {d} ELSE lost
        /\ UNCHANGED <<plan, job, execs, trigger, report, counted, last, children, breaks, crashes>>
    BY <1>4 DEF SendFinal, Ag, Cl
  <2>3. FlowTypeOK' /\ (\A by \in By : SameCall(d, by)) /\ \A c \in Dispatches \ {d} : Same(c)
    BY <2>1, <2>2, EndMoves DEF Becomes, FlowTypeOK
  <2>4. Right(d) /\ (Cl(d) = "none" => Cl(d)' = "none")
    <3>0. EndsOK(d)'
      <4>1. Got(d) <= 2
        BY SMT, <1>a
      <4>2. Cl(d) \notin {"none", "dial"} /\ Result(d) # NoExec
        BY <1>0, <2>2 DEF Good, EndsOK, ExecsOK
      <4> QED
        BY <1>0, <2>1, <4>1, <4>2 DEF Good, EndsOK, Becomes, Ends
    <3>1. ExecsOK(d)'
      BY <1>0, <1>a, <2>1, <2>2 DEF Good, EndsOK, ExecsOK, Becomes, Ends, Belongs
    <3>2. ReportsOK(d)' /\ (\A by \in By : CountOK(d, by))'
      BY <1>0, <1>a, <2>1, <2>2, <2>3
         DEF Good, EndsOK, ReportsOK, SaysTruth, CountOK, Becomes, Ends, SameCall, By
    <3>3. FinalOK(d)'
      BY <1>0, <1>a, <2>1, <2>2, <2>3
         DEF Good, EndsOK, ExecsOK, ReportsOK, CountOK, FinalOK, Becomes, Ends, SameCall, By,
             ClientStates
    <3>4. Kept(d) /\ Paid(d) /\ Looked(d) /\ (Cl(d) = "none" => Cl(d)' = "none")
      BY <1>0, <1>a, <2>1, <2>2, <2>3
         DEF Good, EndsOK, Kept, Paid, Owing, Looked, Pending, Becomes, Ends, SameCall, By
    <3> QED
      BY <3>0, <3>1, <3>2, <3>3, <3>4 DEF Right, Good
  <2> QED
    BY <2>3, <2>4 DEF Moves, Concerns
<1>5. CASE FallBack(d)
  <2>1. Becomes(d, Cl(d), "fallback", Msgs(d), Got(d), Cut(d), Base(d), Result(d))
    BY <1>5, AgentMoves DEF FallBack, AgentStates
  <2>c. Calls(d, "agent", "sent", Result(d))
    BY <1>5, <1>a, CallsBy DEF FallBack, By, Result
  <2>2. /\ Ag(d) = "final" /\ Cut(d)
        /\ UNCHANGED <<plan, job, execs, trigger, counted, last, lost, children, breaks, crashes>>
    BY <1>5 DEF FallBack, Ag, Cut
  <2>3. /\ FlowTypeOK' /\ (\A by \in By \ {"agent"} : SameCall(d, by))
        /\ \A c \in Dispatches \ {d} : Same(c)
    BY <2>1, <2>2, <2>c, ReportMoves DEF Becomes, Calls, By
  <2>4. Right(d) /\ (Cl(d) = "none" => Cl(d)' = "none")
    BY <1>0, <1>a, <2>1, <2>2, <2>3, <2>c
       DEF Right, Good, EndsOK, ExecsOK, ReportsOK, SaysTruth, CountOK, FinalOK, Belongs,
           Kept, Done, Paid, Owing, Looked, Pending, Ends, SameCall, By, Becomes, Calls
  <2> QED
    BY <2>3, <2>4 DEF Moves, Concerns
<1>6. CASE AgentReturns(d)
  <2>1. Becomes(d, Cl(d), "ended", Msgs(d), Got(d), Cut(d), Base(d), Result(d))
    BY <1>6, AgentMoves DEF AgentReturns, AgentStates
  <2>2. /\ Ag(d) = "fallback" /\ Pc(d, "agent") \in {"answered", "failed"}
        /\ UNCHANGED <<plan, job, execs, trigger, report, counted, last, lost, children, breaks,
                       crashes>>
    BY <1>6 DEF AgentReturns, Ag, Pc
  <2>3. FlowTypeOK' /\ (\A by \in By : SameCall(d, by)) /\ \A c \in Dispatches \ {d} : Same(c)
    BY <2>1, <2>2, EndMoves DEF Becomes, FlowTypeOK
  <2>4. Right(d) /\ (Cl(d) = "none" => Cl(d)' = "none")
    BY <1>0, <1>a, <2>1, <2>2, <2>3
       DEF Right, Good, EndsOK, ExecsOK, ReportsOK, SaysTruth, CountOK, FinalOK, Belongs,
           Kept, Done, Paid, Owing, Looked, Pending, Ends, SameCall, By, Becomes
  <2> QED
    BY <2>3, <2>4 DEF Moves, Concerns
<1>7. AgentStart(d) => Moves(d)
  BY <1>1, <1>2 DEF AgentStart
<1> QED
  BY <1>3, <1>4, <1>5, <1>6, <1>7 DEF Agent

\* A report of d moves on.
LEMMA CallStep ==
  ASSUME FlowTypeOK, AllGood, NEW d \in Dispatches, NEW by \in By, NEW q,
         SameEnds(d), Calls(d, by, q, Told(d, by)),
         Pc(d, by) \notin {"none", "answered", "failed"},
         q # "none", Pc(d, by) \in Done => q \in Done,
         lost' = lost \/ lost' = lost \cup {d},
         counted' = counted \/ counted' = counted \cup {<<d, by>>},
         q \in {"applied", "retrying", "answered"} => <<d, by>> \in counted',
         q = "failed" => <<d, by>> \in counted' \/ d \in lost'
  PROVE  /\ Good(d)' /\ Kept(d) /\ \A s \in By \ {by} : SameCall(d, s)
         /\ disp' = disp => Concerns(d)
<1>0. Good(d)
  BY DEF AllGood
<1>1. \A c \in Dispatches, s \in By : <<c, s>> # <<d, by>> => SameCall(c, s)
  BY SameRecords DEF Calls, OtherCalls
<1>2. /\ Pc(d, by)' = q /\ Told(d, by)' = Told(d, by)
      /\ \A s \in By \ {by} : SameCall(d, s)
  BY <1>1 DEF Calls
<1>3. EndsOK(d)' /\ ExecsOK(d)'
  BY <1>0 DEF Good, EndsOK, ExecsOK, Belongs, SameEnds
<1>4. \A s \in By : Pc(d, s)' = "none" <=> Pc(d, s) = "none"
  BY <1>2 DEF SameCall
<1>5. (\A s \in By : SaysTruth(d, s))'
  BY <1>0, <1>2 DEF Good, ReportsOK, SaysTruth, SameCall, SameEnds, Belongs
<1>6. ReportsOK(d)' /\ FinalOK(d)'
  BY <1>0, <1>4, <1>5 DEF Good, ReportsOK, FinalOK, SameEnds, By
<1>7. (\A s \in By : CountOK(d, s))'
  BY SMT, <1>0, <1>2 DEF Good, CountOK, SameCall
<1>8. Kept(d)
  BY <1>2 DEF Kept, SameCall, SameEnds
<1>9. ASSUME disp' = disp PROVE Concerns(d)
  <2>1. \A c : SameEnds(c)
    BY <1>9, SameRecords
  <2>2. \A c \in Dispatches \ {d} : SameCounts(c)
    BY SMT DEF SameCounts
  <2> QED
    BY <1>1, <2>1, <2>2 DEF Concerns, Same, SameEnds
<1> QED
  BY <1>2, <1>3, <1>6, <1>7, <1>8, <1>9 DEF Good

\* A step of the handler of a report, unless it retries.
LEMMA HandlerStep ==
  ASSUME FlowTypeOK, AllGood, NEW d \in Dispatches, NEW by \in By,
         Handler(d, by), ~RetryRun(d, by), UNCHANGED plan
  PROVE  Moves(d)
<1>0. Told(d, by) \in Execution
  BY Parts
<1>a. Good(d)
  BY DEF AllGood
<1>b. disp' = disp => SameEnds(d)
  BY SameRecords
<1>1. CASE Apply(d, by)
  <2> DEFINE done == Told(d, by)
             put == PutExecution(execs, done)
  <2>1. Calls(d, by, "applied", done)
    BY <1>1, CallMoves DEF Apply
  <2>2. /\ Pc(d, by) = "sent" /\ counted' = counted \cup {<<d, by>>}
        /\ execs' = put /\ last' = done.group
        /\ job' = CountDone(job, done, ComputeStatus(put, JobName, done.group))
        /\ UNCHANGED <<trigger, disp, lost, children, breaks, crashes>>
    BY <1>1 DEF Apply, Pc, Told
  <2>3. Good(d)' /\ Kept(d) /\ (\A s \in By \ {by} : SameCall(d, s)) /\ Concerns(d)
    BY <1>b, <2>1, <2>2, CallStep DEF Done
  <2>4. execs' \subseteq Execution
    BY <1>0, <2>2 DEF PutExecution, FlowTypeOK
  <2>5. done.group = d[1]
    BY <1>a, <2>2 DEF Good, ReportsOK, SaysTruth, Belongs
  <2>6. job' \in Job /\ Current'
    BY <1>0, <2>2, ComputeStatusType, CountDoneType DEF FlowTypeOK, Current
  <2>7. FlowTypeOK'
    BY SMT, <2>1, <2>2, <2>4, <2>5, <2>6, DispatchType DEF FlowTypeOK, Calls, OtherCalls
  <2>8. Paid(d) /\ Looked(d)
    BY <2>2, <2>3, <2>6 DEF Paid, Looked, Pending, SameCall
  <2> QED
    BY <2>3, <2>7, <2>8 DEF Moves, Right
<1>2. CASE LoseReport(d, by)
  <2>1. Calls(d, by, "failed", Told(d, by))
    BY <1>2, CallMoves DEF LoseReport
  <2>2. /\ Pc(d, by) = "sent" /\ lost' = lost \cup {d}
        /\ UNCHANGED <<job, execs, trigger, disp, counted, last, children, breaks, crashes>>
    BY <1>2 DEF LoseReport, Pc
  <2>3. Good(d)' /\ Kept(d) /\ (\A s \in By \ {by} : SameCall(d, s)) /\ Concerns(d)
    BY <1>b, <2>1, <2>2, CallStep DEF Done
  <2>4. FlowTypeOK'
    BY <2>1, <2>2 DEF FlowTypeOK, Calls, OtherCalls
  <2>5. Paid(d) /\ Looked(d)
    BY <2>2, <2>3 DEF Paid, Looked, Pending, SameCall
  <2> QED
    BY <2>3, <2>4, <2>5 DEF Moves, Right
<1>c. ASSUME Pc(d, by) \in {"applied", "retrying"}, NEW q \in {"failed", "answered"},
             report' = [report EXCEPT ![<<d, by>>].pc = q],
             UNCHANGED <<job, execs, trigger, disp, counted, last, lost, breaks, crashes>>,
             children' \in [Groups -> Nat],
             Pending(d, by) => q = "failed" \/ (job.status = "success" => children'[d[1]] > 0)
      PROVE  Moves(d)
  <2>1. Calls(d, by, q, Told(d, by))
    BY <1>c, CallMoves
  <2>2. Good(d)' /\ Kept(d) /\ (\A s \in By \ {by} : SameCall(d, s)) /\ Concerns(d)
    <3>1. <<d, by>> \in counted
      BY <1>a, <1>c DEF Good, CountOK
    <3> QED
      BY <1>b, <1>c, <2>1, <3>1, CallStep DEF Done
  <2>3. FlowTypeOK'
    BY <1>c, <2>1 DEF FlowTypeOK, Calls, OtherCalls
  <2>4. Paid(d)
    BY <1>b, <1>c, <2>2 DEF Paid, Owing, SameCall, SameEnds, By
  <2>5. Looked(d)
    BY <1>c, <2>1, <2>2 DEF Looked, Pending, Calls, SameCall
  <2> QED
    BY <2>2, <2>3, <2>4, <2>5 DEF Moves, Right
<1>3. CASE RetryFails(d, by)
  BY <1>c, <1>3 DEF RetryFails, FlowTypeOK, Pc
<1>4. CASE RetryReturns(d, by)
  BY <1>c, <1>4 DEF RetryReturns, Pending, FlowTypeOK, Pc
<1>5. CASE RunDependents(d, by)
  <2>1. /\ children' \in [Groups -> Nat]
        /\ job.status = "success" => children'[d[1]] > 0
    BY SMT, <1>5, DispatchType DEF RunDependents, FlowTypeOK
  <2> QED
    BY <1>c, <1>5, <2>1 DEF RunDependents, Pc
<1>6. CASE NotifyFails(d, by)
  BY <1>c, <1>6 DEF NotifyFails, FlowTypeOK, Pc
<1> QED
  BY <1>1, <1>2, <1>3, <1>4, <1>5, <1>6 DEF Handler

-----------------------------------------------------------------------------
(* Steps that start dispatches, and faults. *)

\* A dispatch is started only once, by Run or by a retry of the report it is
\* named after.
ChainOK ==
  /\ \A d \in Dispatches : Cl(d) # "none" => trigger[d[1]] = "started"
  /\ \A d \in Dispatches, by \in By :
       Retry(d, by) \in Dispatches /\ Cl(Retry(d, by)) # "none" => Pc(d, by) \in Done

\* A step that is right for all dispatches.
AllRight == FlowTypeOK' /\ \A d \in Dispatches : Right(d)

\* The dispatch of a group that is run, or of a report that is retried.
LEMMA DialStep ==
  ASSUME FlowTypeOK, NEW d \in Dispatches, Good(d), Cl(d) = "none",
         NEW b \in Execution, ~b.success, Belongs(b, d),
         Ends(d, "dial", Ag(d), Msgs(d), Got(d), Cut(d), b, Result(d)),
         \A by \in By : SameCall(d, by),
         UNCHANGED <<counted, lost>>
  PROVE  Right(d)
<1>1. Good(d)'
  BY DEF Good, EndsOK, ExecsOK, ReportsOK, SaysTruth, CountOK, FinalOK, Belongs,
         Ends, SameCall, By
<1>2. Kept(d) /\ Paid(d) /\ Looked(d)
  BY DEF Kept, Paid, Looked, Owing, Pending, Ends, SameCall, By
<1> QED
  BY <1>1, <1>2 DEF Right

\* A failed execution is run again.
LEMMA RetryStep ==
  ASSUME FlowTypeOK, AllGood, ChainOK, NEW d \in Dispatches, NEW by \in By,
         RetryRun(d, by), UNCHANGED plan
  PROVE  AllRight
<1> DEFINE e == Retry(d, by)
           b == Told(d, by)
<1>1. /\ Pc(d, by) = "applied" /\ ~b.success
      /\ UNCHANGED <<execs, trigger, counted, last, lost, children, breaks, crashes>>
  BY DEF RetryRun, Retried, Pc, Told
<1>2. e \in Dispatches /\ e[1] = d[1] /\ e # d
  <2>1. e \in Dispatches /\ e[1] = d[1] /\ Len(e[3]) = Len(d[3]) + 1
    BY RetryType DEF RetryRun, Retried, FlowTypeOK
  <2>2. Len(d[3]) \in Nat
    BY SMT, DispatchType, PathType
  <2> QED
    BY SMT, <2>1, <2>2
<1>3. Cl(e) = "none"
  BY <1>1, <1>2 DEF ChainOK, Done
<1>4. b \in Execution /\ Belongs(b, e)
  BY ZenonT(60), <1>1, <1>2, Parts DEF AllGood, Good, ReportsOK, SaysTruth, Belongs
<1>5. Calls(d, by, "retrying", b)
  BY CallMoves DEF RetryRun
<1>6. job' \in Job
  BY RescheduledType, DispatchType DEF RetryRun, FlowTypeOK
<1>7. disp' = [disp EXCEPT ![e].client = "dial", ![e].base = b]
  BY DEF RetryRun, Told
<1> HIDE DEF e, b
<1>8. Becomes(e, "dial", Ag(e), Msgs(e), Got(e), Cut(e), b, Result(e))
  <2>1. "dial" \in ClientStates
    BY DEF ClientStates
  <2> QED
    BY <1>2, <1>4, <1>7, <2>1, ClientDials
<1>9. \A c \in Dispatches \ {e} : SameEnds(c)
  BY <1>8, SameRecords DEF Becomes, Others
<1>10. \A c \in Dispatches, s \in By : <<c, s>> # <<d, by>> => SameCall(c, s)
  BY <1>5, SameRecords DEF Calls, OtherCalls
<1>11. Right(e)
  <2>1. \A s \in By : SameCall(e, s)
    BY <1>2, <1>10
  <2> QED
    BY <1>1, <1>2, <1>3, <1>4, <1>8, <2>1, DialStep DEF AllGood, Becomes
<1>12. Right(d)
  <2>1. <<d, by>> \in counted
    BY <1>1 DEF AllGood, Good, CountOK
  <2>2. SameEnds(d)
    BY <1>2, <1>9
  <2>3. Good(d)' /\ Kept(d)
    BY <1>1, <1>5, <2>1, <2>2, CallStep DEF Done, b
  <2>4. Paid(d)
    BY <1>1, <1>10, <2>2 DEF Paid, Owing, SameEnds, SameCall, By
  <2>5. Looked(d)
    BY <1>1, <1>10 DEF Looked, Pending, SameCall, b
  <2> QED
    BY <2>3, <2>4, <2>5 DEF Right
<1>13. ASSUME NEW c \in Dispatches \ {d, e} PROVE Right(c)
  <2>1. Same(c)
    BY <1>1, <1>9, <1>10 DEF Same, SameCounts
  <2> QED
    BY <2>1, SameRight DEF AllGood
<1>14. FlowTypeOK'
  BY <1>1, <1>5, <1>6, <1>8 DEF FlowTypeOK, Becomes, Others, Calls, OtherCalls
<1> QED
  BY <1>11, <1>12, <1>13, <1>14 DEF AllRight

\* A group is run on its targets.
LEMMA RunStep ==
  ASSUME FlowTypeOK, AllGood, ChainOK, NEW g \in Groups, NEW targets, Run(g, targets), UNCHANGED plan
  PROVE  AllRight
<1>1. /\ trigger[g] = "runnable" /\ trigger' = [trigger EXCEPT ![g] = "started"]
      /\ UNCHANGED <<execs, report, counted, last, lost, children, breaks, crashes>>
  BY DEF Run
<1>2. job' \in Job
  BY RescheduledType, FlowAssumption DEF Run, FlowTypeOK
<1>3. ASSUME NEW d \in Dispatches PROVE disp'[d] \in Dispatch /\ Right(d)
  <2> DEFINE b == Exec(d, 0, 0, FALSE)
             x == disp[d]
             t == [x EXCEPT !.client = "dial", !.base = b]
  <2>0. x \in Dispatch /\ \A by \in By : SameCall(d, by)
    BY <1>1, Parts, SameRecords
  <2>1. b \in Execution /\ ~b.success
    BY ExecType DEF Exec
  <2>2. Belongs(b, d)
    BY DEF Exec, Belongs, Stamps
  <2>3. disp'[d] = x \/ (d[1] = g /\ disp'[d] = t)
    BY DEF Run
  <2> HIDE DEF b
  <2>4. CASE disp'[d] = x
    <3>1. Same(d)
      BY <1>1, <2>0, <2>4, SameRecords DEF Same, SameCounts
    <3> QED
      BY <2>0, <2>4, <3>1, SameRight DEF AllGood
  <2>5. CASE d[1] = g /\ disp'[d] = t
    <3>1. Cl(d) = "none"
      BY <1>1, <2>5 DEF ChainOK
    <3> HIDE DEF x
    <3>2. /\ t \in Dispatch /\ t.client = "dial" /\ t.agent = x.agent /\ t.sent = x.sent
          /\ t.received = x.received /\ t.broken = x.broken /\ t.base = b /\ t.result = x.result
      BY <2>0, <2>1 DEF Dispatch, ClientStates
    <3> HIDE DEF t
    <3>3. Ends(d, "dial", Ag(d), Msgs(d), Got(d), Cut(d), b, Result(d))
      BY <2>5, <3>2 DEF Ends, Cl, Ag, Msgs, Got, Cut, Base, Result, x
    <3> QED
      BY <1>1, <2>0, <2>1, <2>2, <2>5, <3>1, <3>2, <3>3, DialStep DEF AllGood
  <2> QED
    BY <2>3, <2>4, <2>5
<1>4. disp' \in [Dispatches -> Dispatch]
  BY <1>3 DEF Run
<1>5. FlowTypeOK'
  BY <1>1, <1>2, <1>4 DEF FlowTypeOK
<1> QED
  BY <1>3, <1>5 DEF AllRight

\* A stream breaks.
LEMMA BreakStep ==
  ASSUME FlowTypeOK, AllGood, NEW d \in Dispatches, Break(d), UNCHANGED plan
  PROVE  Moves(d)
<1>1. Good(d)
  BY DEF AllGood
<1>2. Becomes(d, Cl(d), Ag(d), Msgs(d), Got(d), TRUE, Base(d), Result(d))
  BY StreamBreaks DEF Break
<1>3. /\ Cl(d) = "recv" /\ breaks' = breaks + 1
      /\ UNCHANGED <<plan, job, execs, trigger, report, counted, last, lost, children, crashes>>
  BY DEF Break, Cl
<1>4. FlowTypeOK' /\ (\A by \in By : SameCall(d, by)) /\ \A c \in Dispatches \ {d} : Same(c)
  BY SMT, <1>2, <1>3, EndMoves DEF Becomes, FlowTypeOK
<1>5. Right(d) /\ (Cl(d) = "none" => Cl(d)' = "none")
  BY <1>1, <1>2, <1>3, <1>4
     DEF Right, Good, EndsOK, ExecsOK, ReportsOK, SaysTruth, CountOK, FinalOK, Belongs,
         Kept, Paid, Owing, Looked, Pending, Ends, SameCall, By, Becomes
<1> QED
  BY <1>4, <1>5 DEF Moves, Concerns

\* What a crash does to the ends of a dispatch.
LEMMA CrashMoves ==
  ASSUME FlowTypeOK, Crash, NEW d \in Dispatches
  PROVE  /\ disp'[d] \in Dispatch
         /\ Msgs(d)' = Msgs(d) /\ Got(d)' = Got(d) /\ Base(d)' = Base(d) /\ Result(d)' = Result(d)
         /\ Cl(d) \in {"none", "closed"} => SameEnds(d)
         /\ Cl(d) \notin {"none", "closed"} =>
              /\ Cl(d)' = "dead" /\ Cut(d)'
              /\ Ag(d)' = IF Cl(d) = "dial" THEN "ended" ELSE Ag(d)
<1> DEFINE x == disp[d]
           t == [x EXCEPT !.client = "dead", !.broken = TRUE,
                          !.agent = IF x.client = "dial" THEN "ended" ELSE @]
<1>1. x \in Dispatch
  BY Parts
<1>2. disp'[d] = IF x.client \in {"none", "closed"} THEN x ELSE t
  BY DEF Crash
<1>3. disp'[d] = x => SameEnds(d)
  BY SameRecords
<1> HIDE DEF x
<1>4. /\ t \in Dispatch
      /\ t.client = "dead" /\ t.sent = x.sent /\ t.received = x.received
      /\ t.broken = TRUE /\ t.base = x.base /\ t.result = x.result
      /\ t.agent = IF x.client = "dial" THEN "ended" ELSE x.agent
  BY <1>1 DEF Dispatch, ClientStates, AgentStates
<1> HIDE DEF t
<1>5. CASE x.client \in {"none", "closed"}
  <2>1. disp'[d] = x
    BY <1>2, <1>5
  <2>2. Cl(d) = x.client
    BY DEF Cl, x
  <2> QED
    BY <1>1, <1>3, <1>5, <2>1, <2>2 DEF SameEnds
<1>6. CASE x.client \notin {"none", "closed"}
  <2>1. disp'[d] = t
    BY <1>2, <1>6
  <2> QED
    BY <1>4, <1>6, <2>1 DEF x, Cl, Ag, Msgs, Got, Cut, Base, Result
<1> QED
  BY <1>5, <1>6

\* What it does to a report.
LEMMA CrashReports ==
  ASSUME FlowTypeOK, Crash, NEW d \in Dispatches, NEW by \in By
  PROVE  /\ report'[<<d, by>>] \in Report
         /\ Told(d, by)' = Told(d, by)
         /\ Pc(d, by)' = IF Pc(d, by) \in {"sent", "applied", "retrying"} THEN "failed" ELSE Pc(d, by)
<1> DEFINE x == report[<<d, by>>]
           t == [x EXCEPT !.pc = "failed"]
<1>1. x \in Report
  BY DEF FlowTypeOK
<1>2. report'[<<d, by>>] = IF x.pc \in {"sent", "applied", "retrying"} THEN t ELSE x
  BY DEF Crash
<1> HIDE DEF x
<1>3. t \in Report /\ t.pc = "failed" /\ t.exec = x.exec
  BY <1>1 DEF Report
<1> HIDE DEF t
<1> QED
  BY <1>1, <1>2, <1>3 DEF x, Pc, Told

\* The dispatching server crashes.
LEMMA CrashStep ==
  ASSUME FlowTypeOK, AllGood, Crash, UNCHANGED plan
  PROVE  AllRight
<1>1. crashes' # 0 /\ crashes' \in Nat
  <2>1. crashes \in Nat /\ crashes' = crashes + 1
    BY DEF Crash, FlowTypeOK
  <2> QED
    BY SMT, <2>1
<1>2. /\ lost \subseteq lost' /\ lost' \subseteq Dispatches
      /\ UNCHANGED <<job, execs, counted, last, children, breaks>>
  BY DEF Crash, FlowTypeOK
<1>3. ASSUME NEW d \in Dispatches PROVE Right(d)
  <2>0. Good(d)
    BY DEF AllGood
  <2>1. \/ \E by \in By : Pc(d, by) = "sent"
        \/ Ag(d) = "ended" /\ Msgs(d) = 2 /\ Cl(d) \in {"recv", "set"}
        => d \in lost'
    BY DEF Crash, Pc, Cl, Ag, Msgs
  <2>2. /\ Msgs(d)' = Msgs(d) /\ Got(d)' = Got(d) /\ Base(d)' = Base(d) /\ Result(d)' = Result(d)
        /\ Cl(d) \in {"none", "closed"} =>
             Cl(d)' = Cl(d) /\ Ag(d)' = Ag(d) /\ Cut(d)' = Cut(d)
        /\ Cl(d) \notin {"none", "closed"} =>
             /\ Cl(d)' = "dead" /\ Cut(d)'
             /\ Ag(d)' = IF Cl(d) = "dial" THEN "ended" ELSE Ag(d)
    BY CrashMoves DEF SameEnds
  <2>3. \A by \in By :
          /\ Told(d, by)' = Told(d, by)
          /\ Pc(d, by)' = IF Pc(d, by) \in {"sent", "applied", "retrying"} THEN "failed" ELSE Pc(d, by)
    BY CrashReports
  <2>4. EndsOK(d)' /\ ExecsOK(d)'
    BY <2>0, <2>2 DEF Good, EndsOK, ExecsOK, Belongs
  <2>5. ReportsOK(d)'
    BY <2>0, <2>2, <2>3 DEF Good, EndsOK, ReportsOK, SaysTruth, Belongs, By
  <2>6. (\A by \in By : CountOK(d, by))'
    BY <1>2, <2>0, <2>1, <2>3 DEF Good, CountOK
  <2>7. FinalOK(d)'
    BY <1>2, <2>0, <2>1, <2>2, <2>3 DEF Good, EndsOK, ExecsOK, FinalOK, By
  <2>8. Kept(d)
    BY <2>0, <2>2, <2>3 DEF Good, EndsOK, Kept, Done
  <2>9. Paid(d) /\ Looked(d)
    BY <1>1, <2>3 DEF Paid, Looked, Pending
  <2> QED
    BY <2>4, <2>5, <2>6, <2>7, <2>8, <2>9 DEF Right, Good
<1>4. disp' \in [Dispatches -> Dispatch]
  BY CrashMoves DEF Crash
<1>5. report' \in [Dispatches \X By -> Report]
  <2>1. \A d \in Dispatches, by \in By : report'[<<d, by>>] \in Report
    BY CrashReports
  <2>2. \A r \in Dispatches \X By : \E d \in Dispatches, by \in By : r = <<d, by>>
    BY SMT
  <2>3. \A r \in Dispatches \X By : report'[r] \in Report
    BY <2>1, <2>2
  <2>4. DOMAIN report' = Dispatches \X By /\ report' = [r \in DOMAIN report' |-> report'[r]]
    BY DEF Crash
  <2> QED
    BY <2>3, <2>4
<1>6. trigger' \in [Groups -> {"none", "runnable", "started"}]
  BY DEF Crash, FlowTypeOK
<1>7. FlowTypeOK'
  BY <1>1, <1>2, <1>4, <1>5, <1>6 DEF FlowTypeOK
<1> QED
  BY <1>3, <1>7 DEF AllRight

\* A step that changes neither dispatches nor reports.
LEMMA QuietStep ==
  ASSUME AllGood, FlowTypeOK', UNCHANGED <<disp, report, counted, lost>>
  PROVE  AllRight
<1>1. \A d \in Dispatches : Same(d)
  BY SameRecords DEF Same, SameCounts
<1> QED
  BY <1>1, SameRight DEF AllGood, AllRight

\* A step of one dispatch is right for all.
LEMMA MovesRight ==
  ASSUME AllGood, NEW d \in Dispatches, Moves(d)
  PROVE  AllRight
BY SameRight DEF AllGood, AllRight, Moves, Concerns

-----------------------------------------------------------------------------
(* What a step does: to all dispatches, to the groups, to the store. *)

\* A dispatch is started by Run or by the retry it is named after.
StartedBy(d) ==
  \/ d[3] = <<>> /\ trigger[d[1]] = "runnable" /\ trigger'[d[1]] = "started"
  \/ \E c \in Started, by \in By :
       /\ d = Retry(c, by)
       /\ Pc(c, by) = "applied" /\ Pc(c, by)' = "retrying"

\* No dispatch starts otherwise.
Starts == \A d \in Dispatches :
  Cl(d) = "none" /\ Cl(d)' # "none" => StartedBy(d)

\* What is never taken back.
Grows ==
  /\ \A g \in Groups : /\ trigger[g] = "started" => trigger'[g] = "started"
                       /\ trigger[g] # "none" => trigger'[g] # "none"
                       /\ children[g] > 0 => children'[g] > 0
  /\ lost \subseteq lost'
  /\ crashes # 0 => crashes' # 0

\* The store, the group reported last and the status stay as they are.
StoreKept == execs' = execs /\ last' = last /\ job'.status = job.status

\* The first message of d is stored, and its server will report.
StoresFirst(d) ==
  /\ Cl(d) = "set" /\ Owing(d)'
  /\ execs' = SetExecution(execs, First(d))
  /\ UNCHANGED <<job, last>>

\* A report of d is stored and counted.
Counts(d, by) ==
  /\ Pc(d, by) = "sent"
  /\ Pc(d, by)' = "applied" /\ Told(d, by)' = Told(d, by)
  /\ execs' = PutExecution(execs, Told(d, by))
  /\ last' = d[1] /\ Current'

\* The store changes with a first message and with a report.
Stores ==
  \/ StoreKept
  \/ \E d \in Dispatches : StoresFirst(d)
  \/ \E d \in Dispatches, by \in By : Counts(d, by)

\* All that the invariants need to know of a step.
Steps == AllRight /\ Starts /\ Grows /\ Stores

\* Nothing starts when one dispatch moves.
LEMMA MovesStarts ==
  ASSUME NEW d \in Dispatches, Moves(d)
  PROVE  Starts
BY DEF Moves, Concerns, Same, SameEnds, Starts

\* So is a step of the server's end.
LEMMA ClientSteps ==
  ASSUME FlowTypeOK, AllGood, NEW d \in Dispatches, Client(d), UNCHANGED plan
  PROVE  Steps
<1>1. Moves(d)
  BY ClientStep
<1>2. AllRight /\ Starts
  BY <1>1, MovesRight, MovesStarts
<1>3. UNCHANGED <<job, last, trigger, children, crashes>>
  BY DEF Client, Open, DialFails, Receive, StoreFirst, StoreFirstFails, ReceiveEOF,
         ReceiveError, ClientReports, ClientReturns
<1>4. lost \subseteq lost'
  BY DEF Client, Open, DialFails, Receive, StoreFirst, StoreFirstFails, ReceiveEOF,
         ReceiveError, ClientReports, ClientReturns
<1>5. StoreFirst(d) \/ execs' = execs
  BY DEF Client, Open, DialFails, Receive, StoreFirstFails, ReceiveEOF,
         ReceiveError, ClientReports, ClientReturns
<1>6. CASE StoreFirst(d)
  <2>1. Cl(d) = "set" /\ execs' = SetExecution(execs, First(d))
    BY <1>6 DEF StoreFirst, Cl
  <2>2. Got(d) = 1
    BY <2>1 DEF AllGood, Good, EndsOK
  <2>3. Becomes(d, "recv", Ag(d), Msgs(d), Got(d), Cut(d),
                Base(d), Result(d))
    <3>1. "recv" \in ClientStates
      BY DEF ClientStates
    <3> QED
      BY <1>6, <3>1, ClientMoves DEF StoreFirst
  <2>4. Owing(d)'
    BY SMT, <2>2, <2>3 DEF Owing, Becomes, Ends
  <2> QED
    BY <1>2, <1>3, <1>4, <2>1, <2>4 DEF Steps, Grows, Stores, StoresFirst
<1>7. CASE execs' = execs
  BY <1>2, <1>3, <1>4, <1>7 DEF Steps, Grows, Stores, StoreKept
<1> QED
  BY <1>5, <1>6, <1>7

\* So is a step of the node's end, and a break.
LEMMA AgentSteps ==
  ASSUME FlowTypeOK, AllGood, NEW d \in Dispatches, Agent(d) \/ Break(d), UNCHANGED plan
  PROVE  Steps
<1>1. Moves(d)
  BY AgentStep, BreakStep
<1>2. AllRight /\ Starts
  BY <1>1, MovesRight, MovesStarts
<1>3. UNCHANGED <<job, execs, last, trigger, children, crashes>>
  BY DEF Agent, AgentStart, AgentFinish, SendFinal, FallBack, AgentReturns, Break
<1>4. lost \subseteq lost'
  BY DEF Agent, AgentStart, AgentFinish, SendFinal, FallBack, AgentReturns, Break
<1> QED
  BY <1>2, <1>3, <1>4 DEF Steps, Grows, Stores, StoreKept

\* So is a step of the handler of a report.
LEMMA HandlerSteps ==
  ASSUME FlowTypeOK, AllGood, ChainOK, NEW d \in Dispatches, NEW by \in By,
         Handler(d, by), UNCHANGED plan
  PROVE  Steps
<1>0. Told(d, by) \in Execution
  BY Parts
<1>1. CASE RetryRun(d, by)
  <2>1. AllRight
    BY <1>1, RetryStep
  <2>2. UNCHANGED <<execs, last, trigger, children, lost, crashes>>
    BY <1>1 DEF RetryRun
  <2>3. job'.status = job.status
    BY <1>1, RescheduledType, DispatchType DEF RetryRun, FlowTypeOK
  <2>4. \A c \in Dispatches : c # Retry(d, by) => Cl(c)' = Cl(c)
    BY <1>1 DEF RetryRun, FlowTypeOK, Cl
  <2>5. StartedBy(Retry(d, by))
    <3>1. Pc(d, by) = "applied" /\ Pc(d, by)' = "retrying"
      <4>1. Pc(d, by) = "applied"
        BY <1>1 DEF RetryRun, Pc
      <4>2. Calls(d, by, "retrying", Told(d, by))
        BY <1>1, CallMoves DEF RetryRun
      <4> QED
        BY <4>1, <4>2 DEF Calls
    <3>2. d \in Started
      BY <3>1 DEF Started, AllGood, Good, ReportsOK, EndsOK, By, Cl
    <3> QED
      BY <3>1, <3>2 DEF StartedBy
  <2>6. Starts
    BY <2>4, <2>5 DEF Starts
  <2> QED
    BY <2>1, <2>2, <2>3, <2>6 DEF Steps, Grows, Stores, StoreKept
<1>2. CASE ~RetryRun(d, by)
  <2>1. Moves(d)
    BY <1>2, HandlerStep
  <2>2. AllRight /\ Starts
    BY <2>1, MovesRight, MovesStarts
  <2>3. UNCHANGED <<trigger, crashes>>
    BY <1>2 DEF Handler, Apply, LoseReport, RetryFails, RetryReturns, RunDependents, NotifyFails
  <2>4. lost \subseteq lost'
    BY <1>2 DEF Handler, Apply, LoseReport, RetryFails, RetryReturns, RunDependents, NotifyFails
  <2>5. \A g \in Groups : children[g] > 0 => children'[g] > 0
    <3>1. \/ children' = children
          \/ children' = [children EXCEPT ![d[1]] = @ + 1]
      BY <1>2 DEF Handler, Apply, LoseReport, RetryFails, RetryReturns, RunDependents, NotifyFails
    <3>2. children \in [Groups -> Nat]
      BY DEF FlowTypeOK
    <3> QED
      BY SMT, <3>1, <3>2
  <2>6. Grows
    BY <2>3, <2>4, <2>5 DEF Grows
  <2>7. CASE Apply(d, by)
    <3> DEFINE done == Told(d, by)
               put == PutExecution(execs, done)
    <3>1. /\ Pc(d, by) = "sent" /\ execs' = put
          /\ job' = CountDone(job, done, ComputeStatus(put, JobName, done.group))
          /\ last' = done.group
      BY <2>7 DEF Apply, Pc, Told
    <3>2. done.group = d[1]
      BY <3>1 DEF AllGood, Good, ReportsOK, SaysTruth, Belongs
    <3>3. Calls(d, by, "applied", done)
      BY <2>7, CallMoves DEF Apply
    <3>4. job \in Job
      BY DEF FlowTypeOK
    <3> HIDE DEF done, put
    <3>5. job'.status = ComputeStatus(put, JobName, d[1])
      BY SMT, <1>0, <3>1, <3>2, <3>4, CountDoneType, ComputeStatusType DEF done
    <3>6. Counts(d, by)
      BY <3>1, <3>2, <3>3, <3>5 DEF Counts, Calls, Current, done, put
    <3> QED
      BY <2>2, <2>6, <3>6 DEF Steps, Stores
  <2>8. CASE ~Apply(d, by)
    <3>1. UNCHANGED <<job, execs, last>>
      BY <1>2, <2>8 DEF Handler, LoseReport, RetryFails, RetryReturns, RunDependents, NotifyFails
    <3> QED
      BY <2>2, <2>6, <3>1 DEF Steps, Stores, StoreKept
  <2> QED
    BY <2>7, <2>8
<1> QED
  BY <1>1, <1>2

\* Groups that fire and run, crashes, and steps of something else.
LEMMA OtherSteps ==
  ASSUME FlowTypeOK, AllGood, ChainOK,
         \/ /\ \E g \in Groups : Fire(g) \/ \E targets \in SUBSET plan.nodes : Run(g, targets)
            /\ UNCHANGED plan
         \/ Crash /\ UNCHANGED plan
         \/ UNCHANGED vars
  PROVE  Steps
<1>1. ASSUME NEW g \in Groups, Fire(g), UNCHANGED plan PROVE Steps
  <2>1. FlowTypeOK' /\ UNCHANGED <<disp, report, counted, lost>>
    BY <1>1 DEF Fire, FlowTypeOK
  <2>2. AllRight
    BY <2>1, QuietStep
  <2>3. Starts
    BY <2>1 DEF Starts, Cl
  <2>4. Grows /\ StoreKept
    BY <1>1 DEF Fire, Grows, StoreKept, FlowTypeOK
  <2> QED
    BY <2>2, <2>3, <2>4 DEF Steps, Stores
<1>2. ASSUME NEW g \in Groups, NEW targets \in SUBSET plan.nodes, Run(g, targets), UNCHANGED plan
      PROVE  Steps
  <2>1. AllRight
    BY <1>2, RunStep
  <2>2. trigger[g] = "runnable" /\ trigger' = [trigger EXCEPT ![g] = "started"]
    BY <1>2 DEF Run
  <2>3. \A d \in Dispatches : Cl(d)' # Cl(d) => d[1] = g /\ d[3] = <<>>
    BY <1>2 DEF Run, Cl
  <2>4. Starts
    BY <2>2, <2>3 DEF Starts, StartedBy, FlowTypeOK
  <2>5. Grows
    BY <1>2, <2>2 DEF Run, Grows, FlowTypeOK
  <2>6. job'.status = job.status
    BY <1>2, RescheduledType, FlowAssumption DEF Run, FlowTypeOK
  <2>7. StoreKept
    BY <1>2, <2>6 DEF Run, StoreKept
  <2> QED
    BY <2>1, <2>4, <2>5, <2>7 DEF Steps, Stores
<1>3. CASE Crash /\ UNCHANGED plan
  <2>1. AllRight
    BY <1>3, CrashStep
  <2>2. Starts
    BY <1>3 DEF Crash, Starts, Cl
  <2>3. crashes' # 0
    <3>1. crashes \in Nat /\ crashes' = crashes + 1
      BY <1>3 DEF Crash, FlowTypeOK
    <3> QED
      BY SMT, <3>1
  <2>4. Grows
    BY <1>3, <2>3 DEF Crash, Grows
  <2>5. StoreKept
    BY <1>3 DEF Crash, StoreKept
  <2> QED
    BY <2>1, <2>2, <2>4, <2>5 DEF Steps, Stores
<1>4. CASE UNCHANGED vars
  <2>1. FlowTypeOK' /\ UNCHANGED <<disp, report, counted, lost>>
    BY <1>4 DEF vars, FlowTypeOK
  <2>2. AllRight
    BY <2>1, QuietStep
  <2>3. Starts
    BY <2>1 DEF Starts, Cl
  <2>4. Grows /\ StoreKept
    BY <1>4 DEF vars, Grows, StoreKept
  <2> QED
    BY <2>2, <2>3, <2>4 DEF Steps, Stores
<1> QED
  BY <1>1, <1>2, <1>3, <1>4

\* Every step is one of these.
LEMMA FlowStep ==
  ASSUME FlowTypeOK, AllGood, ChainOK, [Next]_vars
  PROVE  Steps
<1>1. Started \subseteq Dispatches
  BY DEF Started
<1>2. \/ /\ \E g \in Groups : Fire(g) \/ \E targets \in SUBSET plan.nodes : Run(g, targets)
         /\ UNCHANGED plan
      \/ Crash /\ UNCHANGED plan
      \/ UNCHANGED vars
      \/ (\E d \in Dispatches : Client(d)) /\ UNCHANGED plan
      \/ (\E d \in Dispatches : Agent(d) \/ Break(d)) /\ UNCHANGED plan
      \/ (\E d \in Dispatches, by \in By : Handler(d, by)) /\ UNCHANGED plan
  BY <1>1 DEF Next, Progress
<1> QED
  BY <1>2, OtherSteps, ClientSteps, AgentSteps, HandlerSteps

-----------------------------------------------------------------------------
(* Relations between dispatches, and between dispatches and the store. *)

\* The chain of retries stays in order.
LEMMA ChainStep ==
  ASSUME FlowTypeOK, ChainOK, Steps
  PROVE  ChainOK'
<1>1. ASSUME NEW d \in Dispatches, Cl(d)' # "none" PROVE trigger'[d[1]] = "started"
  <2>1. d[1] \in Groups
    BY DispatchType
  <2>2. CASE Cl(d) # "none"
    BY <2>1, <2>2 DEF ChainOK, Steps, Grows
  <2>3. CASE Cl(d) = "none"
    <3>1. StartedBy(d)
      BY <1>1, <2>3 DEF Steps, Starts
    <3>2. ASSUME NEW c \in Started, NEW by \in By, d = Retry(c, by) PROVE trigger[d[1]] = "started"
      BY <3>2 DEF Started, Retry, ChainOK, Cl
    <3> QED
      BY <2>1, <3>1, <3>2 DEF StartedBy, Steps, Grows
  <2> QED
    BY <2>2, <2>3
<1>2. ASSUME NEW d \in Dispatches, NEW by \in By, Retry(d, by) \in Dispatches,
             Cl(Retry(d, by))' # "none"
      PROVE  Pc(d, by)' \in Done
  <2> DEFINE e == Retry(d, by)
  <2>1. CASE Cl(e) # "none"
    <3>1. Pc(d, by) \in Done
      BY <1>2, <2>1 DEF ChainOK
    <3> QED
      BY <3>1 DEF Steps, AllRight, Right, Kept
  <2>2. CASE Cl(e) = "none"
    <3>1. StartedBy(e)
      BY <1>2, <2>2 DEF Steps, Starts
    <3>2. e[3] # <<>>
      <4>1. e[3] = Append(d[3], by) /\ d[3] \in Seq(By)
        BY DispatchType, PathType DEF Retry
      <4>2. ASSUME NEW s \in Seq(By) PROVE Len(Append(s, by)) # 0
        BY SMT
      <4> QED
        BY SMT, <4>1, <4>2
    <3>3. PICK c \in Started, s \in By : e = Retry(c, s) /\ Pc(c, s)' = "retrying"
      BY <3>1, <3>2 DEF StartedBy
    <3>4. c = d /\ s = by
      BY <3>3, RetryInjective DEF Started
    <3> QED
      BY <3>3, <3>4 DEF Done
  <2> QED
    BY <2>1, <2>2
<1> QED
  BY <1>1, <1>2 DEF ChainOK

\* No stream of the node broke in the group.
Sound(d) == \A b \in Dispatches : b[1] = d[1] /\ b[2] = d[2] => ~Cut(b)

\* Every attempt was reported by the server.
AllClient(d) == \A i \in 1..Len(d[3]) : d[3][i] = "client"

\* c is an earlier attempt of d's group on d's node.
Earlier(c, d) == c[1] = d[1] /\ c[2] = d[2] /\ Len(c[3]) < Len(d[3]) /\ AllClient(c)

\* Where no stream broke the attempts form one line, and all but the last of
\* them have ended and were reported.
TurnsOK ==
  \A d \in Started : Sound(d) =>
    /\ AllClient(d)
    /\ \A c \in Dispatches : Earlier(c, d) =>
         Ag(c) = "ended" /\ Pc(c, "client") \in Done

\* A line has one dispatch of each length.
LEMMA OneLine ==
  ASSUME NEW c \in Dispatches, NEW d \in Dispatches, c[1] = d[1], c[2] = d[2],
         AllClient(c), AllClient(d), Len(c[3]) = Len(d[3])
  PROVE  c = d
<1> DEFINE p == c[3]
           q == d[3]
<1>1. p \in [1..Len(p) -> By] /\ q \in [1..Len(q) -> By]
  BY DispatchType, PathType
<1>2. \A i \in 1..Len(p) : p[i] = q[i]
  BY DEF AllClient
<1>3. Len(p) = Len(q)
  OBVIOUS
<1> HIDE DEF p, q
<1>4. p = q
  BY SMT, <1>1, <1>2, <1>3
<1>5. c = <<c[1], c[2], p>> /\ d = <<d[1], d[2], q>>
  BY DispatchType DEF p, q
<1> QED
  BY <1>4, <1>5

\* Attempts stay in turn.
LEMMA TurnsStep ==
  ASSUME FlowTypeOK, AllGood, TurnsOK, Steps
  PROVE  TurnsOK'
<1> SUFFICES ASSUME NEW d \in Dispatches, Cl(d)' # "none", Sound(d)'
             PROVE  /\ AllClient(d)
                    /\ \A c \in Dispatches : Earlier(c, d) =>
                         Ag(c)' = "ended" /\ Pc(c, "client")' \in Done
  BY DEF TurnsOK, Started, Earlier, AllClient, Cl
<1>1. \A c \in Dispatches : Kept(c)
  BY DEF Steps, AllRight, Right
<1>2. Sound(d)
  BY <1>1 DEF Sound, Kept
<1>3. \A c \in Dispatches :
        Ag(c) = "ended" /\ Pc(c, "client") \in Done =>
        Ag(c)' = "ended" /\ Pc(c, "client")' \in Done
  BY <1>1 DEF Kept, By
<1>4. CASE Cl(d) # "none"
  BY <1>2, <1>3, <1>4 DEF TurnsOK, Started, Cl
<1>5. CASE Cl(d) = "none" /\ d[3] = <<>>
  <2>1. AllClient(d)
    BY SMT, <1>5 DEF AllClient
  <2>2. ASSUME NEW c \in Dispatches PROVE ~Earlier(c, d)
    <3>1. Len(c[3]) \in Nat
      BY SMT, DispatchType, PathType
    <3> QED
      BY SMT, <1>5, <3>1 DEF Earlier
  <2> QED
    BY <2>1, <2>2
<1>6. ASSUME NEW p \in Started, NEW by \in By, d = Retry(p, by),
             Pc(p, by) = "applied", Pc(p, by)' = "retrying"
      PROVE  /\ AllClient(d)
             /\ \A c \in Dispatches : Earlier(c, d) =>
                  Ag(c)' = "ended" /\ Pc(c, "client")' \in Done
  <2>0. p \in Dispatches
    BY DEF Started
  <2>1. p[1] = d[1] /\ p[2] = d[2] /\ d[3] = Append(p[3], by) /\ p[3] \in Seq(By)
    BY <1>6, <2>0, DispatchType, PathType DEF Retry
  <2>2. ~Cut(p) /\ Sound(p)
    BY <1>2, <2>0, <2>1 DEF Sound
  <2>3. by = "client" /\ Ag(p) = "ended"
    <3>1. Good(p)
      BY <2>0 DEF AllGood
    <3> QED
      BY <1>6, <2>2, <3>1 DEF Good, ReportsOK, By
  <2>4. AllClient(p)
    BY <2>2 DEF TurnsOK
  <2>5. AllClient(d) /\ Len(d[3]) = Len(p[3]) + 1 /\ Len(p[3]) \in Nat
    BY SMT, <2>1, <2>3, <2>4 DEF AllClient
  <2>6. ASSUME NEW c \in Dispatches, Earlier(c, d)
        PROVE  Ag(c)' = "ended" /\ Pc(c, "client")' \in Done
    <3>1. Len(c[3]) \in Nat
      BY SMT, DispatchType, PathType
    <3>2. CASE Len(c[3]) < Len(p[3])
      <4>1. Earlier(c, p)
        BY <2>1, <2>6, <3>2 DEF Earlier
      <4> QED
        BY <1>3, <2>2, <4>1 DEF TurnsOK
    <3>3. CASE Len(c[3]) = Len(p[3])
      <4>1. c = p
        BY <2>0, <2>1, <2>4, <2>6, <3>3, OneLine DEF Earlier
      <4> QED
        BY <1>1, <1>6, <2>0, <2>3, <4>1 DEF Kept, Done
    <3> QED
      BY SMT, <2>5, <2>6, <3>1, <3>2, <3>3 DEF Earlier
  <2> QED
    BY <2>5, <2>6
<1>7. Cl(d) = "none" => StartedBy(d)
  BY DEF Steps, Starts
<1> QED
  BY <1>4, <1>5, <1>6, <1>7 DEF StartedBy

\* What a step may add to the store: a first message, or what is reported.
LEMMA Added ==
  ASSUME FlowTypeOK, Steps, NEW e \in execs'
  PROVE  \/ e \in execs
         \/ \E d \in Dispatches : Cl(d) = "set" /\ e = First(d)
         \/ \E d \in Dispatches, by \in By :
              Pc(d, by) = "sent" /\ e = Told(d, by)
<1>1. ASSUME NEW d \in Dispatches, StoresFirst(d)
      PROVE  e \in execs \/ (Cl(d) = "set" /\ e = First(d))
  <2>1. e \in SetExecution(execs, First(d)) /\ Cl(d) = "set"
    BY <1>1 DEF StoresFirst
  <2> QED
    BY <2>1 DEF SetExecution, PutExecution
<1>2. ASSUME NEW d \in Dispatches, NEW by \in By, Counts(d, by)
      PROVE  e \in execs \/ (Pc(d, by) = "sent" /\ e = Told(d, by))
  <2>1. e \in PutExecution(execs, Told(d, by)) /\ Pc(d, by) = "sent"
    BY <1>2 DEF Counts
  <2> QED
    BY <2>1 DEF PutExecution
<1> QED
  BY <1>1, <1>2 DEF Steps, Stores, StoreKept

\* No step stores a success that was none.
LEMMA StoredStep ==
  ASSUME FlowTypeOK, AllGood, NoFalseSuccess, Steps
  PROVE  NoFalseSuccess'
<1> SUFFICES ASSUME NEW e \in execs', e.success
             PROVE  \E d \in Dispatches : Stamp[d] = e.started /\ Result(d)'.success
  BY DEF NoFalseSuccess, Result
<1>1. \A d \in Dispatches : Result(d).success => Result(d)'.success
  BY SMT DEF Steps, AllRight, Right, Kept, NoExec
<1>2. CASE e \in execs
  BY <1>1, <1>2 DEF NoFalseSuccess, Result
<1>3. ASSUME NEW d \in Dispatches, e = First(d) PROVE FALSE
  BY <1>3 DEF First, Exec
<1>4. ASSUME NEW d \in Dispatches, NEW by \in By,
             Pc(d, by) = "sent", e = Told(d, by)
      PROVE  Stamp[d] = e.started /\ Result(d).success
  BY <1>4 DEF AllGood, Good, ReportsOK, SaysTruth
<1> QED
  BY <1>1, <1>2, <1>3, <1>4, Added

\* Until all that was stored is reported, a report is owed.
StatusOK ==
  last # 0 /\ lost = {} /\ crashes = 0 => Current \/ \E d \in Dispatches : Owing(d)

\* A step that changes the store sets the status, or a report is owed after it.
LEMMA StatusStep ==
  ASSUME FlowTypeOK, StatusOK, Steps
  PROVE  StatusOK'
<1> SUFFICES ASSUME last' # 0, lost' = {}, crashes' = 0
             PROVE  Current' \/ \E d \in Dispatches : Owing(d)'
  BY DEF StatusOK
<1>1. lost = {} /\ crashes = 0
  BY DEF Steps, Grows
<1>2. CASE StoreKept
  <2>1. Current => Current'
    BY <1>2 DEF StoreKept, Current
  <2>2. \A d \in Dispatches : Owing(d) => Owing(d)' \/ Current'
    BY DEF Steps, AllRight, Right, Paid
  <2>3. last # 0
    BY <1>2 DEF StoreKept
  <2> QED
    BY <1>1, <2>1, <2>2, <2>3 DEF StatusOK
<1>3. ASSUME NEW d \in Dispatches, StoresFirst(d) PROVE Owing(d)'
  BY <1>3 DEF StoresFirst
<1>4. ASSUME NEW d \in Dispatches, NEW by \in By, Counts(d, by) PROVE Current'
  BY <1>4 DEF Counts
<1> QED
  BY <1>2, <1>3, <1>4 DEF Steps, Stores

-----------------------------------------------------------------------------
(* The theorems. *)

\* The inductive invariant.
FlowInv ==
  /\ FlowTypeOK /\ AllGood /\ ChainOK /\ TurnsOK
  /\ NoFalseSuccess /\ StatusOK

\* It holds initially.
LEMMA FlowInit == Init => FlowInv
<1> SUFFICES ASSUME Init PROVE FlowInv
  OBVIOUS
<1>1. FlowTypeOK
  BY TypeInit
<1>2. ASSUME NEW d \in Dispatches
      PROVE  /\ Cl(d) = "none" /\ Ag(d) = "none" /\ Msgs(d) = 0
             /\ Got(d) = 0 /\ Base(d) = NoExec /\ Result(d) = NoExec
             /\ \A by \in By : Pc(d, by) = "none"
  BY DEF Init, Cl, Ag, Msgs, Got, Base, Result, Pc
<1>3. ~NoExec.success
  BY DEF NoExec
<1>4. AllGood
  <2>1. counted = {}
    BY DEF Init
  <2> SUFFICES ASSUME NEW d \in Dispatches PROVE Good(d)
    BY DEF AllGood
  <2>2. EndsOK(d) /\ ExecsOK(d) /\ FinalOK(d)
    BY SMT, <1>2, <1>3 DEF EndsOK, ExecsOK, FinalOK
  <2>3. ReportsOK(d) /\ \A by \in By : CountOK(d, by)
    BY <1>2, <2>1 DEF ReportsOK, SaysTruth, CountOK, By
  <2> QED
    BY <2>2, <2>3 DEF Good
<1>5. ChainOK /\ TurnsOK
  BY <1>2 DEF ChainOK, TurnsOK, Started, Cl
<1>6. NoFalseSuccess /\ StatusOK
  BY DEF Init, NoFalseSuccess, StatusOK
<1> QED
  BY <1>1, <1>4, <1>5, <1>6 DEF FlowInv

\* Every step keeps it.
LEMMA FlowNext == FlowInv /\ [Next]_vars => FlowInv'
<1> SUFFICES ASSUME FlowInv, [Next]_vars PROVE FlowInv'
  OBVIOUS
<1>1. Steps
  BY FlowStep DEF FlowInv
<1>2. FlowTypeOK' /\ AllGood'
  BY <1>1 DEF Steps, AllRight, Right, AllGood
<1>3. ChainOK' /\ TurnsOK'
  BY <1>1, ChainStep, TurnsStep DEF FlowInv
<1>4. NoFalseSuccess' /\ StatusOK'
  BY <1>1, StoredStep, StatusStep DEF FlowInv
<1> QED
  BY <1>2, <1>3, <1>4 DEF FlowInv

\* The invariant of the flow: types, the state of each dispatch, of the chain of
\* retries, of the attempts on a node, and of the store.
THEOREM FlowInvariant == Spec => []FlowInv
BY FlowInit, FlowNext, PTL DEF Spec

\* The variables keep their types.
THEOREM FlowTypes == Spec => []FlowTypeOK
<1>1. FlowInv => FlowTypeOK
  BY DEF FlowInv
<1> QED
  BY <1>1, FlowInvariant, PTL

\* No execution is stored as a success unless its executor succeeded, whatever
\* streams break, retries run and servers crash (grpc_client.go:425-437,
\* grpc_agent.go:110-112).
THEOREM FalseSuccessSafe == Spec => []NoFalseSuccess
<1>1. FlowInv => NoFalseSuccess
  BY DEF FlowInv
<1> QED
  BY <1>1, FlowInvariant, PTL

\* An execution is counted by both ends only if its stream broke
\* (grpc_client.go:415-437, grpc_agent.go:117-127).
THEOREM CountedOnceSafe == Spec => []CountedOnce
<1>1. FlowInv => CountedOnce
  BY DEF FlowInv, AllGood, Good, CountOK, ReportsOK, CountedOnce, By, Cut
<1> QED
  BY <1>1, FlowInvariant, PTL

\* Where no stream broke, no two attempts of a group run on a node at once:
\* the handler retries only what has ended (grpc.go:203-223).
THEOREM TurnsSafe == Spec => []AttemptsInTurn
<1>1. ASSUME FlowInv PROVE AttemptsInTurn
  <2> SUFFICES ASSUME NEW c \in Started, NEW d \in Started, c[1] = d[1], c[2] = d[2], c # d,
                      Ag(c) = "running", Ag(d) = "running",
                      \A b \in Dispatches : b[1] = d[1] /\ b[2] = d[2] => ~Cut(b)
               PROVE  FALSE
    BY DEF AttemptsInTurn, Ag, Cut
  <2>1. c \in Dispatches /\ d \in Dispatches
    BY DEF Started
  <2>2. Sound(c) /\ Sound(d)
    BY DEF Sound
  <2>3. AllClient(c) /\ AllClient(d) /\ ~Earlier(c, d) /\ ~Earlier(d, c)
    BY <1>1, <2>1, <2>2 DEF FlowInv, TurnsOK
  <2>4. Len(c[3]) \in Nat /\ Len(d[3]) \in Nat
    BY SMT, <2>1, DispatchType, PathType
  <2>5. Len(c[3]) = Len(d[3])
    BY SMT, <2>3, <2>4 DEF Earlier
  <2> QED
    BY <2>1, <2>3, <2>5, OneLine
<1> QED
  BY <1>1, FlowInvariant, PTL

\* When all is quiet, every executor that returned was counted, or a report of
\* it was lost (grpc_agent.go:116-127).
THEOREM CountedSafe == Spec => []FinishedAreCounted
<1>1. ASSUME FlowInv PROVE FinishedAreCounted
  <2> SUFFICES ASSUME Quiet, NEW d \in Dispatches, Result(d) # NoExec
               PROVE  d \in lost \/ \E by \in By : <<d, by>> \in counted
    BY DEF FinishedAreCounted, Result
  <2>1. Good(d)
    BY <1>1 DEF FlowInv, AllGood
  <2>2. d \in Started
    BY <2>1 DEF Started, Good, EndsOK, ExecsOK, Cl
  <2>3. Cl(d) \in {"closed", "dead"} /\ Ag(d) = "ended"
    BY <2>2 DEF Quiet, Cl, Ag
  <2>4. \A by \in By : Pc(d, by) # "none" => <<d, by>> \in counted \/ d \in lost
    BY <2>1, <2>2 DEF Quiet, Good, CountOK, Pc
  <2> QED
    BY <2>1, <2>3, <2>4 DEF Good, FinalOK, By
<1> QED
  BY <1>1, FlowInvariant, PTL

\* When all is quiet, the job has the status of the group reported last, unless
\* a server crashed or a report was lost (store.go:250-254, 480-491).
THEOREM StatusSafe == Spec => []StatusMatchesStore
<1>1. ASSUME FlowInv PROVE StatusMatchesStore
  <2>1. ASSUME Quiet, NEW d \in Dispatches PROVE ~Owing(d)
    BY <2>1 DEF Quiet, Started, Owing, Cl, Pc
  <2> QED
    BY <1>1, <2>1 DEF FlowInv, StatusOK, Current, StatusMatchesStore
<1> QED
  BY <1>1, FlowInvariant, PTL

-----------------------------------------------------------------------------
(* The dependent jobs. *)

\* The executions started after e.
Newer(X, e) == {f \in OfJob(X, JobName) : f.started > e.started}

\* What is evicted is older than as many executions as are kept.
LEMMA OverLimit ==
  ASSUME NEW X, NEW e \in Overflow(X, JobName)
  PROVE  /\ e \in OfJob(X, JobName)
         /\ Cardinality(Newer(X, e)) \in Nat => MaxExecutions \in 0..Cardinality(Newer(X, e))
<1>1. e \in OfJob(X, JobName) /\ Cardinality(Newer(X, e)) >= MaxExecutions
  BY DEF Overflow, Newer
<1> QED
  BY SMT, <1>1, StoreAssumption

\* Every execution bears a stamp, and a newer one that of a dispatch.
LEMMA NewerStarted ==
  ASSUME NEW X, X \subseteq Execution, NEW e \in X, NEW f \in Newer(X, e)
  PROVE  f \in X /\ f.started # 0
<1>1. f \in X /\ f.started > e.started
  BY DEF Newer, OfJob
<1>2. f.started \in Nat /\ e.started \in Nat
  BY <1>1 DEF Execution
<1> QED
  BY SMT, <1>1, <1>2

\* The store has room for one execution of each dispatch and one that never
\* reached its node.
Roomy == IsFiniteSet(Dispatches) /\ Cardinality(Dispatches) < MaxExecutions

\* The theorems about finite sets, and the same two notions by name.
Finite == INSTANCE FiniteSetTheorems

\* Finite!IsFiniteSet and Finite!Cardinality are IsFiniteSet and Cardinality.
LEMMA FiniteIs ==
  \A S : (IsFiniteSet(S) <=> Finite!IsFiniteSet(S)) /\ Cardinality(S) = Finite!Cardinality(S)
  BY DEF IsFiniteSet, Finite!IsFiniteSet, Cardinality, Finite!Cardinality

\* An injection into a finite set bounds its domain.
LEMMA NoMoreThan ==
  ASSUME NEW S, NEW T, NEW f \in [S -> T], IsFiniteSet(T),
         \A a, b \in S : f[a] = f[b] => a = b
  PROVE  /\ Cardinality(S) \in Nat /\ Cardinality(T) \in Nat
         /\ Cardinality(S) <= Cardinality(T)
<1>1. f \in Finite!Injection(S, T)
  BY DEF Finite!Injection, Finite!IsInjective
<1>2. Finite!IsFiniteSet(S) /\ Finite!IsFiniteSet(T) /\ Finite!Cardinality(S) <= Finite!Cardinality(T)
  BY <1>1, FiniteIs, Finite!FS_Injection
<1>3. Finite!Cardinality(S) \in Nat /\ Finite!Cardinality(T) \in Nat
  BY <1>2, Finite!FS_CardinalityType
<1> QED
  BY <1>2, <1>3, FiniteIs

\* One execution is stored under a key, and its key is that of a dispatch.
Keyed(X) ==
  /\ X \subseteq Execution
  /\ \A e \in X : e.job = JobName /\ e.started \in Stamps
  /\ \A e, f \in X : e.started = f.started => e = f

\* Where there is room nothing is evicted.
LEMMA NoOverflow ==
  ASSUME Roomy, NEW X, Keyed(X)
  PROVE  Overflow(X, JobName) = {}
<1> SUFFICES ASSUME NEW e \in Overflow(X, JobName) PROVE FALSE
  OBVIOUS
<1> DEFINE S == Newer(X, e)
           D(f) == CHOOSE d \in Dispatches : Stamp[d] = f.started
           h == [f \in S |-> D(f)]
<1>0. e \in X /\ (Cardinality(S) \in Nat => MaxExecutions \in 0..Cardinality(S))
  BY OverLimit DEF OfJob
<1>1. ASSUME NEW f \in S PROVE D(f) \in Dispatches /\ Stamp[D(f)] = f.started /\ f \in X
  <2>1. f \in X /\ f.started # 0
    BY <1>0, NewerStarted DEF Keyed
  <2>2. \E d \in Dispatches : Stamp[d] = f.started
    BY <2>1 DEF Keyed, Stamps
  <2> QED
    BY <2>1, <2>2
<1> HIDE DEF D
<1>2. h \in [S -> Dispatches]
  BY <1>1
<1>3. \A a, b \in S : h[a] = h[b] => a = b
  <2> SUFFICES ASSUME NEW a \in S, NEW b \in S, h[a] = h[b] PROVE a = b
    OBVIOUS
  <2>1. D(a) = D(b)
    OBVIOUS
  <2>2. a.started = b.started
    BY <1>1, <2>1
  <2>3. a \in X /\ b \in X
    BY <1>1
  <2> QED
    BY <2>2, <2>3 DEF Keyed
<1> HIDE DEF h
<1>4. /\ Cardinality(S) \in Nat /\ Cardinality(Dispatches) \in Nat
      /\ Cardinality(S) <= Cardinality(Dispatches)
  <2> HIDE DEF S
  <2> QED
    BY <1>2, <1>3, NoMoreThan DEF Roomy
<1>5. Cardinality(Dispatches) < MaxExecutions
  BY DEF Roomy
<1> HIDE DEF S
<1>6. MaxExecutions \in Nat
  BY StoreAssumption
<1> QED
  BY SMT, <1>0, <1>4, <1>5, <1>6

\* The keys stay distinct.
LEMMA KeyedPut ==
  ASSUME NEW X, Keyed(X), NEW e \in Execution, e.job = JobName, e.started \in Stamps
  PROVE  Keyed(PutExecution(X, e)) /\ Keyed(SetExecution(X, e))
<1>1. Keyed(PutExecution(X, e))
  BY DEF Keyed, PutExecution, SameKey
<1>2. SetExecution(X, e) \subseteq PutExecution(X, e)
  BY DEF SetExecution
<1> QED
  BY <1>1, <1>2 DEF Keyed

\* Every step keeps the keys distinct.
LEMMA KeyedStep ==
  ASSUME FlowTypeOK, AllGood, Keyed(execs), Steps
  PROVE  Keyed(execs)'
<1>1. CASE StoreKept
  BY <1>1 DEF StoreKept, Keyed
<1>2. ASSUME NEW d \in Dispatches, StoresFirst(d) PROVE Keyed(execs)'
  <2>1. First(d) \in Execution /\ First(d).job = JobName /\ First(d).started \in Stamps
    <3>1. Base(d).finished \in Nat /\ Stamp[d] \in Nat
      BY Parts, StampType DEF Execution
    <3>2. First(d) \in Execution
      BY <3>1, ExecType DEF First, Base
    <3> QED
      BY <3>2 DEF First, Exec, Stamps
  <2>2. Keyed(SetExecution(execs, First(d)))
    BY <2>1, KeyedPut
  <2>3. execs' = SetExecution(execs, First(d))
    BY <1>2 DEF StoresFirst
  <2> QED
    BY <2>2, <2>3 DEF Keyed
<1>3. ASSUME NEW d \in Dispatches, NEW by \in By, Counts(d, by) PROVE Keyed(execs)'
  <2> DEFINE done == Told(d, by)
  <2>1. done \in Execution
    BY Parts
  <2>2. done.job = JobName /\ done.started \in Stamps
    BY <1>3 DEF Counts, AllGood, Good, ReportsOK, SaysTruth, Belongs
  <2>3. execs' = PutExecution(execs, done)
    BY <1>3 DEF Counts
  <2> HIDE DEF done
  <2>4. Keyed(PutExecution(execs, done))
    BY <2>1, <2>2, KeyedPut
  <2> QED
    BY <2>3, <2>4 DEF Keyed
<1> QED
  BY <1>1, <1>2, <1>3 DEF Steps, Stores

\* No other group has fired.
Alone(g) == \A h \in Groups \ {g} : trigger[h] = "none"

\* No report failed.
NoneFailed == \A d \in Dispatches, by \in By : Pc(d, by) # "failed"

\* What is stored and what was reported last is of groups that were run, and no
\* success is stored before a report.
HistoryOK ==
  /\ \A e \in execs : e.group \in Groups /\ trigger[e.group] = "started"
  /\ last # 0 => trigger[last] = "started"
  /\ last = 0 => \A e \in execs : ~e.success

\* A dispatch with a report was run.
LEMMA ReportedRan ==
  ASSUME AllGood, ChainOK, NEW d \in Dispatches, NEW by \in By, Pc(d, by) # "none"
  PROVE  d[1] \in Groups /\ trigger[d[1]] = "started"
<1>1. Cl(d) # "none"
  BY DEF AllGood, Good, ReportsOK, EndsOK, By
<1> QED
  BY <1>1, DispatchType DEF ChainOK

\* Every step keeps the history.
LEMMA HistoryStep ==
  ASSUME FlowTypeOK, AllGood, ChainOK, HistoryOK, Steps
  PROVE  HistoryOK'
<1>0. \A g \in Groups : trigger[g] = "started" => trigger'[g] = "started"
  BY DEF Steps, Grows
<1>1. ASSUME NEW e \in execs' PROVE e.group \in Groups /\ trigger'[e.group] = "started"
  <2>1. CASE e \in execs
    BY <1>0, <2>1 DEF HistoryOK
  <2>2. ASSUME NEW d \in Dispatches, Cl(d) = "set", e = First(d)
        PROVE  e.group \in Groups /\ trigger[e.group] = "started"
    BY <2>2, DispatchType DEF First, Exec, ChainOK
  <2>3. ASSUME NEW d \in Dispatches, NEW by \in By, Pc(d, by) = "sent",
               e = Told(d, by)
        PROVE  e.group \in Groups /\ trigger[e.group] = "started"
    <3>1. e.group = d[1]
      BY <2>3 DEF AllGood, Good, ReportsOK, SaysTruth, Belongs
    <3> QED
      BY <2>3, <3>1, ReportedRan
  <2> QED
    BY <1>0, <2>1, <2>2, <2>3, Added
<1>2. CASE last' = last /\ \A e \in execs' : e \in execs \/ ~e.success
  <2>1. last \in Groups \cup {0}
    BY DEF FlowTypeOK
  <2> QED
    BY <1>0, <1>1, <1>2, <2>1 DEF HistoryOK
<1>3. CASE StoreKept
  BY <1>2, <1>3 DEF StoreKept
<1>4. ASSUME NEW d \in Dispatches, StoresFirst(d) PROVE HistoryOK'
  <2>1. ~First(d).success
    BY DEF First, Exec
  <2>2. execs' = SetExecution(execs, First(d)) /\ last' = last
    BY <1>4 DEF StoresFirst
  <2>3. \A e \in execs' : e \in execs \/ e = First(d)
    BY <2>2 DEF SetExecution, PutExecution
  <2> QED
    BY <1>2, <2>1, <2>2, <2>3
<1>5. ASSUME NEW d \in Dispatches, NEW by \in By, Counts(d, by) PROVE HistoryOK'
  <2>1. last' = d[1] /\ Pc(d, by) # "none"
    BY <1>5 DEF Counts
  <2>2. last' # 0 /\ trigger'[last'] = "started"
    BY <1>0, <2>1, ReportedRan, DispatchType
  <2> QED
    BY <1>1, <2>2 DEF HistoryOK
<1> QED
  BY <1>3, <1>4, <1>5 DEF Steps, Stores

\* A group that is alone and a success has run the dependent jobs, or a handler
\* will.
DependentsOK ==
  \A g \in Groups :
    Alone(g) /\ last = g /\ ComputeStatus(execs, JobName, g) = "success" =>
      /\ job.status = "success"
      /\ NoneFailed => \/ children[g] > 0
                       \/ \E d \in Dispatches, by \in By : d[1] = g /\ Pending(d, by)

\* A group with an execution that is no success is no success.
LEMMA NoSuccess ==
  ASSUME NEW X, NEW g, NEW e \in X, e.job = JobName, e.group = g, ~e.success
  PROVE  ComputeStatus(X, JobName, g) # "success"
BY DEF ComputeStatus, OfJob

\* Every step keeps it, where nothing is evicted.
LEMMA DependentsStep ==
  ASSUME Roomy, FlowTypeOK, AllGood, ChainOK, Keyed(execs), HistoryOK, DependentsOK, Steps
  PROVE  DependentsOK'
<1> DEFINE Handled(g) == NoneFailed' => \/ children'[g] > 0
                                        \/ \E d \in Dispatches, by \in By : d[1] = g /\ Pending(d, by)'
<1> SUFFICES ASSUME NEW g \in Groups, Alone(g)', last' = g,
                    ComputeStatus(execs', JobName, g) = "success"
             PROVE  job'.status = "success" /\ Handled(g)
  BY DEF DependentsOK
<1>1. Alone(g)
  BY DEF Alone, Steps, Grows
<1>2. ASSUME execs' = execs, last = g PROVE job.status = "success" /\ Handled(g)
  <2>1. /\ job.status = "success"
        /\ NoneFailed => \/ children[g] > 0
                         \/ \E d \in Dispatches, by \in By : d[1] = g /\ Pending(d, by)
    BY <1>1, <1>2 DEF DependentsOK
  <2>2. NoneFailed' => NoneFailed
    <3> SUFFICES ASSUME NEW d \in Dispatches, NEW by \in By, Pc(d, by) = "failed"
                 PROVE  Pc(d, by)' = "failed"
      BY DEF NoneFailed
    <3> QED
      BY DEF Steps, AllRight, Right, Kept
  <2>3. children[g] > 0 => children'[g] > 0
    BY DEF Steps, Grows
  <2>4. ASSUME NEW d \in Dispatches, NEW by \in By, d[1] = g, Pending(d, by), NoneFailed'
        PROVE  Pending(d, by)' \/ children'[g] > 0
    BY <2>1, <2>4 DEF Steps, AllRight, Right, Looked, NoneFailed
  <2> QED
    BY <2>1, <2>2, <2>3, <2>4
<1>3. CASE StoreKept
  BY <1>2, <1>3 DEF StoreKept
<1>4. ASSUME NEW d \in Dispatches, StoresFirst(d)
      PROVE  job'.status = "success" /\ Handled(g)
  <2> DEFINE e == First(d)
             put == PutExecution(execs, e)
  <2>1. Cl(d) = "set" /\ execs' = SetExecution(execs, e) /\ job' = job /\ last' = last
    BY <1>4 DEF StoresFirst
  <2>2. e.job = JobName /\ e.group = d[1] /\ ~e.success /\ e.started = Stamp[d]
    BY DEF First, Exec
  <2>3. e \in Execution
    <3>1. Base(d).finished \in Nat /\ Stamp[d] \in Nat
      BY Parts, StampType DEF Execution
    <3> QED
      BY <3>1, ExecType DEF First, Base
  <2>4. d[1] = g
    <3>1. trigger[d[1]] = "started" /\ d[1] \in Groups
      BY <2>1, DispatchType DEF ChainOK
    <3> QED
      BY <1>1, <3>1 DEF Alone
  <2> HIDE DEF e
  <2>5. Overflow(put, JobName) = {}
    <3>1. e.started \in Stamps
      BY <2>2 DEF Stamps
    <3>2. Keyed(put)
      BY <2>2, <2>3, <3>1, KeyedPut
    <3> HIDE DEF put
    <3> QED
      BY <3>2, NoOverflow
  <2>6. execs' = put
    BY <2>1, <2>2, <2>5 DEF SetExecution
  <2>7. e \notin put
    <3> HIDE DEF put
    <3> QED
      BY <2>2, <2>4, <2>6, NoSuccess
  <2>8. put = execs
    BY <2>7 DEF PutExecution
  <2> QED
    BY <1>2, <2>1, <2>6, <2>8
<1>5. ASSUME NEW d \in Dispatches, NEW by \in By, Counts(d, by)
      PROVE  job'.status = "success" /\ Handled(g)
  <2> DEFINE e == Told(d, by)
  <2>1. /\ Pc(d, by) = "sent" /\ execs' = PutExecution(execs, e) /\ last' = d[1]
        /\ Pc(d, by)' = "applied" /\ Told(d, by)' = e
        /\ job'.status = ComputeStatus(execs', JobName, last')
    BY <1>5 DEF Counts, Current
  <2>2. e.job = JobName /\ e.group = d[1]
    BY <2>1 DEF AllGood, Good, ReportsOK, SaysTruth, Belongs
  <2>3. CASE e.success
    BY <2>1, <2>3 DEF Pending
  <2>4. CASE ~e.success
    <3> HIDE DEF e
    <3>1. e \notin execs'
      BY <2>1, <2>2, <2>4, NoSuccess
    <3>2. execs' = execs /\ \E f \in execs : SameKey(e, f)
      BY <2>1, <3>1 DEF PutExecution
    <3>3. PICK f \in execs : SameKey(e, f)
      BY <3>2
    <3>4. f.job = JobName /\ f.group = g
      BY <1>1, <2>2, <3>3 DEF SameKey, HistoryOK, Alone
    <3>5. f.success
      BY <3>2, <3>4, NoSuccess
    <3>6. last # 0 /\ trigger[last] = "started" /\ last \in Groups
      BY <3>5 DEF HistoryOK, FlowTypeOK
    <3>7. last = g
      BY <1>1, <3>6 DEF Alone
    <3> QED
      BY <1>2, <2>1, <3>2, <3>7
  <2> QED
    BY <2>3, <2>4
<1> QED
  BY <1>3, <1>4, <1>5 DEF Steps, Stores

\* Where the store has room for every dispatch, a group that is alone and
\* succeeded has run the dependent jobs once all is quiet, unless a handler
\* returned an error (grpc.go:196-200, 231-248).  Without the room SetExecution
\* may evict the execution that failed, and the group looks a success that no
\* handler has seen (store.go:531-540).
THEOREM DependentsSafe ==
  ASSUME Roomy
  PROVE  Spec => []DependentsRun
<1> DEFINE Inv == FlowInv /\ Keyed(execs) /\ HistoryOK /\ DependentsOK
<1>1. Init => Inv
  <2> SUFFICES ASSUME Init PROVE Inv
    OBVIOUS
  <2>1. execs = {} /\ last = 0
    BY DEF Init
  <2>2. \A g \in Groups : g # 0
    BY FlowAssumption
  <2> QED
    BY <2>1, <2>2, FlowInit DEF Keyed, HistoryOK, DependentsOK
<1>2. Inv /\ [Next]_vars => Inv'
  <2> SUFFICES ASSUME Inv, [Next]_vars PROVE Inv'
    OBVIOUS
  <2>1. Steps
    BY FlowStep DEF FlowInv
  <2> QED
    BY <2>1, FlowNext, KeyedStep, HistoryStep, DependentsStep DEF FlowInv
<1>3. Inv => DependentsRun
  <2> SUFFICES ASSUME Inv, NEW g \in Groups, Quiet, last = g, NoneFailed, Alone(g),
                      ComputeStatus(execs, JobName, g) = "success"
               PROVE  children[g] > 0
    BY DEF DependentsRun, NoneFailed, Alone, Pc
  <2>1. ASSUME NEW d \in Dispatches, NEW by \in By, Pending(d, by) PROVE FALSE
    <3>1. Good(d)
      BY DEF FlowInv, AllGood
    <3>2. d \in Started
      BY <2>1, <3>1 DEF Pending, Started, Good, ReportsOK, EndsOK, By, Cl
    <3> QED
      BY <2>1, <3>2 DEF Pending, Quiet, Pc
  <2> QED
    BY <2>1 DEF DependentsOK
<1> QED
  BY <1>1, <1>2, <1>3, PTL DEF Spec

=============================================================================
