----------------------------- MODULE NodeProgram -----------------------------
(***************************************************************************)
(* The program as one process: its life cycle (NodeLifecycle) and the wall *)
(* time of its node (NodeAliveTime), which meet where                      *)
(*   - the provider that NewNode makes configures the node and so starts   *)
(*     aliveTimeLoop, under the context of the command, before Run;        *)
(*   - the node controller registers the node before it is ready;          *)
(*   - readyCb sets the node ready and hands it to the node controller;    *)
(*   - the node controller reports the node for as long as it runs.        *)
(***************************************************************************)
EXTENDS NodeLifecycle, NodeAliveTime

ProgramVars == <<vars, AliveVars>>

ProgramInit == Init /\ AliveInit

Alive == cmd # "returned"   \* main returns when the command does

-----------------------------------------------------------------------------
(* Steps of both parts.                                                    *)

\* newProvider, in NewNode.
NewProvider == cmd = "configuring" /\ ConfigureNode /\ UNCHANGED vars

\* NewNode has returned without an error.
Launch == loop # "off" /\ StartRun /\ UNCHANGED AliveVars

RegisterNode == ctl["node"] = "starting" /\ Register /\ UNCHANGED vars

NodeControllerReady ==
  callback # "waiting" /\ BecomeReady("node") /\ UNCHANGED AliveVars

\* The first half of readyCb: setNodeReady.
SetReady == run = "callingBack" /\ SetNodeReady /\ UNCHANGED vars

\* The second half: UpdateStatus fails, or the controller has the node.
ReportReady ==
  /\ callback = "updating"
  /\ CallBack
  /\ IF marked' THEN UpdateStatus ELSE UNCHANGED AliveVars

ReportStatus == ctl["node"] = "ready" /\ PushStatus /\ UNCHANGED vars

-----------------------------------------------------------------------------
(* Steps of one part.                                                      *)

\* aliveTimeLoop selects between its timer and the context of the command.
TimeLoop == Alive /\ (Loop \/ (CmdDone /\ StopLoop)) /\ UNCHANGED vars

TimePasses == Alive /\ Tick /\ UNCHANGED vars

CommandStep ==
  /\ FailConfig \/ WaitReady \/ ServeUntilDone \/ CancelRun \/ ReturnFromCommand
  /\ UNCHANGED AliveVars

RunStep ==
  /\ \/ ServeHTTP \/ AwaitPodController \/ AwaitNodeController \/ CloseReady
     \/ AwaitEnd \/ StopNode \/ StopPod \/ CloseHTTP \/ SetErr \/ CloseDone
  /\ UNCHANGED AliveVars

SignalStep == Signal /\ UNCHANGED AliveVars

ControllerStep ==
  /\ BecomeReady("pod") \/ (\E k \in Controllers : Fail(k) \/ Stop(k))
  /\ UNCHANGED AliveVars

ProgramNext ==
  \/ NewProvider \/ Launch \/ RegisterNode \/ NodeControllerReady
  \/ SetReady \/ ReportReady \/ ReportStatus
  \/ TimeLoop \/ TimePasses
  \/ CommandStep \/ RunStep \/ SignalStep \/ ControllerStep

ProgramSpec == ProgramInit /\ [][ProgramNext]_ProgramVars

\* The goroutines of the command, of Run and of the time loop go on when they
\* can, and time passes.  A controller ends when its context is cancelled,
\* and the node controller, once ready, reports the node again and again.
\* Nothing else is bound to happen: a controller may never be ready, the node
\* may never be registered, and no signal may come.
FairProgram ==
  /\ ProgramSpec
  /\ WF_ProgramVars(NewProvider \/ Launch \/ CommandStep)
  /\ WF_ProgramVars(RunStep \/ SetReady \/ ReportReady)
  /\ \A k \in Controllers : WF_ProgramVars(Stop(k) /\ UNCHANGED AliveVars)
  /\ WF_ProgramVars(TimePasses) /\ WF_ProgramVars(TimeLoop)
  /\ WF_ProgramVars(ReportStatus)

-----------------------------------------------------------------------------
(* Properties of the composition; those of the parts are checked with it.  *)

\* While the node controller runs, a wall time is enforced: in the end, and
\* for good, the API server has the node not ready, although readyCb may set
\* it ready when the time is over already.
LimitIsEnforced == <>[](env = "limit" /\ ctl["node"] = "ready" => ~api)
=============================================================================
