-------------------------- MODULE NodeProgram_proofs --------------------------
(***************************************************************************)
(* Proofs about NodeLifecycle, NodeAliveTime and NodeProgram: the safety   *)
(* properties of the command hold whichever select ends Run and whenever   *)
(* the signal, the timeout or a failure comes; those of the wall time hold *)
(* for every wall time, period and bound; and the composition implements   *)
(* both of its parts, so that what is proved of a part holds of it.        *)
(***************************************************************************)
EXTENDS NodeProgram, TLAPS

-----------------------------------------------------------------------------
(* The command and Run.                                                    *)

\* Run has a result.
Ending == {"stoppingNode", "stoppingPod", "closingHTTP", "finishing",
           "closingDone", "ended"}

Quiet(k) == ctl[k] = "off" \/ Done(k)

\* A context is cancelled only on the way out of the function that has it.
CancelInv ==
  /\ cmdCancel => cmd \in {"stopping", "returned"}
  /\ runCancel => run \in Ending

\* An absent error means that the command's context is cancelled.
NilInv ==
  /\ run \in Ending => ret # "none"
  /\ run \in {"closingDone", "ended"} => nErr = ret
  /\ ret = "nil" => CmdDone
  /\ run \notin Ending =>
       \A k \in Controllers : Done(k) /\ ctlErr[k] = "nil" => CmdDone
  /\ result = "nil" => sig

\* What the deferred functions that have run, and those still to run, stop.
StopInv ==
  /\ cmd = "configuring" => run = "off"
  /\ cmd = "returned" => run = "off" \/ done
  /\ done => run = "ended"
  /\ run \in {"off", "servingHTTP"} =>
       http = "off" /\ ctl["pod"] = "off" /\ ctl["node"] = "off"
  /\ run = "waitingPod" => ctl["node"] = "off"
  /\ run = "stoppingPod" => Quiet("node")
  /\ run \in {"closingHTTP", "finishing", "closingDone", "ended"} =>
       Quiet("pod") /\ Quiet("node")
  /\ run \in {"finishing", "closingDone", "ended"} => http # "on"

\* What Run has seen so far.
ReadyInv ==
  /\ run \in {"waitingNode", "callingBack", "closingReady", "running"} =>
       Ready("pod")
  /\ run \in {"callingBack", "closingReady", "running"} => Ready("node")
  /\ run \in {"closingReady", "running"} => marked
  /\ ready => marked /\ Ready("pod") /\ Ready("node")
  /\ cmd = "ready" => ready

LifeInv == TypeOK /\ CancelInv /\ NilInv /\ StopInv /\ ReadyInv

\* The invariant holds at first.
LEMMA LifeInit == Init => LifeInv
BY DEF Init, LifeInv, TypeOK, CancelInv, NilInv, StopInv, ReadyInv, Ending,
       Quiet, Done, Ready, CmdDone, Controllers

\* The steps of runRootCommand preserve it.
LEMMA LifeCommand == LifeInv /\ Command => LifeInv'
<1> SUFFICES ASSUME LifeInv, Command PROVE LifeInv'
  OBVIOUS
<1> USE DEF LifeInv, TypeOK, CancelInv, NilInv, StopInv, ReadyInv, Ending,
            Quiet, Done, Ready, CmdDone, Controllers, runner, workers
<1>1. CASE FailConfig
  BY <1>1 DEF FailConfig
<1>2. CASE StartRun
  BY <1>2 DEF StartRun
<1>3. CASE WaitReady
  BY <1>3 DEF WaitReady
<1>4. CASE ServeUntilDone
  BY <1>4 DEF ServeUntilDone
<1>5. CASE CancelRun
  BY <1>5 DEF CancelRun
<1>6. CASE ReturnFromCommand
  BY <1>6 DEF ReturnFromCommand
<1> QED
  BY <1>1, <1>2, <1>3, <1>4, <1>5, <1>6 DEF Command

\* The steps of Run preserve it.
LEMMA LifeRun == LifeInv /\ Run => LifeInv'
<1> SUFFICES ASSUME LifeInv, Run PROVE LifeInv'
  OBVIOUS
<1> USE DEF LifeInv, TypeOK, CancelInv, NilInv, StopInv, ReadyInv, Ending,
            Quiet, Done, Ready, CmdDone, RunDone, Controllers, command, workers, Leave
<1>1. CASE ServeHTTP
  BY <1>1 DEF ServeHTTP
<1>2. CASE AwaitPodController
  BY <1>2 DEF AwaitPodController
<1>3. CASE AwaitNodeController
  BY <1>3 DEF AwaitNodeController
<1>4. CASE CallBack
  <2>1. CASE run' = "stoppingNode" /\ ret' = "error" /\ marked' = marked
    BY <1>4, <2>1 DEF CallBack
  <2>2. CASE run' = "closingReady" /\ marked' = TRUE /\ ret' = ret
    BY <1>4, <2>2 DEF CallBack
  <2> QED
    BY <1>4, <2>1, <2>2 DEF CallBack
<1>5. CASE CloseReady
  BY <1>5 DEF CloseReady
<1>6. CASE AwaitEnd
  BY <1>6 DEF AwaitEnd
<1>7. CASE StopNode
  BY <1>7 DEF StopNode
<1>8. CASE StopPod
  BY <1>8 DEF StopPod
<1>9. CASE CloseHTTP
  BY <1>9 DEF CloseHTTP
<1>10. CASE SetErr
  BY <1>10 DEF SetErr
<1>11. CASE CloseDone
  BY <1>11 DEF CloseDone
<1> QED
  BY <1>1, <1>2, <1>3, <1>4, <1>5, <1>6, <1>7, <1>8, <1>9, <1>10, <1>11 DEF Run

\* The signal and the controllers preserve it, at any time.
LEMMA LifeOthers ==
  ASSUME LifeInv,
         \/ Signal
         \/ \E k \in Controllers : BecomeReady(k) \/ Fail(k) \/ Stop(k)
  PROVE  LifeInv'
<1> USE DEF LifeInv, TypeOK, CancelInv, NilInv, StopInv, ReadyInv, Ending,
            Quiet, Done, Ready, CmdDone, RunDone, Controllers, command, runner, workers
<1>1. CASE Signal
  BY <1>1 DEF Signal
<1>2. ASSUME NEW k \in Controllers, BecomeReady(k) PROVE LifeInv'
  BY <1>2 DEF BecomeReady
<1>3. ASSUME NEW k \in Controllers, Fail(k) PROVE LifeInv'
  BY <1>3 DEF Fail, End
<1>4. ASSUME NEW k \in Controllers, Stop(k) PROVE LifeInv'
  BY <1>4 DEF Stop, End
<1> QED
  BY <1>1, <1>2, <1>3, <1>4

\* The invariant is inductive.
LEMMA LifeStep == LifeInv /\ [Next]_vars => LifeInv'
<1>1. LifeInv /\ UNCHANGED vars => LifeInv'
  BY DEF LifeInv, TypeOK, CancelInv, NilInv, StopInv, ReadyInv, Ending, Quiet,
         Done, Ready, CmdDone, Controllers, vars, command, runner, workers
<1> QED
  BY <1>1, LifeCommand, LifeRun, LifeOthers DEF Next

LEMMA LifeInvariant == Spec => []LifeInv
BY LifeInit, LifeStep, PTL DEF Spec

-----------------------------------------------------------------------------
\* Every variable keeps its type; Run sets n.err from a result it has.
THEOREM LifecycleTypeOK == Spec => []TypeOK
BY LifeInvariant, PTL DEF LifeInv

\* When n.done is closed, or the command has returned, neither a controller
\* nor the HTTP server runs: the deferred functions have stopped what the
\* steps before them had started.
THEOREM LifecycleNothingOutlivesRun == Spec => []NothingOutlivesRun
<1>1. LifeInv => NothingOutlivesRun
  BY DEF LifeInv, StopInv, NothingOutlivesRun, Quiet, Controllers
<1> QED
  BY <1>1, LifeInvariant, PTL

\* runRootCommand returns nil only when a signal has come.
THEOREM LifecycleNilMeansSignal == Spec => []NilMeansSignal
<1>1. LifeInv => NilMeansSignal
  BY DEF LifeInv, NilInv, NilMeansSignal
<1> QED
  BY <1>1, LifeInvariant, PTL

\* runRootCommand serves only when both controllers have been ready and the
\* node has been marked ready.
THEOREM LifecycleServingMeansReady == Spec => []ServingMeansReady
<1>1. LifeInv => ServingMeansReady
  BY DEF LifeInv, ReadyInv, ServingMeansReady, Controllers
<1> QED
  BY <1>1, LifeInvariant, PTL

-----------------------------------------------------------------------------
(* The wall time of the node.                                              *)

\* Whatever says that the node is not ready comes from the loop, and the loop
\* says it only when the time is over.
Over == env # "0" /\ elapsed >= Limit

OverInv ==
  /\ loop = "off" => callback = "waiting"
  /\ env = "0" => loop \in {"off", "none"}
  /\ loop = "expired" => Over
  /\ callback \in {"updating", "shared", "reported"} /\ ~node => Over
  /\ callback = "reported" /\ ~api => Over

AliveInv == AliveTypeOK /\ OverInv

\* The invariant of the wall time holds at first.
LEMMA AliveInitInv == AliveInit => AliveInv
<1> SUFFICES ASSUME AliveInit PROVE AliveInv
  OBVIOUS
<1>1. AliveTypeOK
  <2>1. wait \in 0 .. Period /\ elapsed \in 0 .. MaxElapsed
    BY TimesAssumption DEF AliveInit
  <2> QED
    BY <2>1 DEF AliveInit, AliveTypeOK
<1>2. OverInv
  BY DEF AliveInit, OverInv
<1> QED
  BY <1>1, <1>2 DEF AliveInv

\* The loop and the callback preserve it, in any order.
LEMMA AliveStep == AliveInv /\ [AliveNext]_AliveVars => AliveInv'
<1> SUFFICES ASSUME AliveInv, [AliveNext]_AliveVars PROVE AliveInv'
  OBVIOUS
<1> USE TimesAssumption DEF AliveInv, AliveTypeOK, OverInv, Over, Limit
<1>1. CASE ConfigureNode
  <2>1. loop' \in {"off", "none", "starting"} /\ (env = "0" => loop' = "none")
    BY <1>1 DEF ConfigureNode, HasLoop
  <2>2. env' = env /\ wait' = wait /\ elapsed' = elapsed /\ api' = api
        /\ callback' = callback /\ node' = FALSE
    BY <1>1 DEF ConfigureNode
  <2>3. callback = "waiting"
    BY <1>1 DEF ConfigureNode
  <2> QED
    BY <2>1, <2>2, <2>3
<1>2. CASE Tick
  BY <1>2 DEF Tick
<1>3. CASE StartLoop
  BY <1>3 DEF StartLoop
<1>4. CASE Fire
  BY <1>4 DEF Fire, Expired
<1>5. CASE SetNotReady
  BY <1>5 DEF SetNotReady
<1>6. CASE StopLoop
  BY <1>6 DEF StopLoop
<1>7. CASE Register
  BY <1>7 DEF Register
<1>8. CASE SetNodeReady
  BY <1>8 DEF SetNodeReady
<1>9. CASE UpdateStatus
  BY <1>9 DEF UpdateStatus
<1>10. CASE PushStatus
  BY <1>10 DEF PushStatus
<1>11. CASE UNCHANGED AliveVars
  BY <1>11 DEF AliveVars
<1> QED
  BY <1>1, <1>2, <1>3, <1>4, <1>5, <1>6, <1>7, <1>8, <1>9, <1>10, <1>11
     DEF AliveNext, Loop

\* Every variable of the wall time keeps its type.
THEOREM AliveTypes == AliveSpec => []AliveTypeOK
<1>1. AliveInv => AliveTypeOK
  BY DEF AliveInv
<1> QED
  BY <1>1, AliveInitInv, AliveStep, PTL DEF AliveSpec

\* A node that has been set ready is reported as not ready only when its wall
\* time is over, and never if it has none.
THEOREM AliveNotReadyOnlyAfterLimit == AliveSpec => []NotReadyOnlyAfterLimit
<1>1. AliveInv => NotReadyOnlyAfterLimit
  BY DEF AliveInv, OverInv, Over, NotReadyOnlyAfterLimit
<1> QED
  BY <1>1, AliveInitInv, AliveStep, PTL DEF AliveSpec

-----------------------------------------------------------------------------
\* A step of the program is a step or a stutter of its life cycle.
LEMMA StepOfLifecycle == [ProgramNext]_ProgramVars => [Next]_vars
<1> SUFFICES ASSUME [ProgramNext]_ProgramVars PROVE [Next]_vars
  OBVIOUS
<1>1. CASE NewProvider \/ RegisterNode \/ SetReady \/ ReportStatus \/ TimeLoop
           \/ TimePasses
  BY <1>1 DEF NewProvider, RegisterNode, SetReady, ReportStatus, TimeLoop, TimePasses
<1>2. CASE Launch \/ CommandStep
  BY <1>2 DEF Launch, CommandStep, Next, Command
<1>3. CASE ReportReady \/ RunStep
  BY <1>3 DEF ReportReady, RunStep, Next, Run
<1>4. CASE NodeControllerReady
  BY <1>4 DEF NodeControllerReady, Next, Controllers
<1>5. CASE ControllerStep
  BY <1>5 DEF ControllerStep, Next, Controllers
<1>6. CASE SignalStep
  BY <1>6 DEF SignalStep, Next
<1>7. CASE UNCHANGED ProgramVars
  BY <1>7 DEF ProgramVars
<1> QED
  BY <1>1, <1>2, <1>3, <1>4, <1>5, <1>6, <1>7 DEF ProgramNext

\* A step of the program is a step or a stutter of the wall time.
LEMMA StepOfAliveTime == [ProgramNext]_ProgramVars => [AliveNext]_AliveVars
<1> SUFFICES ASSUME [ProgramNext]_ProgramVars PROVE [AliveNext]_AliveVars
  OBVIOUS
<1>1. CASE NewProvider \/ RegisterNode \/ SetReady \/ ReportStatus
  BY <1>1 DEF NewProvider, RegisterNode, SetReady, ReportStatus, AliveNext
<1>2. CASE TimeLoop \/ TimePasses
  BY <1>2 DEF TimeLoop, TimePasses, AliveNext
<1>3. CASE ReportReady
  BY <1>3 DEF ReportReady, AliveNext
<1>4. CASE Launch \/ NodeControllerReady \/ CommandStep \/ RunStep
           \/ SignalStep \/ ControllerStep
  BY <1>4 DEF Launch, NodeControllerReady, CommandStep, RunStep, SignalStep,
              ControllerStep
<1>5. CASE UNCHANGED ProgramVars
  BY <1>5 DEF ProgramVars
<1> QED
  BY <1>1, <1>2, <1>3, <1>4, <1>5 DEF ProgramNext

\* The program implements the life cycle and the wall time of its node: their
\* meeting points only restrict what each may do.
THEOREM ProgramImplementsParts == ProgramSpec => Spec /\ AliveSpec
<1>1. ProgramInit => Init /\ AliveInit
  BY DEF ProgramInit
<1> QED
  BY <1>1, StepOfLifecycle, StepOfAliveTime, PTL DEF ProgramSpec, Spec, AliveSpec

\* Neither a controller nor the HTTP server outlives the command, which returns
\* nil only after a signal and serves only when it is ready; and the node is
\* reported as not ready only when its time is over.
THEOREM ProgramSafety ==
  ProgramSpec => [](/\ NothingOutlivesRun /\ NilMeansSignal
                    /\ ServingMeansReady /\ NotReadyOnlyAfterLimit)
BY ProgramImplementsParts, LifecycleNothingOutlivesRun, LifecycleNilMeansSignal,
   LifecycleServingMeansReady, AliveNotReadyOnlyAfterLimit, PTL
=============================================================================
