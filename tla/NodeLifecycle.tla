---------------------------- MODULE NodeLifecycle ----------------------------
(***************************************************************************)
(* The life of the node: runRootCommand (internal/commands/root/root.go)   *)
(* starts Node.Run (internal/node/nodeutil/controller.go) in a goroutine,  *)
(* waits for it to be ready, and waits for it to end.  Run starts the pod  *)
(* controller and, when that is ready, the node controller, each in a      *)
(* goroutine; its deferred functions stop both, and the HTTP server.       *)
(*                                                                         *)
(* Three contexts nest: main's, which a signal cancels, the command's and  *)
(* Run's.  A select with several channels ready takes any of them.         *)
(***************************************************************************)

VARIABLES
  limit,      \* is the option StartupTimeout above zero; never changes
  sig,        \* main's context is cancelled
  cmd,        \* progress of runRootCommand
  cmdCancel,  \* the command's context is cancelled
  result,     \* what runRootCommand returns
  run,        \* progress of Run
  runCancel,  \* Run's context is cancelled
  ret,        \* retErr of Run
  nErr,       \* n.err
  ready,      \* n.ready is closed
  done,       \* n.done is closed
  http,       \* the HTTP server
  ctl,        \* [{"pod", "node"} -> state of the controller]
  ctlErr,     \* [{"pod", "node"} -> its error]
  marked      \* readyCb has set the node's condition Ready

command == <<cmd, cmdCancel, result>>
runner  == <<run, runCancel, ret, nErr, ready, done, http, marked>>
workers == <<ctl, ctlErr>>
vars == <<limit, sig, command, runner, workers>>

Controllers == {"pod", "node"}

CmdDone == sig \/ cmdCancel
RunDone == CmdDone \/ runCancel

Ready(k) == ctl[k] \in {"ready", "ended"}    \* its channel Ready is closed
Done(k) == ctl[k] \in {"failed", "ended"}    \* its channel Done is closed

Init ==
  /\ limit \in BOOLEAN /\ sig = FALSE
  /\ cmd = "configuring" /\ cmdCancel = FALSE /\ result = "none"
  /\ run = "off" /\ runCancel = FALSE /\ ret = "none" /\ nErr = "nil"
  /\ ready = FALSE /\ done = FALSE /\ http = "off" /\ marked = FALSE
  /\ ctl = [k \in Controllers |-> "off"]
  /\ ctlErr = [k \in Controllers |-> "nil"]

-----------------------------------------------------------------------------
(* runRootCommand.                                                         *)

\* The options are not valid, or a client, the provider or the node cannot
\* be made: the command returns before it starts Run.
FailConfig ==
  /\ cmd = "configuring"
  /\ cmd' = "returned" /\ result' = "error" /\ cmdCancel' = TRUE
  /\ UNCHANGED <<limit, sig, runner, workers>>

\* go cm.Run(ctx)
StartRun ==
  /\ cmd = "configuring"
  /\ cmd' = "waiting" /\ run' = "servingHTTP"
  /\ UNCHANGED <<limit, sig, cmdCancel, result, runCancel, ret, nErr, ready,
                 done,
                 http, marked, workers>>

\* The select of WaitReady.
WaitReady ==
  /\ cmd = "waiting"
  /\ \/ ready /\ cmd' = "ready" /\ UNCHANGED result
     \/ done /\ cmd' = "stopping" /\ result' = "exited"
     \/ CmdDone /\ cmd' = "stopping" /\ result' = "canceled"
     \/ limit /\ cmd' = "stopping" /\ result' = "timeout"
  /\ UNCHANGED <<limit, sig, cmdCancel, runner, workers>>

\* The last select; Err returns n.err once n.done is closed.
ServeUntilDone ==
  /\ cmd = "ready"
  /\ \/ CmdDone /\ result' = "nil"
     \/ done /\ result' = nErr
  /\ cmd' = "stopping"
  /\ UNCHANGED <<limit, sig, cmdCancel, runner, workers>>

\* The deferred function cancels the context and waits for <-cm.Done().
CancelRun ==
  /\ cmd = "stopping" /\ ~cmdCancel
  /\ cmdCancel' = TRUE
  /\ UNCHANGED <<limit, sig, cmd, result, runner, workers>>

ReturnFromCommand ==
  /\ cmd = "stopping" /\ cmdCancel /\ done
  /\ cmd' = "returned"
  /\ UNCHANGED <<limit, sig, cmdCancel, result, runner, workers>>

-----------------------------------------------------------------------------
(* Run.                                                                    *)

\* runHTTP fails, or serves, or has nothing to serve; the informers and the
\* pod controller are started.
ServeHTTP ==
  /\ run = "servingHTTP"
  /\ \/ /\ run' = "finishing" /\ ret' = "error"
        /\ UNCHANGED <<http, ctl>>
     \/ /\ run' = "waitingPod" /\ http' \in {"on", "off"}
        /\ ctl' = [ctl EXCEPT !["pod"] = "starting"]
        /\ UNCHANGED ret
  /\ UNCHANGED <<limit, sig, command, runCancel, nErr, ready, done, marked,
                 ctlErr>>

\* Mutant of Leave: the deferred function does not see what Run returns.
Leave_Shadowed(to, e) == run' = to /\ e # "none" /\ UNCHANGED ret

\* Run returns e; the function deferred last runs first.
Leave(to, e) == run' = to /\ ret' = e

AwaitPodController ==
  /\ run = "waitingPod"
  /\ \/ RunDone /\ Leave("stoppingPod", nErr) /\ UNCHANGED ctl
     \/ /\ Ready("pod") /\ run' = "waitingNode" /\ UNCHANGED ret
        /\ ctl' = [ctl EXCEPT !["node"] = "starting"]
     \/ Done("pod") /\ Leave("stoppingPod", ctlErr["pod"]) /\ UNCHANGED ctl
  /\ UNCHANGED <<limit, sig, command, runCancel, nErr, ready, done, http,
                 marked, ctlErr>>

AwaitNodeController ==
  /\ run = "waitingNode"
  /\ \/ RunDone /\ Leave("stoppingNode", "canceled") /\ nErr' = "canceled"
     \/ Ready("node") /\ run' = "callingBack" /\ UNCHANGED <<ret, nErr>>
     \/ Done("node") /\ Leave("stoppingNode", ctlErr["node"]) /\ UNCHANGED nErr
  /\ UNCHANGED <<limit, sig, command, runCancel, ready, done, http, marked,
                 workers>>

\* Mutant of CallBack: the error of readyCb is only logged.
CallBack_Ignored ==
  /\ run = "callingBack"
  /\ run' = "closingReady" /\ marked' \in BOOLEAN
  /\ UNCHANGED <<limit, sig, command, runCancel, ret, nErr, ready, done, http,
                 workers>>

\* readyCb fails, or has set the node ready.
CallBack ==
  /\ run = "callingBack"
  /\ \/ Leave("stoppingNode", "error") /\ UNCHANGED marked
     \/ run' = "closingReady" /\ marked' = TRUE /\ UNCHANGED ret
  /\ UNCHANGED <<limit, sig, command, runCancel, nErr, ready, done, http,
                 workers>>

CloseReady ==
  /\ run = "closingReady"
  /\ ready' = TRUE /\ run' = "running"
  /\ UNCHANGED <<limit, sig, command, runCancel, ret, nErr, done, http,
                 marked, workers>>

\* Mutant of AwaitEnd: the error of the controller is not returned.
AwaitEnd_Lost ==
  /\ run = "running"
  /\ \E k \in Controllers : Done(k) /\ Leave("stoppingNode", nErr)
  /\ runCancel' = TRUE
  /\ UNCHANGED <<limit, sig, command, nErr, ready, done, http, marked, workers>>

\* The last select: a controller has ended.
AwaitEnd ==
  /\ run = "running"
  /\ \E k \in Controllers : Done(k) /\ Leave("stoppingNode", ctlErr[k])
  /\ runCancel' = TRUE
  /\ UNCHANGED <<limit, sig, command, nErr, ready, done, http, marked, workers>>

\* Mutants of StopNode: no cancel; no wait.
StopNode_NoCancel ==
  /\ run = "stoppingNode" /\ Done("node")
  /\ run' = "stoppingPod"
  /\ UNCHANGED <<limit, sig, command, runCancel, ret, nErr, ready, done, http,
                 marked, workers>>

StopNode_NoWait ==
  /\ run = "stoppingNode"
  /\ runCancel' = TRUE /\ run' = "stoppingPod"
  /\ UNCHANGED <<limit, sig, command, ret, nErr, ready, done, http, marked,
                 workers>>

\* The deferred cancel(), and <-n.nc.Done().
StopNode ==
  /\ run = "stoppingNode"
  /\ runCancel' = TRUE
  /\ run' = IF Done("node") THEN "stoppingPod" ELSE run
  /\ UNCHANGED <<limit, sig, command, ret, nErr, ready, done, http, marked,
                 workers>>

\* The deferred cancel(), and <-n.pc.Done().
StopPod ==
  /\ run = "stoppingPod"
  /\ runCancel' = TRUE
  /\ run' = IF Done("pod") THEN "closingHTTP" ELSE run
  /\ UNCHANGED <<limit, sig, command, ret, nErr, ready, done, http, marked,
                 workers>>

CloseHTTP ==
  /\ run = "closingHTTP"
  /\ http' = IF http = "on" THEN "closed" ELSE http
  /\ run' = "finishing"
  /\ UNCHANGED <<limit, sig, command, runCancel, ret, nErr, ready, done,
                 marked, workers>>

\* The first deferred function: cancel(); n.err = retErr; close(n.done)
SetErr ==
  /\ run = "finishing"
  /\ runCancel' = TRUE /\ nErr' = ret /\ run' = "closingDone"
  /\ UNCHANGED <<limit, sig, command, ret, ready, done, http, marked, workers>>

CloseDone ==
  /\ run = "closingDone"
  /\ done' = TRUE /\ run' = "ended"
  /\ UNCHANGED <<limit, sig, command, runCancel, ret, nErr, ready, http,
                 marked, workers>>

-----------------------------------------------------------------------------
(* The signal and the two controllers of the library.                      *)

Signal == ~sig /\ sig' = TRUE /\ UNCHANGED <<limit, command, runner, workers>>

BecomeReady(k) ==
  /\ ctl[k] = "starting"
  /\ ctl' = [ctl EXCEPT ![k] = "ready"]
  /\ UNCHANGED <<limit, sig, command, runner, ctlErr>>

End(k, e) ==
  /\ ctl' = [ctl EXCEPT ![k] = IF @ = "ready" THEN "ended" ELSE "failed"]
  /\ ctlErr' = [ctlErr EXCEPT ![k] = e]
  /\ UNCHANGED <<limit, sig, command, runner>>

\* A controller ends with an error at any time, and without one only when
\* its context is cancelled.
Fail(k) == ctl[k] \in {"starting", "ready"} /\ End(k, "error")
Stop(k) == RunDone /\ ctl[k] \in {"starting", "ready"} /\ End(k, "nil")

-----------------------------------------------------------------------------
Command ==
  \/ FailConfig \/ StartRun \/ WaitReady \/ ServeUntilDone
  \/ CancelRun \/ ReturnFromCommand

Run ==
  \/ ServeHTTP \/ AwaitPodController \/ AwaitNodeController \/ CallBack
  \/ CloseReady \/ AwaitEnd \/ StopNode \/ StopPod \/ CloseHTTP
  \/ SetErr \/ CloseDone

Next ==
  \/ Command
  \/ Run
  \/ Signal
  \/ \E k \in Controllers : BecomeReady(k) \/ Fail(k) \/ Stop(k)

Spec == Init /\ [][Next]_vars

-----------------------------------------------------------------------------
(* Properties.                                                             *)

\* Every variable has its type; Run sets n.err from a result it has.
TypeOK ==
  /\ limit \in BOOLEAN /\ sig \in BOOLEAN /\ cmdCancel \in BOOLEAN
  /\ runCancel \in BOOLEAN /\ ready \in BOOLEAN /\ done \in BOOLEAN
  /\ marked \in BOOLEAN
  /\ cmd \in {"configuring", "waiting", "ready", "stopping", "returned"}
  /\ result \in {"none", "nil", "error", "exited", "canceled", "timeout"}
  /\ run \in {"off", "servingHTTP", "waitingPod", "waitingNode",
              "callingBack", "closingReady", "running", "stoppingNode",
              "stoppingPod", "closingHTTP", "finishing", "closingDone", "ended"}
  /\ ret \in {"none", "nil", "error", "canceled"}
  /\ nErr \in {"nil", "error", "canceled"}
  /\ http \in {"off", "on", "closed"}
  /\ ctl \in [Controllers -> {"off", "starting", "ready", "failed", "ended"}]
  /\ ctlErr \in [Controllers -> {"nil", "error"}]

\* Once n.done is closed, and so when the command has returned, neither a
\* controller nor the HTTP server runs, whichever select ended Run.
NothingOutlivesRun ==
  done \/ cmd = "returned" =>
    http # "on" /\ \A k \in Controllers : ctl[k] = "off" \/ Done(k)

\* The command returns without an error only after a signal: the error of a
\* controller that ends by itself reaches it, through n.err.
NilMeansSignal == cmd = "returned" /\ result = "nil" => sig

\* The command goes on to serve only if both controllers have been ready and
\* the node's condition Ready has been set.
ServingMeansReady ==
  cmd = "ready" => marked /\ \A k \in Controllers : Ready(k)

\* After a signal, after the startup timeout, and after any failure of Run,
\* the command returns: no deferred wait is for a controller that nobody
\* has told to stop.
CommandReturns == (sig \/ ret # "none" \/ cmd = "stopping") ~> cmd = "returned"
=============================================================================
