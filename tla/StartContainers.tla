--------------------------- MODULE StartContainers ---------------------------
(***************************************************************************)
(* The start of the containers of one pod: runScriptParallel and runScript *)
(* (internal/provider/mock/command.go), and the loop of CreatePod that     *)
(* reads the channel of statuses (mock.go).                                *)
(*                                                                         *)
(* A goroutine per container copies the scripts, starts one and waits half *)
(* a second for a goroutine of its own that is in cmd.Wait; one more       *)
(* goroutine waits for them all and closes both channels.  Nobody reads    *)
(* the channel of errors.  What the scripts write, and to which files, is  *)
(* in PodStatus.                                                           *)
(***************************************************************************)
EXTENDS Naturals, Sequences, FiniteSets

CONSTANT N  \* the number of containers of the pod's spec

ASSUME NAssumption == N \in Nat

Containers == 1 .. N

VARIABLES
  next,      \* the container runScriptParallel starts next
  wg,        \* the counter of the WaitGroup
  closer,    \* progress of the goroutine that closes the channels
  caller,    \* progress of CreatePod
  statuses,  \* pod.Status.ContainerStatuses
  errCh,     \* errorChannel
  statusCh,  \* containerStatusChannel
  closed,    \* the channels that are closed
  g,         \* [Containers -> progress of the goroutine of the container]
  outcome,   \* [Containers -> what it has to report]
  waiter,    \* [Containers -> the goroutine in cmd.Wait]
  proc       \* [Containers -> the process of the script]

control  == <<next, closer, caller, statuses>>
channels == <<errCh, statusCh, closed>>
routine  == <<wg, g, outcome, waiter>>
vars == <<control, channels, routine, proc>>

Failure == {"Terminated1", "Terminated10"}

Init ==
  /\ next = 1 /\ wg = 0 /\ closer = "none"
  /\ caller = "starting" /\ statuses = <<>>
  /\ errCh = <<>> /\ statusCh = <<>> /\ closed = {}
  /\ g = [c \in Containers |-> "none"]
  /\ outcome = [c \in Containers |-> "pending"]
  /\ waiter = [c \in Containers |-> "none"]
  /\ proc = [c \in Containers |-> "none"]

-----------------------------------------------------------------------------
(* CreatePod, and the goroutine that closes the channels.                  *)

\* wg.Add(1); go func
Start ==
  /\ caller = "starting" /\ next <= N
  /\ wg' = wg + 1 /\ next' = next + 1
  /\ g' = [g EXCEPT ![next] = "collecting"]
  /\ UNCHANGED <<closer, caller, statuses, channels, outcome, waiter, proc>>

StartCloser ==
  /\ caller = "starting" /\ next = N + 1
  /\ closer' = "waiting" /\ caller' = "ranging"
  /\ UNCHANGED <<next, statuses, channels, routine, proc>>

\* for containerStatus := range containerStatusChan
Receive ==
  /\ caller = "ranging" /\ statusCh # <<>>
  /\ statuses' = Append(statuses, Head(statusCh))
  /\ statusCh' = Tail(statusCh)
  /\ UNCHANGED <<next, closer, caller, errCh, closed, routine, proc>>

LeaveLoop ==
  /\ caller = "ranging" /\ statusCh = <<>> /\ "status" \in closed
  /\ caller' = "done"
  /\ UNCHANGED <<next, closer, statuses, channels, routine, proc>>

\* Mutant of CloseErrors: wg.Wait is missing.
CloseErrors_NoWait ==
  /\ closer = "waiting"
  /\ closed' = closed \cup {"error"} /\ closer' = "closing"
  /\ UNCHANGED <<next, caller, statuses, errCh, statusCh, routine, proc>>

\* wg.Wait(); close(errorChannel)
CloseErrors ==
  /\ closer = "waiting" /\ wg = 0
  /\ closed' = closed \cup {"error"} /\ closer' = "closing"
  /\ UNCHANGED <<next, caller, statuses, errCh, statusCh, routine, proc>>

CloseStatuses ==
  /\ closer = "closing"
  /\ closed' = closed \cup {"status"} /\ closer' = "ended"
  /\ UNCHANGED <<next, caller, statuses, errCh, statusCh, routine, proc>>

-----------------------------------------------------------------------------
(* The goroutine of container c.                                           *)

\* It goes from one place to another, with what it then has to report.
Go(c, from, to, o) ==
  /\ g[c] = from
  /\ g' = [g EXCEPT ![c] = to]
  /\ outcome' = [outcome EXCEPT ![c] = o]
  /\ UNCHANGED <<wg, control>>

\* newCollectScripts
Collect(c) ==
  /\ \/ Go(c, "collecting", "commanding", "pending")
     \/ Go(c, "collecting", "failing", "Terminated1")
  /\ UNCHANGED <<channels, waiter, proc>>

\* len(command) == 0, or prepareCommand and cmd.Start
StartCommand(c) ==
  \/ /\ \/ Go(c, "commanding", "failing", "silent")
        \/ Go(c, "commanding", "failing", "Terminated1")
     /\ UNCHANGED <<channels, waiter, proc>>
  \/ /\ Go(c, "commanding", "opening", "pending")
     /\ proc' = [proc EXCEPT ![c] = "running"]
     /\ UNCHANGED <<channels, waiter>>

\* Getpgid and os.Create, and the start of the goroutine that is in cmd.Wait;
\* with an error the script goes on with nobody to wait for it.
OpenFiles(c) ==
  /\ \/ /\ Go(c, "opening", "failing", "Terminated1")
        /\ UNCHANGED waiter
     \/ /\ Go(c, "opening", "selecting", "pending")
        /\ waiter' = [waiter EXCEPT ![c] = "waiting"]
  /\ UNCHANGED <<channels, proc>>

\* The select of runScript: the result of cmd.Wait is handed over.
TakeResult(c) ==
  /\ waiter[c] = "sending"
  /\ \/ proc[c] = "bad" /\ Go(c, "selecting", "failing", "Terminated1")
     \/ proc[c] = "ok" /\ Go(c, "selecting", "writing", "pending")
  /\ waiter' = [waiter EXCEPT ![c] = "ended"]
  /\ UNCHANGED <<channels, proc>>

\* case <-time.After(time.Second * 1/2)
TimeOut(c) ==
  /\ Go(c, "selecting", "writing", "pending")
  /\ UNCHANGED <<channels, waiter, proc>>

\* ioutil.WriteFile of the pgid
WritePgid(c) ==
  /\ \/ Go(c, "writing", "failing", "Terminated10")
     \/ Go(c, "writing", "reporting", "Running")
  /\ UNCHANGED <<channels, waiter, proc>>

\* Mutant of ErrorRoom: the channel of errors has no buffer, and no reader.
ErrorRoom_None == FALSE

\* make(chan error, len(pod.Spec.Containers))
ErrorRoom == Len(errCh) < N

\* errorChannel <- err; a container without a command then returns.
SendError(c) ==
  /\ ErrorRoom /\ "error" \notin closed
  /\ Go(c, "failing", IF outcome[c] = "silent" THEN "returning" ELSE "reporting",
        outcome[c])
  /\ errCh' = Append(errCh, c)
  /\ UNCHANGED <<statusCh, closed, waiter, proc>>

Status(c) == [name |-> c, state |-> outcome[c]]

\* Mutant of SendStatus: no return after the status of a writePgidError.
SendStatus_NoReturn(c) ==
  /\ Len(statusCh) < N /\ "status" \notin closed
  /\ \/ outcome[c] = "Terminated10" /\ Go(c, "reporting", "reporting", "Running")
     \/ outcome[c] # "Terminated10" /\ Go(c, "reporting", "returning", outcome[c])
  /\ statusCh' = Append(statusCh, Status(c))
  /\ UNCHANGED <<errCh, closed, waiter, proc>>

\* containerStatusChannel <- generateContainerStatus(...)
SendStatus(c) ==
  /\ Len(statusCh) < N /\ "status" \notin closed
  /\ Go(c, "reporting", "returning", outcome[c])
  /\ statusCh' = Append(statusCh, Status(c))
  /\ UNCHANGED <<errCh, closed, waiter, proc>>

\* defer wg.Done()
Return(c) ==
  /\ g[c] = "returning"
  /\ g' = [g EXCEPT ![c] = "ended"] /\ wg' = wg - 1
  /\ UNCHANGED <<control, channels, outcome, waiter, proc>>

-----------------------------------------------------------------------------
(* The script, and the goroutine in cmd.Wait.                              *)

Exit(c) ==
  /\ proc[c] = "running"
  /\ proc' \in {[proc EXCEPT ![c] = r] : r \in {"ok", "bad"}}
  /\ UNCHANGED <<control, channels, routine>>

\* cmd.Wait: the process is reaped, and the goroutine is at its send on
\* resultCh, which has no buffer and which nobody may receive.
Wait(c) ==
  /\ waiter[c] = "waiting" /\ proc[c] \in {"ok", "bad"}
  /\ waiter' = [waiter EXCEPT ![c] = "sending"]
  /\ UNCHANGED <<control, channels, wg, g, outcome, proc>>

-----------------------------------------------------------------------------
CreatePod == Start \/ StartCloser \/ Receive \/ LeaveLoop
Closer == CloseErrors \/ CloseStatuses
Goroutine(c) ==
  \/ Collect(c) \/ StartCommand(c) \/ OpenFiles(c) \/ TakeResult(c)
  \/ TimeOut(c) \/ WritePgid(c) \/ SendError(c) \/ SendStatus(c) \/ Return(c)

Next ==
  \/ CreatePod
  \/ Closer
  \/ \E c \in Containers : Goroutine(c) \/ Exit(c) \/ Wait(c)

Spec == Init /\ [][Next]_vars

\* Every goroutine runs, and file operations end; a script may run for ever.
FairSpec ==
  /\ Spec
  /\ WF_vars(CreatePod) /\ WF_vars(Closer)
  /\ \A c \in Containers : WF_vars(Goroutine(c)) /\ WF_vars(Wait(c))

-----------------------------------------------------------------------------
(* Properties.                                                             *)

\* Every variable has its type; no channel holds more than its capacity.
TypeOK ==
  /\ next \in 1 .. N + 1 /\ wg \in 0 .. N
  /\ closer \in {"none", "waiting", "closing", "ended"}
  /\ caller \in {"starting", "ranging", "done"}
  /\ closed \subseteq {"error", "status"}
  /\ Len(errCh) \in 0 .. N /\ Len(statusCh) \in 0 .. N
  /\ Len(statuses) \in 0 .. N
  /\ g \in [Containers -> {"none", "collecting", "commanding", "opening",
              "selecting", "writing", "failing", "reporting", "returning", "ended"}]
  /\ outcome \in [Containers -> {"pending", "silent", "Running"} \cup Failure]
  /\ waiter \in [Containers -> {"none", "waiting", "sending", "ended"}]
  /\ proc \in [Containers -> {"none", "running", "ok", "bad"}]

\* The channels are closed when every goroutine is past its sends: none of
\* them panics on a closed channel, however late the half second ends.
ClosedAfterSends ==
  closed # {} => \A c \in Containers : g[c] = "ended"

\* CreatePod gets out of its loop, with a script that runs for ever or one
\* that ends at any time, and although nobody reads the errors.
CreatePodGoesOn == <>(caller = "done")

Starts == INSTANCE ContainerStarts
            WITH entries <- statuses, done <- caller = "done"

\* CreatePod gets one entry of every container but those without a command,
\* with the state its goroutine has found, and goes on when it has them all.
ImplementsStarts == Starts!Spec
=============================================================================
