----------------------------- MODULE PodStatus -----------------------------
(***************************************************************************)
(* The status of one pod: CreatePod starts its containers and gives them   *)
(* their first statuses (mock.go, command.go); every five seconds the      *)
(* status loop looks at their processes and computes the next statuses and *)
(* the phase (GetPods in mock.go, createPodStatusFromContainerStatus in    *)
(* monitor.go).  CreatePod runs in a worker of the pod controller and the  *)
(* loop in a goroutine of its own; nothing orders the two.                 *)
(***************************************************************************)
EXTENDS Naturals

CONSTANT N              \* the number of containers of the pod's spec

ASSUME NAssumption == N \in Nat \ {0}

Containers == 1 .. N    \* in the order of pod.Spec.Containers

VARIABLES
  create,    \* progress of CreatePod
  started,   \* the containers whose goroutine has ended
  phase,     \* pod.Status.Phase
  startTime, \* is pod.Status.StartTime set
  status,    \* [Containers -> the entry of pod.Status.ContainerStatuses]
  procs,     \* [Containers -> the processes of its group, zombies included]
  stderr,    \* [Containers -> what its stderr file is]
  exit,      \* [Containers -> how its script has ended]
  loop,      \* the container the status loop is at; 0 between two rounds
  startRead, \* was StartTime set when the round began
  seen,      \* what the loop has read of the container it is at
  fresh,     \* [Containers -> the entry computed in this round]
  crashed    \* the process has panicked

creation == <<create, started>>
pod      == <<phase, startTime, status>>
world    == <<procs, stderr, exit>>
round    == <<loop, startRead, seen, fresh>>
vars == <<creation, pod, world, round, crashed>>

Absent  == [state |-> "absent", code |-> 0]   \* no entry
Zero    == [state |-> "zero", code |-> 0]     \* the zero v1.ContainerStatus
Running == [state |-> "Running", code |-> 0]
Terminated(code) == [state |-> "Terminated", code |-> code]

ExitCodes == {0, 1, 2, 3, 10}
Statuses == {Absent, Zero, Running} \cup {Terminated(x) : x \in ExitCodes}

Ended == {"Failed", "Succeeded"}
Unseen == [procs |-> {}, stderr |-> "none"]

\* The program runs, and goes on running.
Up == ~crashed /\ UNCHANGED crashed

Init ==
  /\ create = "idle" /\ started = {}
  /\ phase = "Pending" /\ startTime = FALSE
  /\ status = [c \in Containers |-> Absent]
  /\ procs = [c \in Containers |-> {}]
  /\ stderr = [c \in Containers |-> "missing"]
  /\ exit = [c \in Containers |-> "none"]
  /\ loop = 0 /\ startRead = FALSE /\ seen = Unseen
  /\ fresh = [c \in Containers |-> Zero]
  /\ crashed = FALSE

-----------------------------------------------------------------------------
(* CreatePod.                                                              *)

\* The pod goes into the map; its volumes are written, or CreatePod returns.
StorePod ==
  /\ Up
  /\ create = "idle"
  /\ create' \in {"starting", "failed"}
  /\ UNCHANGED <<started, pod, world, round>>

\* The goroutine of container c ends: s is the status it has sent (Absent if
\* none), p the processes it leaves, f its stderr file, e its script's end.
EndStart(c, s, p, f, e) ==
  /\ Up
  /\ create = "starting" /\ c \notin started
  /\ started' = started \cup {c}
  /\ status' = [status EXCEPT ![c] = s]
  /\ procs' = [procs EXCEPT ![c] = p]
  /\ stderr' = [stderr EXCEPT ![c] = f]
  /\ exit' = [exit EXCEPT ![c] = e]
  /\ UNCHANGED <<create, phase, startTime, round>>

\* newCollectScripts or cmd.Start fails: no process.
CollectOrStartError(c) == EndStart(c, Terminated(1), {}, "missing", "none")

\* No command: an error, and no status.
NoCommand(c) == EndStart(c, Absent, {}, "missing", "none")

\* Getpgid or os.Create fails after cmd.Start: the process goes on.
LateStartError(c) ==
  \E p \in {{}, {"script"}} : EndStart(c, Terminated(1), p, "missing", "none")

\* Mutant of WaitError: the exit code is the script's own.
WaitError_OwnCode(c) ==
  \E p \in {{}, {"child"}}, f \in {"empty", "written"} :
    EndStart(c, Terminated(127), p, f, "bad")

\* The script ends within half a second, and cmd.Wait returns an error.
WaitError(c) ==
  \E p \in {{}, {"child"}}, f \in {"empty", "written"} :
    EndStart(c, Terminated(1), p, f, "bad")

\* How a script may be when runScript returns no error: ended well, or
\* running after half a second.
Launched(p, e) == \/ p \subseteq {"child"} /\ e = "ok"
                  \/ "script" \in p /\ e = "none"

\* The script is launched and the file of its pgid cannot be written.
WritePgidError(c) ==
  \E p \in SUBSET {"script", "child"}, f \in {"empty", "written"},
     e \in {"none", "ok"} :
    Launched(p, e) /\ EndStart(c, Terminated(10), p, f, e)

StartOk(c) ==
  \E p \in SUBSET {"script", "child"}, f \in {"empty", "written"},
     e \in {"none", "ok"} :
    Launched(p, e) /\ EndStart(c, Running, p, f, e)

Present == {c \in Containers : status[c].state # "absent"}
IsBad(s) == s.state = "Terminated" /\ s.code # 0

\* badContainers == len(pod.Status.ContainerStatuses): the pod has failed.
FailPod ==
  /\ Up
  /\ create = "starting" /\ started = Containers
  /\ \A c \in Present : IsBad(status[c])
  /\ phase' = "Failed" /\ startTime' = TRUE /\ create' = "done"
  /\ UNCHANGED <<started, status, world, round>>

\* pod.Status.Phase = v1.PodRunning, three lines before the StartTime.
MarkRunning ==
  /\ Up
  /\ create = "starting" /\ started = Containers
  /\ \E c \in Present : ~IsBad(status[c])
  /\ phase' = "Running" /\ create' = "marked"
  /\ UNCHANGED <<started, startTime, status, world, round>>

SetStartTime ==
  /\ Up
  /\ create = "marked"
  /\ startTime' = TRUE /\ create' = "done"
  /\ UNCHANGED <<started, phase, status, world, round>>

CreatePod ==
  \/ StorePod \/ FailPod \/ MarkRunning \/ SetStartTime
  \/ \E c \in Containers :
       \/ CollectOrStartError(c) \/ NoCommand(c) \/ LateStartError(c)
       \/ WaitError(c) \/ WritePgidError(c) \/ StartOk(c)

-----------------------------------------------------------------------------
(* The processes of the containers.                                        *)

Fork(c) ==
  /\ Up
  /\ procs[c] # {} /\ "child" \notin procs[c]
  /\ procs' = [procs EXCEPT ![c] = @ \cup {"child"}]
  /\ UNCHANGED <<creation, pod, stderr, exit, round>>

\* A process exits and is reaped.  In between it is a zombie, which only
\* InspectPids can tell from a live process.
ExitProcess(c) ==
  \E x \in procs[c] :
    /\ Up
    /\ procs' = [procs EXCEPT ![c] = @ \ {x}]
    /\ \/ x = "script" /\ exit' \in {[exit EXCEPT ![c] = r] : r \in {"ok", "bad"}}
       \/ x # "script" /\ UNCHANGED exit
    /\ UNCHANGED <<creation, pod, stderr, round>>

\* What the script writes is copied to the file, or lost on the way.
WriteStderr(c) ==
  /\ Up
  /\ procs[c] # {} /\ stderr[c] = "empty"
  /\ stderr' = [stderr EXCEPT ![c] = "written"]
  /\ UNCHANGED <<creation, pod, procs, exit, round>>

\* The file is beside the script; containers, of any pod, whose image names no
\* script have ./stderr in common, and any container may be one of them.  The
\* start of another one empties the file, and its script writes to it.
ShareStderr(c) ==
  /\ Up
  /\ c \in started
  /\ stderr' \in {[stderr EXCEPT ![c] = f] : f \in {"empty", "written"}}
  /\ UNCHANGED <<creation, pod, procs, exit, round>>

Processes ==
  \E c \in Containers :
    Fork(c) \/ ExitProcess(c) \/ WriteStderr(c) \/ ShareStderr(c)

-----------------------------------------------------------------------------
(* The status loop.                                                        *)

\* Mutant of Skipped: the phase Failed is not skipped.
Skipped_NotFailed == {"Succeeded", "Pending"}

\* GetPods passes over the pods in these phases.
Skipped == {"Failed", "Succeeded", "Pending"}

BeginRound ==
  /\ Up
  /\ loop = 0 /\ create # "idle" /\ phase \notin Skipped
  /\ loop' = 1 /\ startRead' = startTime /\ seen' = Unseen
  /\ fresh' = [c \in Containers |-> Zero]
  /\ UNCHANGED <<creation, pod, world>>

\* The loop has the entry of container loop.
Enter(s) ==
  /\ Up
  /\ fresh' = [fresh EXCEPT ![loop] = s]
  /\ loop' = loop + 1 /\ seen' = Unseen
  /\ UNCHANGED <<creation, pod, world, startRead>>

AtContainer == loop \in Containers /\ seen = Unseen

\* Mutant of PassOver: the list of new entries leaves the container out.
PassOver_Dropped ==
  /\ AtContainer /\ status[loop].state \in {"absent", "zero"}
  /\ Enter(Absent)

\* No entry of that name: the new entry is never assigned.
PassOver ==
  /\ AtContainer /\ status[loop].state \in {"absent", "zero"}
  /\ Enter(Zero)

IsStartError(s) == s = Terminated(1)

\* Mutant of KeepStartError: the entry is computed anew from no process.
KeepStartError_Redone ==
  /\ AtContainer /\ IsStartError(status[loop])
  /\ Enter(Terminated(0))

\* Exit code 1 is kept.
KeepStartError ==
  /\ AtContainer /\ IsStartError(status[loop])
  /\ Enter(status[loop])

Examined == AtContainer /\ status[loop].state \in {"Running", "Terminated"}
                        /\ ~IsStartError(status[loop])

\* The pids cannot be listed, or the stderr file is not there.
ExamineError ==
  /\ Examined
  /\ Enter(Terminated(2))

\* process.Pids, then os.Stat of the stderr file.
ListPids ==
  /\ Up
  /\ Examined /\ stderr[loop] # "missing"
  /\ seen' = [procs |-> procs[loop], stderr |-> stderr[loop]]
  /\ UNCHANGED <<creation, pod, world, loop, startRead, fresh>>

\* getProcessStatus asks each listed pid again; those forked since are not
\* asked.  A zombie does not count, nor a live process whose parent has gone
\* in between or whose command line cannot be read; one that is reaped after
\* that counts, as the error of its status is ignored.
InspectPids ==
  /\ loop \in Containers /\ seen # Unseen
  /\ \E counted \in SUBSET seen.procs :
       Enter(IF counted # {} THEN Running
             ELSE Terminated(IF seen.stderr = "written" THEN 3 ELSE 0))

\* Mutant of AllTerminated: a container with an error does not count.
AllTerminated_ZeroOnly == \A c \in Present : status[c] = Terminated(0)

\* checkTerminatedContainer, of the entries of the previous round.
AllTerminated == \A c \in Present : status[c].state = "Terminated"
AllExitZero == \A c \in Present : status[c].state = "Terminated" => status[c].code = 0

\* The phase is decided, and the new entries replace the old.  The
\* conditions dereference the StartTime read when the round began.
EndRound ==
  /\ Up
  /\ loop = N + 1 /\ startRead
  /\ phase' = IF ~AllTerminated THEN "Running"
              ELSE IF AllExitZero THEN "Succeeded" ELSE "Failed"
  /\ status' = fresh
  /\ loop' = 0 /\ startRead' = FALSE
  /\ fresh' = [c \in Containers |-> Zero]
  /\ UNCHANGED <<creation, startTime, world, seen>>

Panic ==
  /\ ~crashed /\ loop = N + 1 /\ ~startRead
  /\ crashed' = TRUE
  /\ UNCHANGED <<creation, pod, world, round>>

Loop ==
  \/ BeginRound \/ PassOver \/ KeepStartError \/ ExamineError \/ ListPids
  \/ InspectPids \/ EndRound \/ Panic

Next == CreatePod \/ Processes \/ Loop

Spec == Init /\ [][Next]_vars

\* The timer of the loop fires again and again, and the worker of CreatePod
\* runs; nothing makes a process exit.
FairSpec == Spec /\ WF_vars(CreatePod) /\ WF_vars(Loop)

-----------------------------------------------------------------------------
(* Properties.                                                             *)

\* Every variable has its type, and the loop is within the spec's containers.
TypeOK ==
  /\ create \in {"idle", "starting", "failed", "marked", "done"}
  /\ started \subseteq Containers
  /\ phase \in {"Pending", "Running"} \cup Ended
  /\ startTime \in BOOLEAN /\ startRead \in BOOLEAN /\ crashed \in BOOLEAN
  /\ status \in [Containers -> Statuses] /\ fresh \in [Containers -> Statuses]
  /\ procs \in [Containers -> SUBSET {"script", "child"}]
  /\ stderr \in [Containers -> {"missing", "empty", "written"}]
  /\ exit \in [Containers -> {"none", "ok", "bad"}]
  /\ loop \in 0 .. N + 1
  /\ seen.procs \subseteq {"script", "child"}
  /\ seen.stderr \in {"none", "empty", "written"}

\* The loop leaves a pod that has ended alone, whatever its processes do.
EndedIsFinal == [][(phase \in Ended) => UNCHANGED <<phase, status>>]_vars

\* A pod with a container that failed to start, which its exit code 1 or the
\* lack of a stderr file tells, is never reported as Succeeded, however many
\* rounds look at it: the loop finds no process of it and must not conclude
\* that it is done.
FailedStartNeverSucceeds ==
  phase = "Succeeded" =>
    \A c \in Containers : ~IsStartError(status[c]) /\ stderr[c] # "missing"

\* A pod is never reported as Succeeded when one of its containers has no
\* entry: the entry of a container without a command never terminates.
SucceededMeansAllRan ==
  phase = "Succeeded" =>
    \A c \in Containers : status[c].state \in {"Running", "Terminated"}

\* A pod whose containers all have an entry and no process left ends, unless
\* the loop has panicked on a pod that had no StartTime yet.
PodEnds ==
  (/\ create = "done" /\ Present = Containers
   /\ \A c \in Containers : procs[c] = {} /\ status[c].state # "zero")
    ~> phase \in Ended \/ crashed

\* What README.md:86 says of exit code 0: "Container is done without errors".
\* The exit status of a script that runs longer than half a second is lost.
CompletedMeansNoError ==
  \A c \in Containers : status[c] = Terminated(0) => exit[c] # "bad"
=============================================================================
