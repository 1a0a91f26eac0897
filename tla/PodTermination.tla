--------------------------- MODULE PodTermination ---------------------------
(***************************************************************************)
(* Termination of a pod: DeletePod and deletePod of MockProvider           *)
(* (internal/provider/mock/mock.go).                                       *)
(*                                                                         *)
(* A container is a Unix process group; its ContainerID is the id the      *)
(* group had when it was started, the pid of its first leader, or "0" for  *)
(* a container that never started.  deletePod starts a goroutine per       *)
(* container status, which lists the user's pids once and starts a         *)
(* goroutine per listed pid, first to send SIGSTOP and then to send        *)
(* SIGKILL.  All of them report on one channel, whose capacity is the      *)
(* number of containers and whose reader leaves at the first error.        *)
(*                                                                         *)
(* A pid is a name: the kernel gives it to another process once the        *)
(* process that had it is reaped and no group is called by it.             *)
(***************************************************************************)
EXTENDS Naturals, Sequences, FiniteSets

CONSTANTS
  Containers,   \* the container statuses of the deleted pod
  Pids,         \* the pids the kernel gives to processes of the user
  Blanks,       \* those whose processes have a blank in their program's name
  Leader,       \* [Containers -> Pids \cup {NoGroup}]: their ContainerID
  NoGroup,      \* the ContainerID "0": no group has it
  Outside,      \* the kubelet or init: no container's group, never dies
  MaxReuse      \* bound: how often a pid is given to another process

ASSUME ContainersAssumption == IsFiniteSet(Containers)

ASSUME LeaderAssumption ==
  /\ Leader \in [Containers -> Pids \cup {NoGroup}]
  /\ Blanks \subseteq Pids /\ Outside \notin Pids /\ NoGroup \notin Pids
  /\ MaxReuse \in Nat

VARIABLES
  st,      \* [Pids -> state of the process that has the pid]
  parent,  \* [Pids -> Pids \cup {Outside}]: its parent process
  pgid,    \* [Pids -> Pids]: its process group
  own,     \* [Pids -> "pod", "other" or "nobody"]: who has, or last had, it
  reuses,  \* how often a pid has been given to another process
  changed, \* history: pids that passed between the pod and another program
  stored,  \* is the pod in the map p.pods
  dir,     \* which pod's volumes are in $HOME/<namespace>/<name>
  call,    \* progress of the DeletePod call
  result,  \* what deletePod returned
  nils,    \* messages the loop at the end of deletePod has received
  errCh,   \* the channel errCh
  gr,      \* [Containers -> progress of the goroutine of the container]
  snap,    \* [Containers -> SUBSET Pids]: its pids
  listed,  \* history: those of snap that name the process they were listed for
  sub,     \* [Containers -> [Pids -> progress of the goroutine of the pid]]
  hit,     \* [Containers -> SUBSET Pids]: their pgid was read, and is its id
  ppid     \* [Containers -> [Pids -> the ppid it has read]]

ownVars  == <<own, reuses, changed>>
procVars == <<st, parent, pgid, own, reuses, changed>>
podVars  == <<stored, dir>>
callVars == <<call, result, nils>>
snapVars == <<snap, listed>>
grVars   == <<gr, snap, listed>>
idVars   == <<hit, ppid>>
subVars  == <<sub, hit, ppid>>
vars == <<procVars, podVars, callVars, errCh, grVars, subVars>>

-----------------------------------------------------------------------------
(* The kernel's processes.                                                 *)

Alive == {"running", "stopped"}
Dead  == {"zombie", "killed"}        \* not reaped yet; "killed": by SIGKILL
ProcState == {"unborn", "gone"} \cup Alive \cup Dead

Exists(p) == st[p] \notin {"unborn", "gone"}

\* No process has the pid q, and no group is called by it.
Free(q) ==
  ~Exists(q) /\ \A r \in Pids : Exists(r) => pgid[r] # q

\* A process starts under a free pid q.  Its parent p is a running process,
\* whose group it joins unless it leads a new one, or is outside the pod.
Fork(p, q) ==
  LET o == IF p = Outside THEN "other" ELSE own[p] IN
  /\ p # Outside => st[p] = "running"
  /\ Free(q)
  /\ \/ own[q] = "nobody" /\ UNCHANGED reuses
     \/ own[q] # "nobody" /\ reuses < MaxReuse /\ reuses' = reuses + 1
  /\ st' = [st EXCEPT ![q] = "running"]
  /\ parent' = [parent EXCEPT ![q] = p]
  /\ \/ pgid' = [pgid EXCEPT ![q] = q]
     \/ p # Outside /\ pgid' = [pgid EXCEPT ![q] = pgid[p]]
  /\ own' = [own EXCEPT ![q] = o]
  /\ changed' = IF own[q] \in {"nobody", o} THEN changed ELSE changed \cup {q}
  /\ listed' = [c \in Containers |-> listed[c] \ {q}]
  /\ UNCHANGED <<podVars, callVars, errCh, gr, snap, subVars>>

\* The children of a process that dies are given to init.
Orphaned(p) == [q \in Pids |-> IF parent[q] = p THEN Outside ELSE parent[q]]

Exit(p) ==
  /\ st[p] = "running"
  /\ st' = [st EXCEPT ![p] = "zombie"]
  /\ parent' = Orphaned(p)
  /\ UNCHANGED <<pgid, ownVars, podVars, callVars, errCh, grVars, subVars>>

Reap(p) ==
  /\ st[p] \in Dead
  /\ st' = [st EXCEPT ![p] = "gone"]
  /\ parent' = [parent EXCEPT ![p] = Outside]
  /\ pgid' = [pgid EXCEPT ![p] = p]
  /\ UNCHANGED <<ownVars, podVars, callVars, errCh, grVars, subVars>>

-----------------------------------------------------------------------------
(* DeletePod and the channel.                                              *)

Msg == [from : Containers, err : BOOLEAN]

\* make(chan error, len(pod.Status.ContainerStatuses))
Capacity == Cardinality(Containers)

\* The leaders of the containers that were started run, and other programs
\* may; what becomes of them before DeletePod is the kernel's.
Init ==
  /\ own \in {o \in [Pids -> {"pod", "other", "nobody"}] :
                \A p \in Pids : o[p] = "pod" <=> \E c \in Containers : p = Leader[c]}
  /\ reuses = 0 /\ changed = {}
  /\ st = [p \in Pids |-> IF own[p] = "nobody" THEN "unborn" ELSE "running"]
  /\ parent = [p \in Pids |-> Outside]
  /\ pgid = [p \in Pids |-> p]
  /\ stored = TRUE /\ dir = "old"
  /\ call = "idle" /\ result = "none" /\ nils = 0
  /\ errCh = <<>>
  /\ gr = [c \in Containers |-> "idle"]
  /\ snap = [c \in Containers |-> {}]
  /\ listed = [c \in Containers |-> {}]
  /\ sub = [c \in Containers |-> [p \in Pids |-> "none"]]
  /\ hit = [c \in Containers |-> {}]
  /\ ppid = [c \in Containers |-> [p \in Pids |-> Outside]]

\* DeletePod finds the pod in the map and calls deletePod, which starts the
\* goroutines of the containers.
DeletePod ==
  /\ call = "idle" /\ stored
  /\ call' = "collecting"
  /\ gr' = [c \in Containers |-> "listing"]
  /\ UNCHANGED <<procVars, podVars, result, nils, errCh, snapVars, subVars>>

\* The loop at the end of deletePod: one message for each container status,
\* left at the first error.
Collect ==
  /\ call = "collecting" /\ nils < Capacity /\ errCh # <<>>
  /\ errCh' = Tail(errCh)
  /\ \/ /\ Head(errCh).err
        /\ call' = "returned" /\ result' = "err" /\ UNCHANGED nils
     \/ /\ ~Head(errCh).err
        /\ nils' = nils + 1 /\ UNCHANGED <<call, result>>
  /\ UNCHANGED <<procVars, podVars, grVars, subVars>>

\* Mutant of CloseAndReturn: the loop receives one message too few.
CloseAndReturn_Early ==
  /\ call = "collecting" /\ nils + 1 = Capacity
  /\ call' = "returned" /\ result' = "ok"
  /\ UNCHANGED <<procVars, podVars, nils, errCh, grVars, subVars>>

\* close(errCh); return nil
CloseAndReturn ==
  /\ call = "collecting" /\ nils = Capacity
  /\ call' = "returned" /\ result' = "ok"
  /\ UNCHANGED <<procVars, podVars, nils, errCh, grVars, subVars>>

\* The rest of DeletePod: the error of deletePod is not looked at.
Forget ==
  /\ call = "returned"
  /\ stored' = FALSE /\ call' = "deleted"
  /\ UNCHANGED <<procVars, dir, result, nils, errCh, grVars, subVars>>

\* The controller creates a pod of the same name: CreatePod stores it and
\* writes its volumes to the directory of that name.
Recreate ==
  /\ call = "deleted" /\ ~stored
  /\ stored' = TRUE /\ dir' = "new"
  /\ UNCHANGED <<procVars, callVars, errCh, grVars, subVars>>

-----------------------------------------------------------------------------
(* The goroutine of a container status.                                    *)

\* Mutant of Send: the channel grows instead of blocking its senders.
Send_Unbounded(m) == errCh' = Append(errCh, m)

Send(m) == Len(errCh) < Capacity /\ errCh' = Append(errCh, m)

\* getUserProcesses, and the loop that starts the goroutines of pass one.
ListProcesses(c) ==
  /\ gr[c] = "listing"
  /\ snap' = [snap EXCEPT ![c] = {p \in Pids : Exists(p)}]
  /\ listed' = [listed EXCEPT ![c] = snap'[c]]
  /\ sub' = [sub EXCEPT ![c] =
               [p \in Pids |-> IF Exists(p) THEN "group" ELSE "none"]]
  /\ gr' = [gr EXCEPT ![c] = "stopping"]
  /\ UNCHANGED <<procVars, podVars, callVars, errCh, idVars>>

\* getUserProcesses fails, or os.RemoveAll does.
Fail(c) ==
  /\ gr[c] \in {"listing", "removing"}
  /\ gr' = [gr EXCEPT ![c] = "failing"]
  /\ UNCHANGED <<procVars, podVars, callVars, errCh, snapVars, subVars>>

\* Mutant of PassDone: wg.Wait is missing.
PassDone_NoWait(c) == c \in Containers

PassDone(c) == \A p \in snap[c] : sub[c][p] = "done"

\* wg.Wait of pass one, the sleep of 3 s, and the loop that starts pass two
\* for the same pids.
StartKilling(c) ==
  /\ gr[c] = "stopping" /\ PassDone(c)
  /\ gr' = [gr EXCEPT ![c] = "killing"]
  /\ sub' = [sub EXCEPT ![c] =
               [p \in Pids |-> IF p \in snap[c] THEN "group" ELSE "none"]]
  /\ UNCHANGED <<procVars, podVars, callVars, errCh, snapVars, idVars>>

\* wg.Wait of pass two.
EndKilling(c) ==
  /\ gr[c] = "killing" /\ PassDone(c)
  /\ gr' = [gr EXCEPT ![c] = "removing"]
  /\ UNCHANGED <<procVars, podVars, callVars, errCh, snapVars, subVars>>

\* os.RemoveAll(volumeDir); the status it then writes is a copy, and lost.
RemoveDir(c) ==
  /\ gr[c] = "removing"
  /\ dir' = "none"
  /\ gr' = [gr EXCEPT ![c] = "reporting"]
  /\ UNCHANGED <<procVars, stored, callVars, errCh, snapVars, subVars>>

\* Mutant of ReportNil: the goroutine returns without errCh <- nil.
ReportNil_Silent(c) ==
  /\ gr[c] = "reporting"
  /\ gr' = [gr EXCEPT ![c] = "finished"]
  /\ UNCHANGED <<procVars, podVars, callVars, errCh, snapVars, subVars>>

ReportNil(c) ==
  /\ gr[c] = "reporting"
  /\ Send([from |-> c, err |-> FALSE])
  /\ gr' = [gr EXCEPT ![c] = "finished"]
  /\ UNCHANGED <<procVars, podVars, callVars, snapVars, subVars>>

ReportFailure(c) ==
  /\ gr[c] = "failing"
  /\ Send([from |-> c, err |-> TRUE])
  /\ gr' = [gr EXCEPT ![c] = "failed"]
  /\ UNCHANGED <<procVars, podVars, callVars, snapVars, subVars>>

-----------------------------------------------------------------------------
(* The goroutine of a pid, in pass one and in pass two.                    *)

Step(c, p, from, to) ==
  /\ gr[c] \in {"stopping", "killing"}
  /\ sub[c][p] = from
  /\ sub' = [sub EXCEPT ![c][p] = to]

\* os.FindProcess, which looks at nothing, and syscall.Getpgid(pid), which
\* fails if no process has the pid.
ReadGroup(c, p) ==
  /\ IF Exists(p)
       THEN /\ Step(c, p, "group", "stat")
            /\ hit' = [hit EXCEPT ![c] = IF pgid[p] = Leader[c] THEN @ \cup {p} ELSE @]
       ELSE Step(c, p, "group", "report") /\ UNCHANGED hit
  /\ UNCHANGED <<procVars, podVars, callVars, errCh, grVars, ppid>>

\* getParentPid(pid) reads the fourth field of /proc/<pid>/stat: it fails if
\* no process has the pid, or if a blank in its name shifts the fields.
ReadParent(c, p) ==
  /\ \/ /\ Exists(p) /\ p \notin Blanks
        /\ Step(c, p, "stat", "parent")
        /\ ppid' = [ppid EXCEPT ![c][p] = parent[p]]
        /\ UNCHANGED hit
     \/ /\ ~Exists(p) \/ p \in Blanks
        /\ Step(c, p, "stat", "report")
        /\ hit' = [hit EXCEPT ![c] = @ \ {p}]
        /\ UNCHANGED ppid
  /\ UNCHANGED <<procVars, podVars, callVars, errCh, grVars>>

\* Mutants of InGroup: both groups must match; an unknown parent matches.
InGroup_Both(c, p) ==
  /\ p \in hit[c] /\ ppid[c][p] # Outside
  /\ pgid[ppid[c][p]] = Leader[c]

InGroup_AnyOrphan(c, p) ==
  \/ p \in hit[c] \/ ppid[c][p] = Outside
  \/ pgid[ppid[c][p]] = Leader[c]

\* The skip condition of the two loops, negated, when the group of the pid
\* whose number was read as the parent's is known.
InGroup(c, p) ==
  \/ p \in hit[c]
  \/ ppid[c][p] # Outside /\ pgid[ppid[c][p]] = Leader[c]

\* syscall.Getpgid(ppid): it fails if the parent has gone meanwhile.
ReadParentGroup(c, p) ==
  LET q == ppid[c][p]
      lost == q # Outside /\ ~Exists(q)
  IN
  /\ Step(c, p, "parent", IF lost THEN "report"
                          ELSE IF InGroup(c, p) THEN "signal" ELSE "done")
  /\ ppid' = [ppid EXCEPT ![c][p] = Outside]
  /\ hit' = [hit EXCEPT ![c] = @ \ {p}]
  /\ UNCHANGED <<procVars, podVars, callVars, errCh, grVars>>

\* SIGSTOP stops a running process; SIGKILL ends a process that lives.
Stop(p) ==
  /\ st' = [st EXCEPT ![p] = IF @ = "running" THEN "stopped" ELSE @]
  /\ UNCHANGED parent

Kill(p) ==
  IF st[p] \in Alive
    THEN st' = [st EXCEPT ![p] = "killed"] /\ parent' = Orphaned(p)
    ELSE UNCHANGED <<st, parent>>

Signal(c, p) ==
  /\ IF Exists(p)
       THEN /\ Step(c, p, "signal", "done")
            /\ \/ gr[c] = "stopping" /\ Stop(p)
               \/ gr[c] = "killing" /\ Kill(p)
       ELSE Step(c, p, "signal", "report") /\ UNCHANGED <<st, parent>>
  /\ UNCHANGED <<pgid, ownVars, podVars, callVars, errCh, grVars, idVars>>

\* errCh <- fmt.Errorf(...): it blocks while the channel is full.
Report(c, p) ==
  /\ Step(c, p, "report", "done")
  /\ Send([from |-> c, err |-> TRUE])
  /\ UNCHANGED <<procVars, podVars, callVars, grVars, idVars>>

-----------------------------------------------------------------------------
Kernel ==
  \/ \E p \in Pids : Exit(p) \/ Reap(p)
  \/ \E p \in Pids \cup {Outside}, q \in Pids : Fork(p, q)

Caller == DeletePod \/ Collect \/ CloseAndReturn \/ Forget

Goroutine(c) ==
  \/ ListProcesses(c) \/ Fail(c) \/ StartKilling(c) \/ EndKilling(c)
  \/ RemoveDir(c) \/ ReportNil(c) \/ ReportFailure(c)

PidGoroutine(c, p) ==
  \/ ReadGroup(c, p) \/ ReadParent(c, p) \/ ReadParentGroup(c, p)
  \/ Signal(c, p) \/ Report(c, p)

Next ==
  \/ Kernel
  \/ Caller
  \/ Recreate
  \/ \E c \in Containers : Goroutine(c) \/ \E p \in Pids : PidGoroutine(c, p)

Spec == Init /\ [][Next]_vars

\* The Go scheduler runs every goroutine that can take a step; nothing makes
\* a process exit or fork, or the pod be created again.
FairSpec ==
  /\ Spec
  /\ WF_vars(Caller)
  /\ \A c \in Containers :
       /\ WF_vars(Goroutine(c))
       /\ \A p \in Pids : WF_vars(PidGoroutine(c, p))
-----------------------------------------------------------------------------
(* Properties.                                                             *)

\* Every variable has its type; the channel never exceeds its capacity.
TypeOK ==
  /\ st \in [Pids -> ProcState]
  /\ parent \in [Pids -> Pids \cup {Outside}]
  /\ pgid \in [Pids -> Pids]
  /\ own \in [Pids -> {"pod", "other", "nobody"}]
  /\ reuses \in 0 .. MaxReuse /\ changed \in SUBSET Pids
  /\ stored \in BOOLEAN /\ dir \in {"old", "new", "none"}
  /\ call \in {"idle", "collecting", "returned", "deleted"}
  /\ result \in {"none", "ok", "err"}
  /\ nils \in 0 .. Capacity
  /\ errCh \in Seq(Msg) /\ Len(errCh) \in 0 .. Capacity
  /\ gr \in [Containers -> {"idle", "listing", "stopping", "killing",
               "removing", "reporting", "failing", "finished", "failed"}]
  /\ snap \in [Containers -> SUBSET Pids]
  /\ listed \in [Containers -> SUBSET Pids]
  /\ sub \in [Containers -> [Pids ->
               {"none", "group", "stat", "parent", "signal", "report", "done"}]]
  /\ hit \in [Containers -> SUBSET Pids]
  /\ ppid \in [Containers -> [Pids -> Pids \cup {Outside}]]

\* No process of another program was stopped or killed.  This is not so in
\* general: the pid of a process, of its parent or of the group may be another
\* program's when it is looked at, or when the signal is sent.
ForeignUntouched ==
  \A p \in Pids : own[p] = "other" => st[p] \notin {"stopped", "killed"}

\* The reuse of a pid is the only way to a signal for another program: while
\* no pid has passed between the pod and another program, the skip condition
\* of deletePod's two loops lets none through, although parents die, children
\* are given to init and pids are used again within the pod and within the
\* other programs between the reads of a pid and its signal.
ForeignHitByReuseOnly == changed = {} => ForeignUntouched

\* When deletePod closes errCh, no goroutine has a message left to send: a
\* send on the closed channel would panic.
CloseIsSafe ==
  result = "ok" => \A c \in Containers :
    gr[c] = "finished" /\ \A p \in Pids : sub[c][p] \in {"none", "done"}

\* When deletePod returns nil, every listed process that is in the group of
\* its container is dead, whatever exited, was reaped or forked meanwhile; a
\* process that has taken the pid of a listed one is not meant.
OkMeansGroupKilled ==
  result = "ok" => \A c \in Containers : \A p \in listed[c] :
    pgid[p] = Leader[c] => st[p] \notin Alive

\* After deletePod has returned nil, the directory of a pod created again
\* under the same name is not removed by a late goroutine of the deletion.
RecreatedDirKept ==
  result = "ok" /\ call = "deleted" /\ stored => dir = "new"

\* A DeletePod call returns: the channel never blocks its reader for ever.
DeletePodReturns == call = "collecting" ~> call = "deleted"

\* What mock.go:351 says: "deletePod deletes a pod by killing its running
\* processes".  Of those pass one has stopped: a pass whose goroutines are
\* blocked on errCh never reaches SIGKILL.
StoppedIsKilled ==
  \A p \in Pids :
    own[p] = "pod" /\ st[p] = "stopped" ~> ~(own[p] = "pod" /\ st[p] \in Alive)
=============================================================================
