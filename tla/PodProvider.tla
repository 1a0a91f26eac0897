----------------------------- MODULE PodProvider -----------------------------
(***************************************************************************)
(* The map of pods of MockProvider (internal/provider/mock/mock.go) and    *)
(* its handlers, between the pod controller of the library, which calls    *)
(* them and is told of every status, and the processes of the pods.        *)
(*                                                                         *)
(* What a handler does to containers and processes is one step here: the   *)
(* start of the containers and a round of the status loop are in PodStatus *)
(* and StartContainers, a deletion is in PodTermination.  The handlers get *)
(* a copy of the pod as the API server has it, whose status is the last    *)
(* one the controller has written there; the map keeps that copy.  A pod   *)
(* may have processes that its statuses do not tell of: a start that fails *)
(* late leaves them, and a round of the status loop may miss them.         *)
(***************************************************************************)
EXTENDS Naturals

CONSTANTS
  Names,    \* pods, by namespace and name
  Keys,     \* keys of the map
  KeyOf,    \* [Names -> Keys]: buildKeyFromNames, "<namespace>-<name>"
  MaxUid,   \* bound: the pods created under one name
  MaxGen    \* bound: the changes of a pod's labels or annotations

ASSUME ProviderAssumption ==
  /\ KeyOf \in [Names -> Keys]
  /\ MaxUid \in Nat \ {0} /\ MaxGen \in Nat

VARIABLES
  api,      \* [Names -> the pod as the API server has it]
  deleting, \* [Names -> is its deletion asked for]
  uids,     \* [Names -> the pods created under the name so far]
  pods,     \* [Keys -> the pod in the map p.pods]
  worker,   \* [Names -> progress of the handler that runs for the pod]
  notice,   \* [Names -> the status notified and not yet written to the API]
  alive,    \* the pods, as <<name, uid>>, with processes
  starts    \* history: [Names -> [1 .. MaxUid -> starts of its containers]]

outside == <<api, deleting, uids>>
vars == <<outside, pods, worker, notice, alive, starts>>

Uids == 1 .. MaxUid
\* What the statuses of a pod's containers say: none is there, one is not
\* terminated, all are, or a container without a command keeps a zero status.
Entries == {"none", "live", "done", "stuck"}
Pods == [name : Names, uid : Uids, gen : 0 .. MaxGen,
         phase : {"Pending", "Running", "Ended"}, entries : Entries]
NoPod == [name |-> "none"]     \* not there
SetStatus(p, phase, entries) == [p EXCEPT !.phase = phase, !.entries = entries]
NoNotice == NoPod

Init ==
  /\ api = [n \in Names |-> NoPod] /\ deleting = [n \in Names |-> FALSE]
  /\ uids = [n \in Names |-> 0]
  /\ pods = [k \in Keys |-> NoPod]
  /\ worker = [n \in Names |-> "idle"]
  /\ notice = [n \in Names |-> NoNotice]
  /\ alive = {}
  /\ starts = [n \in Names |-> [u \in Uids |-> 0]]

-----------------------------------------------------------------------------
(* The user, and the pod controller of the library.                        *)

Apply(n) ==
  /\ api[n] = NoPod /\ uids[n] < MaxUid
  /\ uids' = [uids EXCEPT ![n] = @ + 1]
  /\ api' = [api EXCEPT ![n] = [name |-> n, uid |-> uids[n] + 1, gen |-> 0,
                                phase |-> "Pending", entries |-> "none"]]
  /\ UNCHANGED <<deleting, pods, worker, notice, alive, starts>>

Edit(n) ==
  /\ api[n] # NoPod /\ api[n].gen < MaxGen
  /\ api' = [api EXCEPT ![n].gen = @ + 1]
  /\ UNCHANGED <<deleting, uids, pods, worker, notice, alive, starts>>

Remove(n) ==
  /\ api[n] # NoPod /\ ~deleting[n]
  /\ deleting' = [deleting EXCEPT ![n] = TRUE]
  /\ UNCHANGED <<api, uids, pods, worker, notice, alive, starts>>

\* The controller writes the last status it was told of; the API server
\* refuses the status of another pod.
WriteStatus(n) ==
  /\ notice[n] # NoNotice
  /\ api' = IF api[n] # NoPod /\ api[n].uid = notice[n].uid
            THEN [api EXCEPT ![n] =
                    SetStatus(api[n], notice[n].phase, notice[n].entries)]
            ELSE api
  /\ notice' = [notice EXCEPT ![n] = NoNotice]
  /\ UNCHANGED <<deleting, uids, pods, worker, alive, starts>>

\* A worker looks at a pod it is not at work on, that is neither to be
\* deleted nor ended.
Syncs(n) ==
  /\ worker[n] = "idle" /\ api[n] # NoPod
  /\ ~deleting[n] /\ api[n].phase # "Ended"

-----------------------------------------------------------------------------
(* The handlers of the provider.                                           *)

\* Mutant of GetPod: only pods that are not pending are found.
GetPod_Running(n) ==
  LET p == pods[KeyOf[n]] IN
  IF p # NoPod /\ p.phase = "Pending" THEN NoPod ELSE p

GetPod(n) == pods[KeyOf[n]]

\* p.notifier(pod): the controller takes a copy of the pod.
Notify(p) == notice' = [notice EXCEPT ![p.name] = p]

\* Mutant of StorePod: the key leaves out the name.
StorePod_Namespace(n) ==
  /\ Syncs(n) /\ GetPod(n) = NoPod
  /\ pods' = [pods EXCEPT ![CHOOSE k \in Keys : k # KeyOf[n]] = api[n]]
  /\ worker' = [worker EXCEPT ![n] = "creating"]
  /\ UNCHANGED <<outside, notice, alive, starts>>

\* CreatePod, of a pod GetPod does not find: it is stored before its volumes.
StorePod(n) ==
  /\ Syncs(n) /\ GetPod(n) = NoPod
  /\ pods' = [pods EXCEPT ![KeyOf[n]] = api[n]]
  /\ worker' = [worker EXCEPT ![n] = "creating"]
  /\ UNCHANGED <<outside, notice, alive, starts>>

\* p.volumes fails: CreatePod returns the error, and the pod stays stored.
FailVolumes(n) ==
  /\ worker[n] = "creating"
  /\ worker' = [worker EXCEPT ![n] = "idle"]
  /\ UNCHANGED <<outside, pods, notice, alive, starts>>

\* The containers are started, with these entries and the processes left: one
\* of them runs, or the pod has failed, be it with processes of a container
\* whose start failed late.  A container without a command has no entry.
Started(phase, entries, left) ==
  \/ phase = "Running" /\ entries \in {"live", "stuck"}
  \/ phase = "Ended" /\ entries = "done"
  \/ phase = "Ended" /\ entries = "none" /\ left = {}

\* The rest of CreatePod, which writes to the pod it has stored, if that is
\* still in the map.
StartPod(n) ==
  LET k == KeyOf[n]
      old == IF pods[k] # NoPod /\ pods[k].name = n THEN pods[k]
             ELSE [api[n] EXCEPT !.gen = 0]
  IN
  /\ worker[n] = "creating"
  /\ \E phase \in {"Running", "Ended"}, entries \in Entries,
        left \in SUBSET {<<n, old.uid>>} :
       LET p == SetStatus(old, phase, entries) IN
       /\ Started(phase, entries, left)
       /\ pods' = IF pods[k] # NoPod /\ pods[k].name = n
                  THEN [pods EXCEPT ![k] = p] ELSE pods
       /\ Notify(p)
       /\ alive' = alive \cup left
  /\ starts' = [starts EXCEPT ![n][old.uid] = @ + 1]
  /\ worker' = [worker EXCEPT ![n] = "idle"]
  /\ UNCHANGED outside

\* UpdatePod, of a pod GetPod finds and that differs: the map gets the copy
\* of the API server, with the status that copy has.
UpdatePod(n) ==
  /\ Syncs(n) /\ GetPod(n) # NoPod
  /\ GetPod(n).name # n \/ GetPod(n).gen # api[n].gen
  /\ pods' = [pods EXCEPT ![KeyOf[n]] = api[n]]
  /\ Notify(api[n])
  /\ UNCHANGED <<outside, worker, alive, starts>>

\* deletePod kills the processes that the statuses of its argument, the copy
\* of the API server, name.
Killed(n) == IF api[n].entries # "none" THEN {<<n, api[n].uid>>} ELSE {}

\* DeletePod, which ignores an error of deletePod, or its error that the pod
\* is not found; the controller then removes the pod from the API server.
DeletePod(n) ==
  /\ worker[n] = "idle" /\ api[n] # NoPod /\ deleting[n]
  /\ IF GetPod(n) = NoPod THEN UNCHANGED <<pods, alive>>
     ELSE /\ \E killed \in SUBSET Killed(n) : alive' = alive \ killed
          /\ pods' = [pods EXCEPT ![KeyOf[n]] = NoPod]
  /\ api' = [api EXCEPT ![n] = NoPod]
  /\ deleting' = [deleting EXCEPT ![n] = FALSE]
  /\ notice' = [notice EXCEPT ![n] = NoNotice]
  /\ UNCHANGED <<uids, worker, starts>>

\* Mutant of Skipped: a pod that has failed is looked at again.
Skipped_Pending(p) == p.phase = "Pending"

\* GetPods passes over the pods that are not running.
Skipped(p) == p.phase # "Running"

\* checkTerminatedContainer: every entry of the previous round is terminated.
AllTerminated(p) == p.entries \in {"none", "done"}

\* Mutant of Examine: the new entries do not replace the old.
Examine_Lost(p) == {p.entries}

\* The entries of a round.  A zero one is left as it is; of the others none
\* can be running without a process, and a process may be missed.
Examine(p) ==
  IF p.entries = "stuck" THEN {"stuck"}
  ELSE {"done"} \cup (IF <<p.name, p.uid>> \in alive THEN {"live"} ELSE {})

\* A round of the status loop: it decides the phase from the old entries.
CheckPod(k) ==
  LET p == pods[k] IN
  /\ p # NoPod /\ ~Skipped(p)
  /\ \E entries \in Examine(p) :
       LET q == SetStatus(p, IF AllTerminated(p) THEN "Ended" ELSE "Running",
                          entries) IN
       /\ pods' = [pods EXCEPT ![k] = q]
       /\ Notify(q)
  /\ UNCHANGED <<outside, worker, alive, starts>>

\* The last process of a pod exits.
ExitLast == \E x \in alive : /\ alive' = alive \ {x}
                             /\ UNCHANGED <<outside, pods, worker, notice, starts>>

-----------------------------------------------------------------------------
User(n) == Apply(n) \/ Edit(n) \/ Remove(n)
Worker(n) == \/ StorePod(n) \/ FailVolumes(n) \/ StartPod(n)
             \/ UpdatePod(n) \/ DeletePod(n)

Next ==
  \/ \E n \in Names : User(n) \/ Worker(n) \/ WriteStatus(n)
  \/ \E k \in Keys : CheckPod(k)
  \/ ExitLast

Spec == Init /\ [][Next]_vars

\* The workers and the status loop run; users and processes need not.
FairSpec ==
  /\ Spec
  /\ \A n \in Names : WF_vars(Worker(n)) /\ WF_vars(WriteStatus(n))
  /\ \A k \in Keys : WF_vars(CheckPod(k))

-----------------------------------------------------------------------------
(* Properties.                                                             *)

\* Every variable has its type; the map holds pods under a key of theirs.
TypeOK ==
  /\ api \in [Names -> Pods \cup {NoPod}]
  /\ deleting \in [Names -> BOOLEAN] /\ uids \in [Names -> 0 .. MaxUid]
  /\ pods \in [Keys -> Pods \cup {NoPod}]
  /\ \A k \in Keys : pods[k] # NoPod => KeyOf[pods[k].name] = k
  /\ worker \in [Names -> {"idle", "creating"}]
  /\ notice \in [Names -> Pods \cup {NoNotice}]
  /\ alive \subseteq Names \X Uids
  /\ starts \in [Names -> [Uids -> Nat]]

\* While the keys of the pods differ, the containers of a pod are started at
\* most once, whatever is edited, fails, ends and is created again meanwhile.
StartedOnce == \A n \in Names, u \in Uids : starts[n][u] <= 1

\* A pod that the API server has as ended stays so: no older status that is
\* still on its way, no later round of the loop and no copy that UpdatePod puts
\* into the map makes it run again, though it may still have processes.
EndedStays ==
  [][\A n \in Names :
       api[n] # NoPod /\ api[n].phase = "Ended"
         => api'[n] = NoPod \/ api'[n].phase = "Ended"]_vars

\* The loop no longer looks for the end of a pod that UpdatePod has replaced by
\* a copy of the API server that still is pending, and never finds that of a
\* pod with a container without a command.
Unending(n) ==
  LET p == GetPod(n) IN p # NoPod /\ (p.phase = "Pending" \/ p.entries = "stuck")

\* A pod that was started, and whose processes are gone, is in the end
\* reported as ended, unless it is deleted or the loop cannot see its end:
\* after two rounds, and however edits and status writes come in between.
EndIsReported ==
  \A n \in Names, u \in Uids :
    (starts[n][u] > 0 /\ <<n, u>> \notin alive)
      ~> (api[n] = NoPod \/ api[n].uid # u \/ api[n].phase = "Ended" \/ Unending(n))

\* What mock.go:351 says: "deletePod deletes a pod by killing its running
\* processes".  A copy without statuses names no process.
DeletedIsKilled ==
  \A n \in Names, u \in Uids :
    <<n, u>> \in alive => api[n] # NoPod /\ api[n].uid = u
=============================================================================
