--------------------------- MODULE ResourceWatcher ---------------------------
(***************************************************************************)
(* The watcher of the ConfigMaps and Secrets that pods refer to            *)
(* (internal/provider/kubernetes/watch.go).                                *)
(*                                                                         *)
(* The watcher keeps, per resource, the list of the pods to notify and,    *)
(* per pod, the resources it refers to.  The maps for ConfigMaps and those *)
(* for Secrets are handled by the same code: a key here is a resource of   *)
(* either kind.  The order of a list does not matter, how often a pod is   *)
(* in it does: a list is the number of copies of each pod.                 *)
(*                                                                         *)
(* Watch and Unwatch hold the mutex from their first line to their last,   *)
(* so each is one step; an event handler holds it only to read the list.   *)
(***************************************************************************)
EXTENDS Naturals

CONSTANTS
  Pods,       \* pod keys (namespace and name)
  Keys,       \* resource keys (kind, namespace and name)
  Informers,  \* the goroutines that call handleEvent
  MaxRefs     \* bound: references of a pod to a resource that are watched

ASSUME MaxRefsAssumption == MaxRefs \in Nat \ {0}

VARIABLES
  configs,    \* [Keys -> [Pods -> Nat]]: copies of the pod in the list
  keysByPod,  \* [Pods -> SUBSET Keys]: the reverse index
  event,      \* [Informers -> progress of handleEvent]
  asked       \* history: [Pods -> [Keys -> Nat]], the references passed to
              \* Watch since the last Unwatch of the pod

vars == <<configs, keysByPod, event, asked>>

NoPods == [p \in Pods |-> 0]
NoKeys == [k \in Keys |-> 0]
NoEvent == [busy |-> FALSE, pods |-> NoPods]

Init ==
  /\ configs = [k \in Keys |-> NoPods]
  /\ keysByPod = [p \in Pods |-> {}]
  /\ event = [i \in Informers |-> NoEvent]
  /\ asked = [p \in Pods |-> NoKeys]

-----------------------------------------------------------------------------
\* The keys of the volumes: refs[k] of the pod's volumes name resource k.
KeysOf(refs) == {k \in Keys : refs[k] > 0}

\* Mutant of Reindexed: the index is set where the code appends to it.
Reindexed_Set(p, refs) == [keysByPod EXCEPT ![p] = KeysOf(refs)]

Reindexed(p, refs) == [keysByPod EXCEPT ![p] = @ \cup KeysOf(refs)]

\* A copy of the pod is appended to the list of each resource of its volumes.
Watch(p, refs) ==
  /\ \A k \in Keys : asked[p][k] + refs[k] <= MaxRefs
  /\ configs' = [k \in Keys |-> [configs[k] EXCEPT ![p] = @ + refs[k]]]
  /\ keysByPod' = Reindexed(p, refs)
  /\ asked' = [asked EXCEPT ![p] = [k \in Keys |-> @[k] + refs[k]]]
  /\ UNCHANGED event

SamePod(q, r) == q = r

\* Mutant of Kept: a list of one pod is not shortened.
Kept_Last(k) ==
  [q \in Pods |-> IF \A r \in Pods \ {q} : configs[k][r] = 0
                  THEN configs[k][q] ELSE 0]

\* What the loop keeps of the list of a resource of the pod: its variable has
\* the name of the parameter, and the condition compares it with itself.
Kept(k) == [q \in Pods |-> IF SamePod(q, q) THEN 0 ELSE configs[k][q]]

Unwatch(p) ==
  /\ configs' = [k \in Keys |->
                   IF k \in keysByPod[p] THEN Kept(k) ELSE configs[k]]
  /\ keysByPod' = [keysByPod EXCEPT ![p] = {}]
  /\ asked' = [asked EXCEPT ![p] = NoKeys]
  /\ UNCHANGED event

-----------------------------------------------------------------------------
\* handleEvent reads the list of the resource, and unlocks.
BeginEvent(i, k) ==
  /\ ~event[i].busy
  /\ event' = [event EXCEPT ![i] = [busy |-> TRUE, pods |-> configs[k]]]
  /\ UNCHANGED <<configs, keysByPod, asked>>

\* The updater is called for the next pod; its error is only logged.
Notify(i) ==
  \E p \in Pods :
    /\ event[i].busy /\ event[i].pods[p] > 0
    /\ event' = [event EXCEPT ![i].pods[p] = @ - 1]
    /\ UNCHANGED <<configs, keysByPod, asked>>

EndEvent(i) ==
  /\ event[i].busy /\ event[i].pods = NoPods
  /\ event' = [event EXCEPT ![i] = NoEvent]
  /\ UNCHANGED <<configs, keysByPod, asked>>

Next ==
  \/ \E p \in Pods : \/ \E refs \in [Keys -> 0 .. MaxRefs] : Watch(p, refs)
                     \/ Unwatch(p)
  \/ \E i \in Informers : \/ \E k \in Keys : BeginEvent(i, k)
                          \/ Notify(i)
                          \/ EndEvent(i)

Spec == Init /\ [][Next]_vars

-----------------------------------------------------------------------------
(* Properties.                                                             *)

\* The maps hold what their types say, and no list grows without bound.
TypeOK ==
  /\ configs \in [Keys -> [Pods -> 0 .. MaxRefs]]
  /\ keysByPod \in [Pods -> SUBSET Keys]
  /\ event \in [Informers -> [busy : BOOLEAN, pods : [Pods -> 0 .. MaxRefs]]]
  /\ asked \in [Pods -> [Keys -> 0 .. MaxRefs]]

\* A pod is in a list at most as often as it has asked for since it was last
\* unwatched: Unwatch, which has only the reverse index to find the lists of
\* a pod, leaves it in none, so that no later event notifies a deleted pod.
NoStaleWatch == \A p \in Pods, k \in Keys : configs[k][p] <= asked[p][k]
=============================================================================
