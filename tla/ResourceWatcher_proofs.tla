------------------------ MODULE ResourceWatcher_proofs ------------------------
(***************************************************************************)
(* Proofs about ResourceWatcher, for any pods, resources and informers.    *)
(***************************************************************************)
EXTENDS ResourceWatcher, TLAPS

Copies == 0 .. MaxRefs
Events == [busy : BOOLEAN, pods : [Pods -> Copies]]

\* The lists and the histories are bounded numbers of references.
ListsOK ==
  /\ configs \in [Keys -> [Pods -> Nat]]
  /\ keysByPod \in [Pods -> SUBSET Keys]
  /\ asked \in [Pods -> [Keys -> Copies]]

\* The reverse index is complete: no pod is in a list Unwatch would not find.
IndexComplete ==
  \A p \in Pods, k \in Keys : configs[k][p] > 0 => k \in keysByPod[p]

\* What every step preserves.
IInv == ListsOK /\ NoStaleWatch /\ IndexComplete

LEMMA InitIInv == Init => IInv
  BY MaxRefsAssumption
     DEF Init, IInv, ListsOK, NoStaleWatch, IndexComplete, Copies, NoPods, NoKeys

\* Watch adds as many copies as it asks for, and indexes what it adds.
LEMMA WatchKeeps ==
  ASSUME NEW p \in Pods, NEW refs \in [Keys -> 0 .. MaxRefs],
         IInv, Watch(p, refs)
  PROVE  IInv'
<1> USE MaxRefsAssumption DEF Copies
<1>1. ListsOK' BY DEF IInv, ListsOK, Watch, Reindexed, KeysOf
<1>2. ASSUME NEW q \in Pods, NEW k \in Keys
      PROVE  /\ configs'[k][q] <= asked'[q][k]
             /\ configs'[k][q] > 0 => k \in keysByPod'[q]
  <2>1. /\ configs[k][q] \in Nat /\ asked[q][k] \in Nat /\ refs[k] \in Nat
        /\ configs[k][q] <= asked[q][k]
        /\ configs[k][q] > 0 => k \in keysByPod[q]
    BY DEF IInv, ListsOK, NoStaleWatch, IndexComplete
  <2>2. CASE q = p
    <3>1. /\ configs'[k][q] = configs[k][q] + refs[k]
          /\ asked'[q][k] = asked[q][k] + refs[k]
          /\ keysByPod'[q] = keysByPod[q] \cup KeysOf(refs)
      BY <2>2 DEF IInv, ListsOK, Watch, Reindexed
    <3>2. refs[k] > 0 => k \in KeysOf(refs) BY DEF KeysOf
    <3> QED BY <2>1, <3>1, <3>2
  <2>3. CASE q # p
    <3>1. /\ configs'[k][q] = configs[k][q]
          /\ asked'[q][k] = asked[q][k]
          /\ keysByPod'[q] = keysByPod[q]
      BY <2>3 DEF IInv, ListsOK, Watch, Reindexed
    <3> QED BY <2>1, <3>1
  <2> QED BY <2>2, <2>3
<1> QED BY <1>1, <1>2 DEF IInv, NoStaleWatch, IndexComplete

\* Unwatch empties every list the pod is in: the index names them all.
LEMMA UnwatchKeeps ==
  ASSUME NEW p \in Pods, IInv, Unwatch(p)
  PROVE  IInv'
<1> USE MaxRefsAssumption DEF Copies
<1>1. ListsOK' BY DEF IInv, ListsOK, Unwatch, Kept, SamePod, NoKeys
<1>2. ASSUME NEW q \in Pods, NEW k \in Keys
      PROVE  /\ configs'[k][q] <= asked'[q][k]
             /\ configs'[k][q] > 0 => k \in keysByPod'[q]
  <2>1. /\ configs[k][q] \in Nat /\ asked[q][k] \in Nat
        /\ configs[k][q] <= asked[q][k]
        /\ configs[k][q] > 0 => k \in keysByPod[q]
    BY DEF IInv, ListsOK, NoStaleWatch, IndexComplete
  <2>2. configs'[k][q] = IF k \in keysByPod[p] THEN 0 ELSE configs[k][q]
    BY DEF IInv, ListsOK, Unwatch, Kept, SamePod
  <2>3. /\ q # p => asked'[q] = asked[q] /\ keysByPod'[q] = keysByPod[q]
        /\ q = p => asked'[q][k] = 0
    BY DEF IInv, ListsOK, Unwatch, NoKeys
  <2> QED BY <2>1, <2>2, <2>3
<1> QED BY <1>1, <1>2 DEF IInv, NoStaleWatch, IndexComplete

LEMMA NextIInv == IInv /\ [Next]_vars => IInv'
<1> SUFFICES ASSUME IInv, [Next]_vars PROVE IInv' OBVIOUS
<1>1. CASE \E p \in Pods, refs \in [Keys -> 0 .. MaxRefs] : Watch(p, refs)
  BY <1>1, WatchKeeps
<1>2. CASE \E p \in Pods : Unwatch(p) BY <1>2, UnwatchKeeps
<1>3. CASE UNCHANGED <<configs, keysByPod, asked>>
  BY <1>3 DEF IInv, ListsOK, NoStaleWatch, IndexComplete
<1>4. CASE \E i \in Informers :
             \/ \E k \in Keys : BeginEvent(i, k) \/ Notify(i) \/ EndEvent(i)
  BY <1>4, <1>3 DEF BeginEvent, Notify, EndEvent
<1>5. CASE \E i \in Informers : Notify(i) \/ EndEvent(i)
  BY <1>5, <1>3 DEF Notify, EndEvent
<1> QED BY <1>1, <1>2, <1>3, <1>4, <1>5 DEF Next, vars

\* For every number of pods, resources and informers: a pod is in a list at
\* most as often as it has asked for since its last Unwatch.
THEOREM NoStaleWatchSafe == Spec => []NoStaleWatch
<1>1. IInv => NoStaleWatch BY DEF IInv
<1> QED BY <1>1, InitIInv, NextIInv, PTL DEF Spec

\* The handlers of events only count down what they have read.
EventOK == event \in [Informers -> Events]

LEMMA ListsBounded == IInv => configs \in [Keys -> [Pods -> Copies]]
<1> SUFFICES ASSUME IInv, NEW k \in Keys, NEW p \in Pods
    PROVE  configs[k][p] \in Copies
  BY DEF IInv, ListsOK
<1>1. configs[k][p] \in Nat /\ asked[p][k] \in 0 .. MaxRefs
  BY DEF IInv, ListsOK, Copies
<1>2. configs[k][p] <= asked[p][k] BY DEF IInv, NoStaleWatch
<1> QED BY <1>1, <1>2, MaxRefsAssumption DEF Copies

LEMMA NextEventOK == IInv /\ EventOK /\ [Next]_vars => EventOK'
<1> SUFFICES ASSUME IInv, EventOK, [Next]_vars PROVE EventOK' OBVIOUS
<1>1. CASE UNCHANGED event BY <1>1 DEF EventOK
<1>2. ASSUME NEW i \in Informers, NEW k \in Keys, BeginEvent(i, k)
      PROVE  EventOK'
  <2>1. configs[k] \in [Pods -> Copies] BY ListsBounded
  <2> QED BY <1>2, <2>1 DEF BeginEvent, EventOK, Events
<1>3. ASSUME NEW i \in Informers, Notify(i) PROVE EventOK'
  <2>1. PICK p \in Pods :
          /\ event[i].pods[p] > 0
          /\ event' = [event EXCEPT ![i].pods[p] = @ - 1]
    BY <1>3 DEF Notify
  <2>2. /\ event[i].busy \in BOOLEAN
        /\ event[i].pods \in [Pods -> Copies]
        /\ event[i].pods[p] \in 0 .. MaxRefs
    BY DEF EventOK, Events, Copies
  <2>3. event[i].pods[p] - 1 \in Copies
    BY <2>1, <2>2, MaxRefsAssumption DEF Copies
  <2>4. [event[i].pods EXCEPT ![p] = @ - 1] \in [Pods -> Copies]
    BY <2>2, <2>3
  <2> QED BY <2>1, <2>2, <2>4 DEF EventOK, Events
<1>4. ASSUME NEW i \in Informers, EndEvent(i) PROVE EventOK'
  BY <1>4, MaxRefsAssumption
     DEF EndEvent, EventOK, Events, NoEvent, NoPods, Copies
<1>5. CASE \E p \in Pods : \/ \E refs \in [Keys -> 0 .. MaxRefs] : Watch(p, refs)
                           \/ Unwatch(p)
  BY <1>5, <1>1 DEF Watch, Unwatch
<1> QED BY <1>1, <1>2, <1>3, <1>4, <1>5 DEF Next, vars

\* Type correctness, for every value of the constants.
THEOREM TypeCorrect == Spec => []TypeOK
<1>1. Init => EventOK
  BY MaxRefsAssumption DEF Init, EventOK, Events, NoEvent, NoPods, Copies
<1>2. IInv /\ EventOK => TypeOK
  BY ListsBounded DEF TypeOK, EventOK, Events, IInv, ListsOK, Copies
<1> QED BY <1>1, <1>2, InitIInv, NextIInv, NextEventOK, PTL DEF Spec
=============================================================================
