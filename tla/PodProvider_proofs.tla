-------------------------- MODULE PodProvider_proofs --------------------------
(***************************************************************************)
(* Proofs about PodProvider, for any pods, any keys and any bounds.        *)
(*                                                                         *)
(* What the map has of a pod is of the pod that the API server has under   *)
(* the same name, and the two are forgotten together.  When two pods never *)
(* have the same key, a pod that has been started is in the map until it   *)
(* is deleted, so that CreatePod is not called for it again; and one that  *)
(* the API server has as ended has ended in the map as well, and no notice *)
(* of another phase is on its way.                                         *)
(***************************************************************************)
EXTENDS PodProvider, TLAPS

\* No two names give one key: buildKeyFromNames does not promise it.
KeysDiffer == \A m, n \in Names : KeyOf[m] = KeyOf[n] => m = n

Phases == {"Pending", "Running", "Ended"}

LEMMA NoPodIsNone == NoPod \notin Pods
<1> SUFFICES ASSUME NoPod \in Pods PROVE FALSE
  OBVIOUS
<1>1. DOMAIN NoPod = {"name"}
  BY DEF NoPod
<1>2. "uid" \in DOMAIN NoPod
  BY DEF Pods
<1> QED
  BY <1>1, <1>2

\* The fields of a pod, and the pods that the handlers make of it.
LEMMA PodFields ==
  ASSUME NEW p \in Pods
  PROVE  /\ p # NoPod /\ p.name \in Names /\ p.uid \in Uids /\ p.gen \in 0 .. MaxGen
         /\ p.phase \in Phases /\ p.entries \in Entries
  BY NoPodIsNone DEF Pods, Phases

LEMMA WithGen ==
  ASSUME NEW p \in Pods, NEW i \in 0 .. MaxGen
  PROVE  LET q == [p EXCEPT !.gen = i] IN
         /\ q \in Pods /\ q.name = p.name /\ q.uid = p.uid /\ q.gen = i
         /\ q.phase = p.phase
  BY DEF Pods

LEMMA WithStatus ==
  ASSUME NEW p \in Pods, NEW phase \in Phases, NEW entries \in Entries
  PROVE  /\ SetStatus(p, phase, entries) \in Pods
         /\ SetStatus(p, phase, entries).name = p.name
         /\ SetStatus(p, phase, entries).uid = p.uid
         /\ SetStatus(p, phase, entries).gen = p.gen
         /\ SetStatus(p, phase, entries).phase = phase
  BY DEF SetStatus, Pods, Phases

LEMMA ExamineEntries ==
  ASSUME NEW p \in Pods \cup {NoPod}, p # NoPod, NEW e \in Examine(p)
  PROVE  e \in Entries
  BY DEF Examine, Entries

-----------------------------------------------------------------------------
(* Types, and which pods the map and the workers are about.                *)

\* A pod of the API server is the last one created under its name; one of the
\* map is of the same pod as that of the API server, and not a later copy.
SamePod ==
  /\ \A n \in Names : api[n] # NoPod => api[n].name = n /\ api[n].uid = uids[n]
  /\ \A n \in Names : worker[n] = "creating" => api[n] # NoPod
  /\ \A k \in Keys : pods[k] # NoPod =>
       /\ api[pods[k].name] # NoPod
       /\ pods[k].uid = api[pods[k].name].uid
       /\ pods[k].gen <= api[pods[k].name].gen

ProviderInv == TypeOK /\ SamePod

LEMMA ProviderInit == Init => ProviderInv
<1> SUFFICES ASSUME Init PROVE ProviderInv
  OBVIOUS
<1>1. 0 \in 0 .. MaxUid
  BY ProviderAssumption
<1> QED
  BY <1>1, ProviderAssumption DEF Init, ProviderInv, TypeOK, SamePod, NoNotice

LEMMA StatusWritten ==
  ASSUME TypeOK, NEW n \in Names, WriteStatus(n), api' # api
  PROVE  \E p \in Pods :
           /\ api[n] # NoPod /\ api' = [api EXCEPT ![n] = p]
           /\ p.name = api[n].name /\ p.uid = api[n].uid /\ p.gen = api[n].gen
           /\ notice[n] # NoPod /\ p.phase = notice[n].phase
<1>1. /\ api[n] \in Pods /\ notice[n] # NoPod
      /\ notice[n].phase \in Phases /\ notice[n].entries \in Entries
  BY PodFields DEF WriteStatus, TypeOK, NoNotice
<1> DEFINE p == SetStatus(api[n], notice[n].phase, notice[n].entries)
<1>2. /\ p \in Pods /\ p.name = api[n].name /\ p.uid = api[n].uid
      /\ p.gen = api[n].gen /\ p.phase = notice[n].phase
  BY <1>1, WithStatus
<1>3. api' = [api EXCEPT ![n] = p]
  BY <1>1 DEF WriteStatus, TypeOK
<1> HIDE DEF p
<1> QED
  BY <1>1, <1>2, <1>3, NoPodIsNone

LEMMA ProviderStep == ProviderInv /\ [Next]_vars => ProviderInv'
<1> SUFFICES ASSUME ProviderInv, [Next]_vars PROVE ProviderInv'
  OBVIOUS
<1> USE ProviderAssumption DEF ProviderInv, TypeOK, NoNotice
<1>1. ASSUME NEW n \in Names, Apply(n) PROVE ProviderInv'
  <2> DEFINE p == [name |-> n, uid |-> uids[n] + 1, gen |-> 0,
                   phase |-> "Pending", entries |-> "none"]
  <2>1. uids[n] + 1 \in Uids
    BY <1>1 DEF Apply, Uids
  <2>2. p \in Pods /\ p # NoPod /\ p.name = n /\ p.uid = uids[n] + 1
    <3>1. p \in Pods
      BY <2>1 DEF Pods, Entries
    <3>2. p.name = n /\ p.uid = uids[n] + 1
      OBVIOUS
    <3> QED
      BY <3>1, <3>2, NoPodIsNone
  <2> HIDE DEF p
  <2>3. /\ api[n] = NoPod /\ api' = [api EXCEPT ![n] = p]
        /\ uids' = [uids EXCEPT ![n] = uids[n] + 1]
        /\ UNCHANGED <<deleting, pods, worker, notice, alive, starts>>
    BY <1>1 DEF Apply, p
  <2>4. uids' \in [Names -> 0 .. MaxUid]
    BY <2>1, <2>3 DEF Uids
  <2>5. TypeOK'
    BY <2>2, <2>3, <2>4
  <2>6. SamePod'
    BY <2>2, <2>3 DEF SamePod
  <2> QED
    BY <2>5, <2>6
<1>2. ASSUME NEW n \in Names, Edit(n) PROVE ProviderInv'
  <2> DEFINE p == [api[n] EXCEPT !.gen = api[n].gen + 1]
  <2>1. api[n] \in Pods /\ api[n].gen + 1 \in 0 .. MaxGen
    BY <1>2, PodFields DEF Edit
  <2>2. /\ p \in Pods /\ p # NoPod /\ p.name = api[n].name /\ p.uid = api[n].uid
        /\ p.gen = api[n].gen + 1
    BY <2>1, WithGen, NoPodIsNone
  <2>3. /\ api' = [api EXCEPT ![n] = p]
        /\ UNCHANGED <<deleting, uids, pods, worker, notice, alive, starts>>
    BY <1>2 DEF Edit
  <2> HIDE DEF p
  <2>4. TypeOK'
    BY <2>2, <2>3
  <2>5. \A k \in Keys : pods[k] # NoPod => pods[k].gen \in Nat /\ pods[k].name \in Names
    BY PodFields
  <2>6. SamePod'
    BY <2>1, <2>2, <2>3, <2>5, PodFields DEF SamePod
  <2> QED
    BY <2>4, <2>6
<1>3. ASSUME NEW n \in Names, Remove(n) PROVE ProviderInv'
  BY <1>3 DEF Remove, SamePod
<1>4. ASSUME NEW n \in Names, WriteStatus(n) PROVE ProviderInv'
  <2>1. notice' \in [Names -> Pods \cup {NoPod}]
    BY <1>4 DEF WriteStatus
  <2>2. UNCHANGED <<deleting, uids, pods, worker, alive, starts>>
    BY <1>4 DEF WriteStatus
  <2>3. CASE api' = api
    BY <2>1, <2>2, <2>3 DEF SamePod
  <2>4. CASE api' # api
    <3>1. PICK p \in Pods : /\ api[n] # NoPod /\ api' = [api EXCEPT ![n] = p]
                            /\ p.name = api[n].name /\ p.uid = api[n].uid
                            /\ p.gen = api[n].gen
      BY <1>4, <2>4, StatusWritten
    <3>2. TypeOK'
      BY <2>1, <2>2, <3>1
    <3>3. \A m \in Names : /\ (api'[m] # NoPod) = (api[m] # NoPod)
                            /\ api'[m].name = api[m].name
                            /\ api'[m].uid = api[m].uid
                            /\ api'[m].gen = api[m].gen
      BY <3>1, NoPodIsNone
    <3>4. \A k \in Keys : pods[k] # NoPod => pods[k].name \in Names
      BY PodFields
    <3>5. SamePod'
      <4>1. ASSUME NEW k \in Keys, pods[k] # NoPod
            PROVE  /\ api'[pods[k].name] # NoPod
                   /\ pods[k].uid = api'[pods[k].name].uid
                   /\ pods[k].gen <= api'[pods[k].name].gen
        BY <3>3, <3>4, <4>1 DEF SamePod
      <4>2. ASSUME NEW m \in Names
            PROVE  /\ api'[m] # NoPod => api'[m].name = m /\ api'[m].uid = uids[m]
                   /\ worker[m] = "creating" => api'[m] # NoPod
        BY <3>3 DEF SamePod
      <4> QED
        BY <2>2, <4>1, <4>2 DEF SamePod
    <3> QED
      BY <3>2, <3>5
  <2> QED
    BY <2>3, <2>4
<1>5. ASSUME NEW n \in Names, StorePod(n) PROVE ProviderInv'
  <2>1. /\ api[n] # NoPod /\ api[n] \in Pods /\ pods' = [pods EXCEPT ![KeyOf[n]] = api[n]]
        /\ worker' = [worker EXCEPT ![n] = "creating"]
        /\ UNCHANGED <<api, deleting, uids, notice, alive, starts>>
    BY <1>5 DEF StorePod, Syncs, outside
  <2>2. api[n].name = n /\ api[n].gen \in Nat
    BY <2>1, PodFields DEF SamePod
  <2>3. TypeOK' /\ SamePod'
    BY <2>1, <2>2 DEF SamePod
  <2> QED
    BY <2>3
<1>6. ASSUME NEW n \in Names, FailVolumes(n) PROVE ProviderInv'
  BY <1>6 DEF FailVolumes, outside, SamePod
<1>7. ASSUME NEW n \in Names, StartPod(n) PROVE ProviderInv'
  <2> DEFINE k == KeyOf[n]
             old == IF pods[k] # NoPod /\ pods[k].name = n THEN pods[k]
                    ELSE [api[n] EXCEPT !.gen = 0]
  <2>1. PICK phase \in {"Running", "Ended"}, entries \in Entries,
             left \in SUBSET {<<n, old.uid>>} :
          LET p == SetStatus(old, phase, entries) IN
          /\ pods' = IF pods[k] # NoPod /\ pods[k].name = n
                     THEN [pods EXCEPT ![k] = p] ELSE pods
          /\ notice' = [notice EXCEPT ![p.name] = p]
          /\ alive' = alive \cup left
    BY <1>7 DEF StartPod, Notify
  <2>2. /\ UNCHANGED <<api, deleting, uids>> /\ worker' = [worker EXCEPT ![n] = "idle"]
        /\ api[n] \in Pods /\ api[n].name = n
        /\ starts' = [starts EXCEPT ![n][old.uid] = @ + 1]
    BY <1>7 DEF StartPod, outside, SamePod
  <2>3. old \in Pods /\ old.name = n
    <3>1. pods[k] \in Pods \cup {NoPod}
      OBVIOUS
    <3>2. 0 \in 0 .. MaxGen
      OBVIOUS
    <3> QED
      BY <2>2, <3>1, <3>2, WithGen
  <2> DEFINE p == SetStatus(old, phase, entries)
  <2>4. p \in Pods /\ p.name = n /\ p.uid = old.uid /\ p.gen = old.gen /\ old.uid \in Uids
    <3> HIDE DEF old, k
    <3>1. phase \in Phases
      BY DEF Phases
    <3>2. p \in Pods /\ p.name = old.name /\ p.uid = old.uid /\ p.gen = old.gen
      BY <2>3, <3>1, WithStatus
    <3>3. old.uid \in Uids
      BY <2>3, PodFields
    <3> QED
      BY <2>3, <3>2, <3>3
  <2> HIDE DEF p, old
  <2>5. starts' \in [Names -> [Uids -> Nat]]
    BY <2>2, <2>4
  <2>6. notice' \in [Names -> Pods \cup {NoPod}] /\ alive' \subseteq Names \X Uids
    BY <2>1, <2>4 DEF p
  <2>7. CASE pods[k] # NoPod /\ pods[k].name = n
    <3>1. pods' = [pods EXCEPT ![k] = p] /\ old = pods[k]
      BY <2>1, <2>7 DEF p, old
    <3>2. TypeOK'
      BY <2>2, <2>4, <2>5, <2>6, <2>7, <3>1
    <3>3. SamePod'
      BY <2>2, <2>4, <2>7, <3>1, NoPodIsNone DEF SamePod
    <3> QED
      BY <3>2, <3>3
  <2>8. CASE ~(pods[k] # NoPod /\ pods[k].name = n)
    BY <2>1, <2>2, <2>5, <2>6, <2>8 DEF SamePod
  <2> QED
    BY <2>7, <2>8
<1>8. ASSUME NEW n \in Names, UpdatePod(n) PROVE ProviderInv'
  <2>1. /\ api[n] # NoPod /\ api[n] \in Pods /\ pods' = [pods EXCEPT ![KeyOf[n]] = api[n]]
        /\ notice' = [notice EXCEPT ![api[n].name] = api[n]]
        /\ UNCHANGED <<api, deleting, uids, worker, alive, starts>>
    BY <1>8 DEF UpdatePod, Syncs, Notify, outside
  <2>2. api[n].name = n /\ api[n].gen \in Nat
    BY <2>1, PodFields DEF SamePod
  <2> QED
    BY <2>1, <2>2 DEF SamePod
<1>9. ASSUME NEW n \in Names, DeletePod(n) PROVE ProviderInv'
  <2>1. /\ worker[n] = "idle" /\ api' = [api EXCEPT ![n] = NoPod]
        /\ deleting' = [deleting EXCEPT ![n] = FALSE]
        /\ notice' = [notice EXCEPT ![n] = NoPod]
        /\ UNCHANGED <<uids, worker, starts>>
        /\ alive' \subseteq alive
        /\ pods' = [pods EXCEPT ![KeyOf[n]] = NoPod]
    BY <1>9 DEF DeletePod, GetPod
  <2>2. \A k \in Keys : pods'[k] # NoPod => pods'[k] = pods[k] /\ pods[k].name # n
    BY <2>1
  <2>3. TypeOK'
    BY <2>1, <2>2
  <2>4. SamePod'
    BY <2>1, <2>2, PodFields DEF SamePod
  <2> QED
    BY <2>3, <2>4
<1>10. ASSUME NEW k \in Keys, CheckPod(k) PROVE ProviderInv'
  <2> DEFINE phase == IF AllTerminated(pods[k]) THEN "Ended" ELSE "Running"
  <2>1. PICK entries \in Entries :
          LET q == SetStatus(pods[k], phase, entries) IN
          /\ pods[k] # NoPod /\ pods' = [pods EXCEPT ![k] = q]
          /\ notice' = [notice EXCEPT ![q.name] = q]
          /\ UNCHANGED <<api, deleting, uids, worker, alive, starts>>
    BY <1>10, ExamineEntries DEF CheckPod, Notify, outside
  <2> DEFINE p == SetStatus(pods[k], phase, entries)
  <2>2. /\ p \in Pods /\ p.name = pods[k].name /\ p.uid = pods[k].uid
        /\ p.gen = pods[k].gen /\ p.name \in Names
    <3>1. pods[k] \in Pods /\ phase \in Phases
      BY <2>1 DEF Phases
    <3> HIDE DEF phase
    <3>2. /\ p \in Pods /\ p.name = pods[k].name /\ p.uid = pods[k].uid
          /\ p.gen = pods[k].gen
      BY <3>1, WithStatus
    <3> QED
      BY <3>2, PodFields
  <2>3. pods' = [pods EXCEPT ![k] = p] /\ notice' = [notice EXCEPT ![p.name] = p]
    BY <2>1
  <2> HIDE DEF p
  <2> QED
    BY <2>1, <2>2, <2>3 DEF SamePod
<1>11. CASE ExitLast
  BY <1>11 DEF ExitLast, outside, SamePod
<1>12. CASE UNCHANGED vars
  BY <1>12 DEF vars, outside, SamePod
<1> QED
  BY <1>1, <1>2, <1>3, <1>4, <1>5, <1>6, <1>7, <1>8, <1>9, <1>10, <1>11, <1>12
     DEF Next, User, Worker

\* Every variable keeps its type, and the map holds pods under a key of
\* theirs, whether or not the keys of the pods differ.
THEOREM ProviderTypes == Spec => []TypeOK
<1>1. ProviderInv => TypeOK
  BY DEF ProviderInv
<1> QED
  BY <1>1, ProviderInit, ProviderStep, PTL DEF Spec

-----------------------------------------------------------------------------
(* The starts of a pod whose key is its own.                               *)

\* The copy of pod n in the map; under a key of its own it is a pod of n.
Stored(n) == pods[KeyOf[n]]

\* While CreatePod is at work on a pod, the pod is in the map and has not been
\* started; and one that has been started is in the map until it is deleted.
StartInv ==
  /\ \A n \in Names, u \in Uids :
       /\ starts[n][u] <= 1
       /\ u > uids[n] => starts[n][u] = 0
  /\ \A n \in Names :
       /\ worker[n] = "creating" => Stored(n) # NoPod /\ starts[n][api[n].uid] = 0
       /\ api[n] # NoPod /\ starts[n][api[n].uid] > 0 => Stored(n) # NoPod

LEMMA OwnKey ==
  ASSUME KeysDiffer, ProviderInv, NEW n \in Names, Stored(n) # NoPod
  PROVE  /\ Stored(n) \in Pods /\ Stored(n).name = n
         /\ api[n] # NoPod /\ Stored(n).uid = api[n].uid
         /\ Stored(n).gen <= api[n].gen
<1>1. KeyOf[n] \in Keys
  BY ProviderAssumption
<1>2. Stored(n) \in Pods
  BY <1>1 DEF Stored, ProviderInv, TypeOK
<1>3. Stored(n).name \in Names /\ KeyOf[Stored(n).name] = KeyOf[n]
  BY <1>1, <1>2, PodFields DEF Stored, ProviderInv, TypeOK
<1>4. Stored(n).name = n
  BY <1>3 DEF KeysDiffer
<1> QED
  BY <1>1, <1>2, <1>4 DEF Stored, ProviderInv, SamePod

\* Where the map is changed at the key of n, it is as it was at other keys.
LEMMA OtherKeys ==
  ASSUME KeysDiffer, TypeOK, NEW n \in Names, NEW p,
         pods' = [pods EXCEPT ![KeyOf[n]] = p]
  PROVE  Stored(n)' = p /\ \A m \in Names \ {n} : Stored(m)' = Stored(m)
<1>1. /\ \A m \in Names : KeyOf[m] \in Keys
      /\ \A m \in Names \ {n} : KeyOf[m] # KeyOf[n]
  BY ProviderAssumption DEF KeysDiffer
<1> QED
  BY <1>1 DEF Stored, TypeOK

\* What CreatePod writes to a pod that is in the map.
LEMMA PodStarted ==
  ASSUME KeysDiffer, ProviderInv, NEW n \in Names, StartPod(n), Stored(n) # NoPod
  PROVE  /\ Stored(n).uid = api[n].uid /\ api[n].uid \in Uids
         /\ worker[n] = "creating" /\ worker' = [worker EXCEPT ![n] = "idle"]
         /\ starts' = [starts EXCEPT ![n][api[n].uid] = @ + 1]
         /\ \E p \in Pods : /\ Stored(n)' = p /\ notice' = [notice EXCEPT ![n] = p]
                             /\ \A m \in Names \ {n} : Stored(m)' = Stored(m)
<1> DEFINE old == Stored(n)
<1>1. /\ old # NoPod /\ old \in Pods /\ old.name = n
      /\ old.uid = api[n].uid /\ old.uid \in Uids
  BY OwnKey, PodFields
<1>2. PICK phase \in {"Running", "Ended"}, entries \in Entries :
        LET p == SetStatus(old, phase, entries) IN
        /\ pods' = [pods EXCEPT ![KeyOf[n]] = p]
        /\ notice' = [notice EXCEPT ![p.name] = p]
  BY <1>1 DEF StartPod, Stored, Notify
<1>3. /\ starts' = [starts EXCEPT ![n][old.uid] = @ + 1]
      /\ worker[n] = "creating" /\ worker' = [worker EXCEPT ![n] = "idle"]
  BY <1>1 DEF StartPod, Stored
<1> DEFINE p == SetStatus(old, phase, entries)
<1>4. p \in Pods /\ p.name = n
  <2> HIDE DEF old
  <2>1. phase \in Phases
    BY DEF Phases
  <2> QED
    BY <1>1, <2>1, WithStatus
<1>5. pods' = [pods EXCEPT ![KeyOf[n]] = p] /\ notice' = [notice EXCEPT ![n] = p]
  BY <1>2, <1>4
<1> HIDE DEF p
<1>6. Stored(n)' = p /\ \A m \in Names \ {n} : Stored(m)' = Stored(m)
  BY <1>5, OtherKeys DEF ProviderInv
<1> QED
  BY <1>1, <1>3, <1>4, <1>5, <1>6

\* What a round of the status loop writes: it is about a pod that was running.
LEMMA PodChecked ==
  ASSUME KeysDiffer, ProviderInv, NEW k \in Keys, CheckPod(k)
  PROVE  \E n \in Names, p \in Pods :
           /\ Stored(n) # NoPod /\ Stored(n).phase = "Running"
           /\ Stored(n)' = p /\ notice' = [notice EXCEPT ![n] = p]
           /\ \A m \in Names \ {n} : Stored(m)' = Stored(m)
<1>1. pods[k] \in Pods /\ pods[k].phase = "Running" /\ pods[k] # NoPod
  BY DEF CheckPod, Skipped, ProviderInv, TypeOK
<1>2. PICK n \in Names : n = pods[k].name /\ KeyOf[n] = k /\ Stored(n) = pods[k]
  BY <1>1, PodFields DEF ProviderInv, TypeOK, Stored
<1> DEFINE phase == IF AllTerminated(pods[k]) THEN "Ended" ELSE "Running"
<1>3. PICK entries \in Entries :
        LET q == SetStatus(pods[k], phase, entries) IN
        pods' = [pods EXCEPT ![k] = q] /\ notice' = [notice EXCEPT ![q.name] = q]
  BY <1>1, ExamineEntries DEF CheckPod, Notify
<1> DEFINE p == SetStatus(pods[k], phase, entries)
<1>4. p \in Pods /\ p.name = n
  <2>1. phase \in Phases
    BY DEF Phases
  <2> HIDE DEF phase
  <2> QED
    BY <1>1, <1>2, <2>1, WithStatus
<1>5. pods' = [pods EXCEPT ![KeyOf[n]] = p] /\ notice' = [notice EXCEPT ![n] = p]
  BY <1>2, <1>3, <1>4
<1> HIDE DEF p
<1>6. Stored(n)' = p /\ \A m \in Names \ {n} : Stored(m)' = Stored(m)
  BY <1>2, <1>5, OtherKeys DEF ProviderInv
<1> QED
  BY <1>1, <1>2, <1>4, <1>5, <1>6

LEMMA StartInit == Init => StartInv
  BY ProviderAssumption DEF Init, StartInv, Stored, Uids

\* The user, and the controller that writes a status.
LEMMA StartUser ==
  ASSUME ProviderInv, StartInv, NEW n \in Names,
         User(n) \/ WriteStatus(n)
  PROVE  StartInv'
<1>1. UNCHANGED <<pods, worker, alive, starts>>
  BY DEF User, Apply, Edit, Remove, WriteStatus
<1>2. \A m \in Names : Stored(m)' = Stored(m)
  BY <1>1 DEF Stored
<1>4. CASE Apply(n)
  <2> DEFINE p == [name |-> n, uid |-> uids[n] + 1, gen |-> 0,
                   phase |-> "Pending", entries |-> "none"]
  <2>8. /\ api[n] = NoPod /\ uids[n] < MaxUid
        /\ api' = [api EXCEPT ![n] = p]
        /\ uids' = [uids EXCEPT ![n] = uids[n] + 1]
    BY <1>4 DEF Apply, ProviderInv, TypeOK
  <2>9. uids[n] \in Nat /\ uids[n] + 1 \in Uids
    BY <2>8, ProviderAssumption DEF ProviderInv, TypeOK, Uids
  <2>10. p.uid = uids[n] + 1
    OBVIOUS
  <2> HIDE DEF p
  <2>1. /\ api'[n].uid = uids[n] + 1 /\ uids' = [uids EXCEPT ![n] = uids[n] + 1]
        /\ uids[n] \in Nat /\ uids[n] + 1 \in Uids
        /\ \A m \in Names \ {n} : api'[m] = api[m]
        /\ api[n] = NoPod
    BY <2>8, <2>9, <2>10 DEF ProviderInv, TypeOK
  <2>2. worker[n] # "creating"
    BY <2>1 DEF ProviderInv, SamePod
  <2>3. starts[n][uids[n] + 1] = 0
    <3>1. \A u \in Uids : u > uids[n] => starts[n][u] = 0
      BY DEF StartInv
    <3>2. uids[n] + 1 > uids[n]
      BY <2>1
    <3> QED
      BY <2>1, <3>1, <3>2
  <2>4. \A m \in Names : uids'[m] = uids[m] \/ uids'[m] = uids[m] + 1
    BY <2>1 DEF ProviderInv, TypeOK
  <2>5. \A u \in Uids : u \in Nat
    BY DEF Uids
  <2>6. \A m \in Names : uids[m] \in Nat
    BY DEF ProviderInv, TypeOK
  <2>7. StartInv'
    BY <1>1, <1>2, <2>1, <2>2, <2>3, <2>4, <2>5, <2>6 DEF StartInv
  <2> QED
    BY <2>7
<1>5. CASE Edit(n) \/ Remove(n) \/ WriteStatus(n)
  <2>1. /\ uids' = uids
        /\ \A m \in Names : (api'[m] # NoPod) = (api[m] # NoPod) /\ api'[m].uid = api[m].uid
    <3>1. CASE Edit(n)
      <4>1. api[n] \in Pods /\ api[n].gen + 1 \in 0 .. MaxGen
        <5>1. api[n] # NoPod /\ api[n].gen < MaxGen /\ api[n] \in Pods
          BY <3>1 DEF Edit, ProviderInv, TypeOK
        <5>2. api[n].gen \in 0 .. MaxGen
          BY <5>1, PodFields
        <5> QED
          BY <5>1, <5>2, ProviderAssumption
      <4> DEFINE p == [api[n] EXCEPT !.gen = api[n].gen + 1]
      <4>2. p \in Pods /\ p.uid = api[n].uid
        BY <4>1, WithGen
      <4>3. api' = [api EXCEPT ![n] = p] /\ uids' = uids
        BY <3>1 DEF Edit, ProviderInv, TypeOK
      <4> HIDE DEF p
      <4> QED
        BY <4>1, <4>2, <4>3, NoPodIsNone DEF ProviderInv, TypeOK
    <3>2. CASE Remove(n)
      BY <3>2 DEF Remove
    <3>3. CASE WriteStatus(n)
      <4>1. uids' = uids
        BY <3>3 DEF WriteStatus
      <4>2. CASE api' = api
        BY <4>1, <4>2
      <4>3. CASE api' # api
        <5>1. PICK p \in Pods : /\ api[n] # NoPod /\ api' = [api EXCEPT ![n] = p]
                                /\ p.uid = api[n].uid
          BY <3>3, <4>3, StatusWritten DEF ProviderInv
        <5> QED
          BY <4>1, <5>1, NoPodIsNone DEF ProviderInv, TypeOK
      <4> QED
        BY <4>2, <4>3
    <3> QED
      BY <1>5, <3>1, <3>2, <3>3
  <2> QED
    BY <1>1, <1>2, <2>1 DEF StartInv
<1> QED
  BY <1>4, <1>5 DEF User

\* The handlers of the pod n.
LEMMA StartWorker ==
  ASSUME KeysDiffer, ProviderInv, StartInv, NEW n \in Names, Worker(n)
  PROVE  StartInv'
<1> USE DEF ProviderInv
<1>1. CASE StorePod(n)
  <2>1. /\ api[n] # NoPod /\ Stored(n) = NoPod /\ pods' = [pods EXCEPT ![KeyOf[n]] = api[n]]
        /\ worker' = [worker EXCEPT ![n] = "creating"]
        /\ UNCHANGED <<api, uids, starts>>
    BY <1>1 DEF StorePod, Syncs, GetPod, Stored, outside
  <2>2. Stored(n)' = api[n] /\ \A m \in Names \ {n} : Stored(m)' = Stored(m)
    BY <2>1, OtherKeys
  <2>3. worker'[n] = "creating" /\ \A m \in Names \ {n} : worker'[m] = worker[m]
    BY <2>1 DEF TypeOK
  <2>4. starts[n][api[n].uid] = 0
    <3>1. api[n].uid \in Uids
      BY <2>1, PodFields DEF TypeOK
    <3>2. starts[n][api[n].uid] \in Nat
      BY <3>1 DEF TypeOK
    <3> QED
      BY <2>1, <3>2 DEF StartInv
  <2> QED
    BY <2>1, <2>2, <2>3, <2>4 DEF StartInv
<1>2. CASE FailVolumes(n)
  <2>1. /\ worker[n] = "creating" /\ worker' = [worker EXCEPT ![n] = "idle"]
        /\ UNCHANGED <<api, uids, pods, starts>>
    BY <1>2 DEF FailVolumes, outside
  <2>2. \A m \in Names : Stored(m)' = Stored(m)
    BY <2>1 DEF Stored
  <2>3. worker'[n] = "idle" /\ \A m \in Names \ {n} : worker'[m] = worker[m]
    BY <2>1 DEF TypeOK
  <2> QED
    BY <2>1, <2>2, <2>3 DEF StartInv
<1>3. CASE StartPod(n)
  <2>0. worker[n] = "creating" /\ Stored(n) # NoPod /\ starts[n][api[n].uid] = 0
    BY <1>3 DEF StartPod, StartInv
  <2>1. /\ Stored(n).uid = api[n].uid /\ api[n].uid \in Uids
        /\ Stored(n)' # NoPod /\ \A m \in Names \ {n} : Stored(m)' = Stored(m)
    BY <1>3, <2>0, PodStarted, NoPodIsNone
  <2>2. starts' = [starts EXCEPT ![n][api[n].uid] = @ + 1]
    BY <1>3, <2>0, PodStarted
  <2>3. UNCHANGED <<api, uids>> /\ worker' = [worker EXCEPT ![n] = "idle"]
    BY <1>3 DEF StartPod, outside
  <2>4. worker'[n] = "idle" /\ \A m \in Names \ {n} : worker'[m] = worker[m]
    BY <2>3 DEF TypeOK
  <2>5. /\ starts'[n][api[n].uid] = 1
        /\ \A m \in Names, u \in Uids :
             m # n \/ u # api[n].uid => starts'[m][u] = starts[m][u]
    BY <2>0, <2>1, <2>2 DEF TypeOK
  <2>6. api[n].uid <= uids[n] /\ uids[n] \in Nat
    BY <2>0, OwnKey DEF TypeOK, SamePod
  <2>7. \A m \in Names, u \in Uids :
          starts'[m][u] <= 1 /\ (u > uids'[m] => starts'[m][u] = 0)
    <3> SUFFICES ASSUME NEW m \in Names, NEW u \in Uids
                 PROVE  starts'[m][u] <= 1 /\ (u > uids'[m] => starts'[m][u] = 0)
      OBVIOUS
    <3>1. CASE m = n /\ u = api[n].uid
      <4>1. u \in Nat /\ ~(u > uids'[m])
        BY <2>3, <2>6, <3>1 DEF Uids
      <4> QED
        BY <2>5, <3>1, <4>1
    <3>2. CASE m # n \/ u # api[n].uid
      <4>1. starts'[m][u] = starts[m][u] /\ uids' = uids
        BY <2>3, <2>5, <3>2
      <4> QED
        BY <4>1 DEF StartInv
    <3> QED
      BY <3>1, <3>2
  <2>8. \A m \in Names : api[m] # NoPod => api[m].uid \in Uids
    BY PodFields DEF TypeOK
  <2>9. \A m \in Names :
           /\ worker'[m] = "creating" => Stored(m)' # NoPod /\ starts'[m][api'[m].uid] = 0
           /\ api'[m] # NoPod /\ starts'[m][api'[m].uid] > 0 => Stored(m)' # NoPod
    BY <2>1, <2>3, <2>4, <2>5, <2>8 DEF StartInv, SamePod
  <2> QED
    BY <2>7, <2>9 DEF StartInv
<1>4. CASE UpdatePod(n)
  <2>1. /\ api[n] # NoPod /\ pods' = [pods EXCEPT ![KeyOf[n]] = api[n]]
        /\ UNCHANGED <<api, uids, worker, starts>>
    BY <1>4 DEF UpdatePod, Syncs, outside
  <2>2. Stored(n)' = api[n] /\ \A m \in Names \ {n} : Stored(m)' = Stored(m)
    BY <2>1, OtherKeys
  <2> QED
    BY <2>1, <2>2 DEF StartInv
<1>5. CASE DeletePod(n)
  <2>1. /\ worker[n] = "idle" /\ api' = [api EXCEPT ![n] = NoPod]
        /\ UNCHANGED <<uids, worker, starts>>
        /\ pods' = [pods EXCEPT ![KeyOf[n]] = NoPod]
    BY <1>5 DEF DeletePod, GetPod, TypeOK
  <2>2. Stored(n)' = NoPod /\ \A m \in Names \ {n} : Stored(m)' = Stored(m)
    BY <2>1, OtherKeys
  <2>3. api'[n] = NoPod /\ \A m \in Names \ {n} : api'[m] = api[m]
    BY <2>1 DEF TypeOK
  <2> QED
    BY <2>1, <2>2, <2>3 DEF StartInv
<1> QED
  BY <1>1, <1>2, <1>3, <1>4, <1>5 DEF Worker

\* The status loop, and the end of the processes.
LEMMA StartOthers ==
  ASSUME KeysDiffer, ProviderInv, StartInv,
         ExitLast \/ UNCHANGED vars \/ \E k \in Keys : CheckPod(k)
  PROVE  StartInv'
<1>1. CASE ExitLast \/ UNCHANGED vars
  <2>1. UNCHANGED <<api, uids, pods, worker, starts>>
    BY <1>1 DEF ExitLast, outside, vars
  <2>2. \A m \in Names : Stored(m)' = Stored(m)
    BY <2>1 DEF Stored
  <2> QED
    BY <2>1, <2>2 DEF StartInv
<1>2. ASSUME NEW k \in Keys, CheckPod(k) PROVE StartInv'
  <2>1. PICK n \in Names, p \in Pods :
          /\ Stored(n) # NoPod /\ Stored(n)' = p
          /\ \A m \in Names \ {n} : Stored(m)' = Stored(m)
    BY <1>2, PodChecked
  <2>2. UNCHANGED <<api, uids, worker, starts>>
    BY <1>2 DEF CheckPod, outside
  <2> QED
    BY <2>1, <2>2, NoPodIsNone DEF StartInv
<1> QED
  BY <1>1, <1>2

LEMMA StartStep == KeysDiffer /\ ProviderInv /\ StartInv /\ [Next]_vars => StartInv'
  BY StartUser, StartWorker, StartOthers DEF Next

\* CreatePod starts the containers of a pod at most once, whatever fails, is
\* edited, ends or is created again meanwhile, if no two pods have one key
\* (mock.go, buildKeyFromNames).
THEOREM ProviderStartedOnce == KeysDiffer => (Spec => []StartedOnce)
<1>1. StartInv => StartedOnce
  BY DEF StartInv, StartedOnce
<1>2. KeysDiffer /\ (ProviderInv /\ StartInv) /\ [Next]_vars => (ProviderInv /\ StartInv)'
  BY ProviderStep, StartStep
<1>3. SUFFICES ASSUME KeysDiffer PROVE Spec => []StartedOnce
  OBVIOUS
<1> QED
  BY <1>1, <1>2, <1>3, ProviderInit, StartInit, PTL DEF Spec

-----------------------------------------------------------------------------
(* The end of a pod whose key is its own.                                  *)

IsEnded(p) == p # NoPod /\ p.phase = "Ended"

\* If the API server has the pod as ended, or is to be told so, the pod has
\* ended in the map, nobody is at work on it, and no other notice is left.  A
\* pod that is not in the map is not known to run, nor while it is created.
EndKnown(n) ==
  /\ notice[n] # NoPod => api[n] # NoPod
  /\ api[n] # NoPod /\ Stored(n) = NoPod => api[n].phase = "Pending" /\ notice[n] = NoPod
  /\ worker[n] = "creating" => Stored(n).phase = "Pending"
  /\ IsEnded(api[n]) \/ IsEnded(notice[n]) => worker[n] = "idle" /\ IsEnded(Stored(n))
  /\ IsEnded(api[n]) /\ notice[n] # NoPod => IsEnded(notice[n])

EndInv == \A n \in Names : EndKnown(n)

LEMMA EndInit == Init => EndInv
<1> SUFFICES ASSUME Init, NEW n \in Names PROVE EndKnown(n)
  BY DEF EndInv
<1>1. api[n] = NoPod /\ notice[n] = NoPod /\ worker[n] = "idle"
  BY DEF Init, NoNotice
<1> QED
  BY <1>1 DEF EndKnown, IsEnded

\* A step that leaves what is known of the pods other than n.
LEMMA EndLocal ==
  ASSUME EndInv, NEW n \in Names, EndKnown(n)',
         \A m \in Names \ {n} :
           /\ api'[m] = api[m] /\ notice'[m] = notice[m]
           /\ worker'[m] = worker[m] /\ Stored(m)' = Stored(m)
  PROVE  EndInv'
<1> SUFFICES ASSUME NEW m \in Names \ {n} PROVE EndKnown(m)'
  BY DEF EndInv
<1>1. /\ api'[m] = api[m] /\ notice'[m] = notice[m]
      /\ worker'[m] = worker[m] /\ Stored(m)' = Stored(m)
  OBVIOUS
<1> QED
  BY <1>1 DEF EndKnown, EndInv, IsEnded

LEMMA EndUser ==
  ASSUME ProviderInv, EndInv, NEW n \in Names, User(n) \/ WriteStatus(n)
  PROVE  EndInv'
<1> USE DEF ProviderInv, TypeOK, NoNotice
<1>1. UNCHANGED <<pods, worker>> /\ \A m \in Names : Stored(m)' = Stored(m)
  BY DEF User, Apply, Edit, Remove, WriteStatus, Stored
<1>2. EndKnown(n)
  BY DEF EndInv
<1>3. CASE Apply(n)
  <2> DEFINE p == [name |-> n, uid |-> uids[n] + 1, gen |-> 0,
                   phase |-> "Pending", entries |-> "none"]
  <2>1. api[n] = NoPod /\ api' = [api EXCEPT ![n] = p] /\ notice' = notice
    BY <1>3 DEF Apply
  <2>2. p.phase = "Pending"
    OBVIOUS
  <2> HIDE DEF p
  <2>3. api'[n] = p /\ \A m \in Names \ {n} : api'[m] = api[m]
    BY <2>1
  <2>4. notice[n] = NoPod
    BY <1>2, <2>1 DEF EndKnown
  <2>5. worker[n] # "creating"
    BY <2>1 DEF SamePod
  <2>6. EndKnown(n)'
    BY <1>1, <2>1, <2>2, <2>3, <2>4, <2>5 DEF EndKnown, IsEnded
  <2> QED
    BY <1>1, <2>1, <2>3, <2>6, EndLocal
<1>4. CASE Edit(n)
  <2> DEFINE p == [api[n] EXCEPT !.gen = api[n].gen + 1]
  <2>1. api[n] \in Pods /\ api[n] # NoPod /\ api[n].gen + 1 \in 0 .. MaxGen
    <3>1. api[n] # NoPod /\ api[n].gen < MaxGen /\ api[n] \in Pods
      BY <1>4 DEF Edit
    <3>2. api[n].gen \in 0 .. MaxGen
      BY <3>1, PodFields
    <3> QED
      BY <3>1, <3>2, ProviderAssumption
  <2>2. p \in Pods /\ p # NoPod /\ p.phase = api[n].phase
    BY <2>1, WithGen, NoPodIsNone
  <2>3. api' = [api EXCEPT ![n] = p] /\ notice' = notice
    BY <1>4 DEF Edit
  <2> HIDE DEF p
  <2>4. api'[n] = p /\ \A m \in Names \ {n} : api'[m] = api[m]
    BY <2>3
  <2>5. EndKnown(n)'
    BY <1>1, <1>2, <2>1, <2>2, <2>3, <2>4 DEF EndKnown, IsEnded
  <2> QED
    BY <1>1, <2>3, <2>4, <2>5, EndLocal
<1>5. CASE Remove(n)
  <2>1. UNCHANGED <<api, notice>>
    BY <1>5 DEF Remove
  <2> QED
    BY <1>1, <2>1 DEF EndInv, EndKnown, IsEnded
<1>6. CASE WriteStatus(n)
  <2>1. /\ notice[n] # NoPod /\ notice'[n] = NoPod
        /\ \A m \in Names \ {n} : notice'[m] = notice[m]
    BY <1>6 DEF WriteStatus
  <2>2. CASE api' = api
    <3>1. EndKnown(n)'
      BY <1>1, <1>2, <2>1, <2>2 DEF EndKnown, IsEnded
    <3> QED
      BY <1>1, <2>1, <2>2, <3>1, EndLocal
  <2>3. CASE api' # api
    <3>1. PICK p \in Pods : /\ api' = [api EXCEPT ![n] = p] /\ p.phase = notice[n].phase
      BY <1>6, <2>3, StatusWritten
    <3>2. api'[n] = p /\ \A m \in Names \ {n} : api'[m] = api[m]
      BY <3>1
    <3>3. EndKnown(n)'
      BY <1>1, <1>2, <2>1, <3>1, <3>2 DEF EndKnown, IsEnded
    <3> QED
      BY <1>1, <2>1, <3>2, <3>3, EndLocal
  <2> QED
    BY <2>2, <2>3
<1> QED
  BY <1>3, <1>4, <1>5, <1>6 DEF User

LEMMA EndWorker ==
  ASSUME KeysDiffer, ProviderInv, StartInv, EndInv, NEW n \in Names, Worker(n)
  PROVE  EndInv'
<1> USE DEF ProviderInv, TypeOK, NoNotice
<1>1. EndKnown(n)
  BY DEF EndInv
<1>2. CASE StorePod(n)
  <2>1. /\ api[n] # NoPod /\ Stored(n) = NoPod
        /\ pods' = [pods EXCEPT ![KeyOf[n]] = api[n]]
        /\ worker' = [worker EXCEPT ![n] = "creating"] /\ UNCHANGED <<api, notice>>
    BY <1>2 DEF StorePod, Syncs, GetPod, Stored, outside
  <2>2. /\ Stored(n)' = api[n]
        /\ \A m \in Names \ {n} : worker'[m] = worker[m] /\ Stored(m)' = Stored(m)
    BY <2>1, OtherKeys
  <2>3. EndKnown(n)'
    BY <1>1, <2>1, <2>2 DEF EndKnown, IsEnded
  <2> QED
    BY <2>1, <2>2, <2>3, EndLocal
<1>3. CASE FailVolumes(n)
  <2>1. /\ worker[n] = "creating" /\ worker' = [worker EXCEPT ![n] = "idle"]
        /\ UNCHANGED <<api, pods, notice>>
    BY <1>3 DEF FailVolumes, outside
  <2>2. \A m \in Names : Stored(m)' = Stored(m)
    BY <2>1 DEF Stored
  <2>3. \A m \in Names \ {n} : worker'[m] = worker[m]
    BY <2>1
  <2>4. worker'[n] = "idle" /\ Stored(n) # NoPod
    BY <2>1 DEF StartInv
  <2>5. EndKnown(n)'
    BY <1>1, <2>1, <2>2, <2>4 DEF EndKnown, IsEnded
  <2> QED
    BY <2>1, <2>2, <2>3, <2>5, EndLocal
<1>4. CASE StartPod(n)
  <2>1. worker[n] = "creating" /\ Stored(n) # NoPod
    BY <1>4 DEF StartPod, StartInv
  <2>2. PICK p \in Pods : /\ Stored(n)' = p /\ notice' = [notice EXCEPT ![n] = p]
                          /\ \A m \in Names \ {n} : Stored(m)' = Stored(m)
    BY <1>4, <2>1, PodStarted
  <2>3. worker' = [worker EXCEPT ![n] = "idle"] /\ api' = api
    BY <1>4 DEF StartPod, outside
  <2>4. /\ notice'[n] = p /\ worker'[n] = "idle" /\ p # NoPod
        /\ \A m \in Names \ {n} : notice'[m] = notice[m] /\ worker'[m] = worker[m]
    BY <2>2, <2>3, NoPodIsNone
  <2>5. api[n] # NoPod /\ ~IsEnded(api[n])
    BY <1>1, <2>1 DEF EndKnown, SamePod
  <2>6. EndKnown(n)'
    BY <2>2, <2>3, <2>4, <2>5 DEF EndKnown, IsEnded
  <2> QED
    BY <2>2, <2>3, <2>4, <2>6, EndLocal
<1>5. CASE UpdatePod(n)
  <2>1. /\ api[n] # NoPod /\ api[n].phase # "Ended" /\ api[n].name = n
        /\ pods' = [pods EXCEPT ![KeyOf[n]] = api[n]]
        /\ notice' = [notice EXCEPT ![api[n].name] = api[n]]
        /\ UNCHANGED <<api, worker>> /\ worker[n] = "idle"
    BY <1>5 DEF UpdatePod, Syncs, Notify, outside, SamePod
  <2>2. /\ Stored(n)' = api[n] /\ notice'[n] = api[n] /\ \A m \in Names \ {n} : notice'[m] = notice[m]
        /\ \A m \in Names \ {n} : Stored(m)' = Stored(m)
    BY <2>1, OtherKeys
  <2>3. EndKnown(n)'
    BY <2>1, <2>2 DEF EndKnown, IsEnded
  <2> QED
    BY <2>1, <2>2, <2>3, EndLocal
<1>6. CASE DeletePod(n)
  <2>1. /\ api' = [api EXCEPT ![n] = NoPod] /\ notice' = [notice EXCEPT ![n] = NoPod]
        /\ pods' = [pods EXCEPT ![KeyOf[n]] = NoPod]
        /\ worker[n] = "idle" /\ worker' = worker
    BY <1>6 DEF DeletePod, GetPod
  <2>2. api'[n] = NoPod /\ notice'[n] = NoPod
    BY <2>1
  <2>3. \A m \in Names \ {n} : api'[m] = api[m] /\ notice'[m] = notice[m]
    BY <2>1
  <2>4. \A m \in Names \ {n} : Stored(m)' = Stored(m)
    BY <2>1, OtherKeys
  <2>5. EndKnown(n)'
    BY <2>1, <2>2 DEF EndKnown, IsEnded
  <2> QED
    BY <2>1, <2>3, <2>4, <2>5, EndLocal
<1> QED
  BY <1>2, <1>3, <1>4, <1>5, <1>6 DEF Worker

LEMMA EndOthers ==
  ASSUME KeysDiffer, ProviderInv, EndInv,
         ExitLast \/ UNCHANGED vars \/ \E k \in Keys : CheckPod(k)
  PROVE  EndInv'
<1>1. CASE ExitLast \/ UNCHANGED vars
  <2>1. UNCHANGED <<api, pods, worker, notice>>
    BY <1>1 DEF ExitLast, outside, vars
  <2>2. \A m \in Names : Stored(m)' = Stored(m)
    BY <2>1 DEF Stored
  <2> QED
    BY <2>1, <2>2 DEF EndInv, EndKnown, IsEnded
<1>2. ASSUME NEW k \in Keys, CheckPod(k) PROVE EndInv'
  <2>1. PICK n \in Names, p \in Pods :
          /\ Stored(n) # NoPod /\ Stored(n).phase = "Running"
          /\ Stored(n)' = p /\ notice' = [notice EXCEPT ![n] = p]
          /\ \A m \in Names \ {n} : Stored(m)' = Stored(m)
    BY <1>2, PodChecked
  <2>2. UNCHANGED <<api, worker>>
    BY <1>2 DEF CheckPod, outside
  <2>3. notice'[n] = p /\ \A m \in Names \ {n} : notice'[m] = notice[m]
    BY <2>1 DEF ProviderInv, TypeOK
  <2>4. p # NoPod
    BY NoPodIsNone
  <2>5. EndKnown(n)
    BY DEF EndInv
  <2>6. ~IsEnded(api[n])
    BY <2>1, <2>5 DEF EndKnown, IsEnded
  <2>7. api[n] # NoPod /\ worker[n] = "idle"
    BY <2>1, <2>5, OwnKey DEF EndKnown, ProviderInv, TypeOK
  <2>8. EndKnown(n)'
    BY <2>1, <2>2, <2>3, <2>4, <2>6, <2>7 DEF EndKnown, IsEnded
  <2> QED
    BY <2>1, <2>2, <2>3, <2>8, EndLocal
<1> QED
  BY <1>1, <1>2

LEMMA EndStep ==
  KeysDiffer /\ ProviderInv /\ StartInv /\ EndInv /\ [Next]_vars => EndInv'
  BY EndUser, EndWorker, EndOthers DEF Next

\* A pod that the API server has as ended stays so until it is deleted, if no
\* two pods have one key: GetPods passes over it, UpdatePod is not called for
\* it, and no older status of it is left to be written.
THEOREM ProviderEndedStays == KeysDiffer => (Spec => EndedStays)
<1>1. ASSUME ProviderInv, EndInv, [Next]_vars,
             NEW n \in Names, IsEnded(api[n])
      PROVE  api'[n] = NoPod \/ api'[n].phase = "Ended"
  <2>1. CASE UNCHANGED api
    BY <1>1, <2>1 DEF IsEnded
  <2>2. ASSUME NEW m \in Names, WriteStatus(m), api' # api
        PROVE  api'[n] = NoPod \/ api'[n].phase = "Ended"
    <3>1. PICK p \in Pods : /\ api' = [api EXCEPT ![m] = p]
                            /\ notice[m] # NoPod /\ p.phase = notice[m].phase
      BY <1>1, <2>2, StatusWritten DEF ProviderInv
    <3>2. m = n => p.phase = "Ended"
      BY <1>1, <3>1 DEF EndInv, EndKnown, IsEnded
    <3> QED
      BY <1>1, <3>1, <3>2 DEF IsEnded, ProviderInv, TypeOK
  <2>3. ASSUME NEW m \in Names, Apply(m) \/ Edit(m)
        PROVE  api'[n] = NoPod \/ api'[n].phase = "Ended"
    <3>1. CASE m # n
      BY <1>1, <2>3, <3>1 DEF Apply, Edit, IsEnded, ProviderInv, TypeOK
    <3>2. CASE m = n
      <4>1. Edit(n)
        BY <1>1, <2>3, <3>2 DEF Apply, IsEnded
      <4>2. api[n] \in Pods
        BY <1>1 DEF IsEnded, ProviderInv, TypeOK
      <4> QED
        BY <1>1, <4>1, <4>2 DEF Edit, IsEnded, ProviderInv, TypeOK, Pods
    <3> QED
      BY <3>1, <3>2
  <2>4. ASSUME NEW m \in Names, DeletePod(m)
        PROVE  api'[n] = NoPod \/ api'[n].phase = "Ended"
    BY <1>1, <2>4 DEF DeletePod, IsEnded, ProviderInv, TypeOK
  <2>5. \/ UNCHANGED api
        \/ \E m \in Names : \/ WriteStatus(m) /\ api' # api
                            \/ Apply(m)
                            \/ Edit(m)
                            \/ DeletePod(m)
    BY <1>1 DEF Next, User, Worker, Remove, StorePod, FailVolumes, StartPod,
                UpdatePod, CheckPod, ExitLast, vars, outside
  <2> QED
    BY <2>1, <2>2, <2>3, <2>4, <2>5
<1>2. ProviderInv /\ StartInv /\ EndInv /\ [Next]_vars
        => [\A n \in Names : api[n] # NoPod /\ api[n].phase = "Ended"
              => api'[n] = NoPod \/ api'[n].phase = "Ended"]_vars
  BY <1>1 DEF IsEnded
<1>3. KeysDiffer /\ (ProviderInv /\ StartInv /\ EndInv) /\ [Next]_vars
        => (ProviderInv /\ StartInv /\ EndInv)'
  BY ProviderStep, StartStep, EndStep
<1>4. SUFFICES ASSUME KeysDiffer PROVE Spec => EndedStays
  OBVIOUS
<1> QED
  BY <1>2, <1>3, <1>4, ProviderInit, StartInit, EndInit, PTL DEF Spec, EndedStays
=============================================================================
