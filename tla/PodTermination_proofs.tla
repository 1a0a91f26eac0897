----------------------- MODULE PodTermination_proofs -----------------------
\* Proofs about PodTermination, for any containers and any processes.
EXTENDS PodTermination, FiniteSetTheorems, TLAPS

LEMMA CapacityIsNat == Capacity \in Nat
  BY ContainersAssumption, FS_CardinalityType DEF Capacity

\* A send stays within the capacity; a receive takes a message.
LEMMA SendType ==
  ASSUME NEW m \in Msg, errCh \in Seq(Msg), Len(errCh) \in 0 .. Capacity, Send(m)
  PROVE  errCh' \in Seq(Msg) /\ Len(errCh') \in 0 .. Capacity
  BY CapacityIsNat DEF Send

LEMMA TailType ==
  ASSUME errCh \in Seq(Msg), errCh # <<>>, Len(errCh) \in 0 .. Capacity
  PROVE  /\ Tail(errCh) \in Seq(Msg) /\ Len(Tail(errCh)) \in 0 .. Capacity
         /\ Head(errCh) \in Msg
  BY CapacityIsNat

\* A step of a pid's goroutine leaves the array of their states well typed.
SubType == [Containers -> [Pids ->
              {"none", "group", "stat", "parent", "signal", "report", "done"}]]

LEMMA StepType ==
  ASSUME NEW c \in Containers, NEW p \in Pids, NEW from,
         NEW to \in {"none", "group", "stat", "parent", "signal", "report", "done"},
         sub \in SubType, Step(c, p, from, to)
  PROVE  sub' \in SubType
  BY DEF Step, SubType

\* Every variable keeps its type and the channel its capacity.
THEOREM TypeCorrect == Spec => []TypeOK
<1>1. Init => TypeOK
  BY CapacityIsNat, LeaderAssumption DEF Init, TypeOK, ProcState, Alive, Dead, Msg
<1>2. TypeOK /\ [Next]_vars => TypeOK'
  <2> SUFFICES ASSUME TypeOK, [Next]_vars PROVE TypeOK'
    OBVIOUS
  <2> USE CapacityIsNat DEF TypeOK, snapVars, idVars, ownVars
  <2>1. ASSUME NEW p \in Pids, Exit(p) PROVE TypeOK'
    BY <2>1 DEF Exit, Orphaned, ProcState, Alive, Dead, podVars, callVars,
                grVars, subVars, ownVars
  <2>2. ASSUME NEW p \in Pids, Reap(p) PROVE TypeOK'
    BY <2>2 DEF Reap, ProcState, Alive, Dead, podVars, callVars, grVars,
                snapVars, subVars, ownVars
  <2>3. ASSUME NEW p \in Pids \cup {Outside}, NEW q \in Pids, Fork(p, q)
        PROVE  TypeOK'
    <3>1. st' \in [Pids -> ProcState] /\ parent' \in [Pids -> Pids \cup {Outside}]
      BY <2>3 DEF Fork, ProcState, Alive, Dead
    <3>2. pgid' \in [Pids -> Pids] /\ reuses' \in 0 .. MaxReuse
      <4>1. p # Outside => pgid[p] \in Pids
        OBVIOUS
      <4>2. pgid' \in [Pids -> Pids]
        BY <2>3, <4>1 DEF Fork
      <4>3. reuses' = reuses \/ (reuses < MaxReuse /\ reuses' = reuses + 1)
        BY <2>3 DEF Fork
      <4>4. reuses' \in 0 .. MaxReuse
        BY <4>3, LeaderAssumption
      <4> QED
        BY <4>2, <4>4
    <3>3. /\ own' \in [Pids -> {"pod", "other", "nobody"}] /\ changed' \in SUBSET Pids
          /\ listed' \in [Containers -> SUBSET Pids]
      <4>1. own' \in [Pids -> {"pod", "other", "nobody"}]
        <5>1. (IF p = Outside THEN "other" ELSE own[p]) \in {"pod", "other", "nobody"}
          OBVIOUS
        <5> QED
          BY <2>3, <5>1 DEF Fork
      <4>2. changed' \in SUBSET Pids
        BY <2>3 DEF Fork
      <4>3. listed' \in [Containers -> SUBSET Pids]
        BY <2>3 DEF Fork
      <4> QED
        BY <4>1, <4>2, <4>3
    <3> QED
      BY <2>3, <3>1, <3>2, <3>3
         DEF Fork, podVars, callVars, grVars, subVars
  <2>4. CASE DeletePod
    BY <2>4 DEF DeletePod, procVars, podVars, subVars
  <2>5. CASE Collect
    <3>1. /\ errCh' \in Seq(Msg) /\ Len(errCh') \in 0 .. Capacity
      BY <2>5, TailType DEF Collect
    <3>2. nils' \in 0 .. Capacity
      BY <2>5 DEF Collect
    <3> QED
      BY <2>5, <3>1, <3>2 DEF Collect, procVars, podVars, grVars, subVars
  <2>6. CASE CloseAndReturn
    BY <2>6 DEF CloseAndReturn, procVars, podVars, grVars, subVars
  <2>7. CASE Forget
    BY <2>7 DEF Forget, procVars, grVars, subVars
  <2>8. CASE Recreate
    BY <2>8 DEF Recreate, procVars, callVars, grVars, subVars
  <2>9. ASSUME NEW c \in Containers, Goroutine(c) PROVE TypeOK'
    <3>1. CASE ListProcesses(c)
      BY <3>1 DEF ListProcesses, procVars, podVars, callVars
    <3>2. CASE Fail(c)
      BY <3>2 DEF Fail, procVars, podVars, callVars, subVars
    <3>3. CASE StartKilling(c)
      BY <3>3 DEF StartKilling, procVars, podVars, callVars
    <3>4. CASE EndKilling(c)
      BY <3>4 DEF EndKilling, procVars, podVars, callVars, subVars
    <3>5. CASE RemoveDir(c)
      BY <3>5 DEF RemoveDir, procVars, callVars, subVars
    <3>6. CASE ReportNil(c)
      <4>1. [from |-> c, err |-> FALSE] \in Msg
        BY DEF Msg
      <4>2. errCh' \in Seq(Msg) /\ Len(errCh') \in 0 .. Capacity
        BY <3>6, <4>1, SendType DEF ReportNil
      <4> QED
        BY <3>6, <4>2 DEF ReportNil, procVars, podVars, callVars, subVars
    <3>7. CASE ReportFailure(c)
      <4>1. [from |-> c, err |-> TRUE] \in Msg
        BY DEF Msg
      <4>2. errCh' \in Seq(Msg) /\ Len(errCh') \in 0 .. Capacity
        BY <3>7, <4>1, SendType DEF ReportFailure
      <4> QED
        BY <3>7, <4>2 DEF ReportFailure, procVars, podVars, callVars, subVars
    <3> QED
      BY <2>9, <3>1, <3>2, <3>3, <3>4, <3>5, <3>6, <3>7 DEF Goroutine
  <2>10. ASSUME NEW c \in Containers, NEW p \in Pids, PidGoroutine(c, p)
         PROVE  TypeOK'
    <3>1. CASE ReadGroup(c, p)
      <4>1. sub' \in SubType
        BY <3>1, StepType DEF ReadGroup, SubType
      <4>2. hit' \in [Containers -> SUBSET Pids]
        <5>1. hit' \in {hit, [hit EXCEPT ![c] = @ \cup {p}], [hit EXCEPT ![c] = @ \ {p}]}
          BY <3>1 DEF ReadGroup
        <5>2. hit' = hit \/ \E S \in SUBSET Pids : hit' = [hit EXCEPT ![c] = S]
          <6>1. hit[c] \in SUBSET Pids
            OBVIOUS
          <6>2. hit[c] \cup {p} \in SUBSET Pids /\ hit[c] \ {p} \in SUBSET Pids
            BY <6>1
          <6> QED
            BY <5>1, <6>2
        <5> QED
          BY <5>2
      <4> QED
        BY <3>1, <4>1, <4>2
           DEF ReadGroup, SubType, procVars, podVars, callVars, grVars
    <3>5. CASE ReadParent(c, p)
      <4>1. sub' \in SubType
        BY <3>5, StepType DEF ReadParent, SubType
      <4>2. ppid' \in [Containers -> [Pids -> Pids \cup {Outside}]]
        <5>1. parent[p] \in Pids \cup {Outside}
          OBVIOUS
        <5>2. [ppid EXCEPT ![c][p] = parent[p]]
                \in [Containers -> [Pids -> Pids \cup {Outside}]]
          BY <5>1
        <5> QED
          BY <3>5, <5>2 DEF ReadParent
      <4>3. hit' \in [Containers -> SUBSET Pids]
        <5>1. hit' \in {hit, [hit EXCEPT ![c] = @ \cup {p}], [hit EXCEPT ![c] = @ \ {p}]}
          BY <3>5 DEF ReadParent
        <5>2. hit' = hit \/ \E S \in SUBSET Pids : hit' = [hit EXCEPT ![c] = S]
          <6>1. hit[c] \in SUBSET Pids
            OBVIOUS
          <6>2. hit[c] \cup {p} \in SUBSET Pids /\ hit[c] \ {p} \in SUBSET Pids
            BY <6>1
          <6> QED
            BY <5>1, <6>2
        <5> QED
          BY <5>2
      <4> QED
        BY <3>5, <4>1, <4>2, <4>3
           DEF ReadParent, SubType, procVars, podVars, callVars, grVars
    <3>2. CASE ReadParentGroup(c, p)
      <4>1. sub' \in SubType
        BY <3>2, StepType DEF ReadParentGroup, SubType
      <4> QED
        BY <3>2, <4>1
           DEF ReadParentGroup, SubType, procVars, podVars, callVars, grVars
    <3>3. CASE Signal(c, p)
      <4>1. sub' \in SubType
        BY <3>3, StepType DEF Signal, SubType
      <4>2. Stop(p) => st' \in [Pids -> ProcState] /\ parent' = parent
        BY DEF Stop, ProcState, Alive
      <4>3. Kill(p) => /\ st' \in [Pids -> ProcState]
                       /\ parent' \in [Pids -> Pids \cup {Outside}]
        BY DEF Kill, Orphaned, ProcState, Alive, Dead
      <4> QED
        BY <3>3, <4>1, <4>2, <4>3
           DEF Signal, SubType, ownVars, idVars, podVars, callVars, grVars
    <3>4. CASE Report(c, p)
      <4>1. [from |-> c, err |-> TRUE] \in Msg
        BY DEF Msg
      <4>2. errCh' \in Seq(Msg) /\ Len(errCh') \in 0 .. Capacity
        BY <3>4, <4>1, SendType DEF Report
      <4> QED
        BY <3>4, <4>2 DEF Report, Step, idVars, procVars, podVars, callVars, grVars
    <3> QED
      BY <2>10, <3>1, <3>2, <3>3, <3>4, <3>5 DEF PidGoroutine
  <2>11. CASE UNCHANGED vars
    BY <2>11 DEF vars, procVars, podVars, callVars, grVars, subVars
  <2> QED
    BY <2>1, <2>2, <2>3, <2>4, <2>5, <2>6, <2>7, <2>8, <2>9, <2>10, <2>11
       DEF Next, Kernel, Caller
<1> QED
  BY <1>1, <1>2, PTL DEF Spec

-----------------------------------------------------------------------------
(* Other programs: while no pid has passed between the pod and another     *)
(* program, their parents and groups are other programs' too, so that the  *)
(* skip condition never lets a signal through.                             *)

Others == {p \in Pids : own[p] = "other"}

ProcessesApart ==
  /\ \A c \in Containers : Leader[c] \in Pids => own[Leader[c]] = "pod"
  /\ \A p \in Pids : own[p] = "nobody" => st[p] = "unborn"
  /\ \A p \in Others : /\ parent[p] \in Others \cup {Outside}
                       /\ pgid[p] \in Others
                       /\ st[p] \notin {"stopped", "killed"}

ReadsApart ==
  \A c \in Containers : \A p \in Pids : own[p] # "pod" =>
    /\ ppid[c][p] \in Others \cup {Outside}
    /\ p \notin hit[c]
    /\ sub[c][p] # "signal"

ApartInv == changed = {} => ProcessesApart /\ ReadsApart

\* A step keeps the reads apart that leaves the owners of the pids alone and
\* sets what is read of the pids that are the pod's only.
LEMMA ApartFork ==
  ASSUME TypeOK, ApartInv, NEW p \in Pids \cup {Outside}, NEW q \in Pids,
         Fork(p, q), changed' = {}
  PROVE  ProcessesApart' /\ ReadsApart'
<1> DEFINE o == IF p = Outside THEN "other" ELSE own[p]
<1> USE DEF TypeOK
<1>1. /\ changed = {} /\ own[q] \in {"nobody", o} /\ own' = [own EXCEPT ![q] = o]
      /\ st' = [st EXCEPT ![q] = "running"] /\ parent' = [parent EXCEPT ![q] = p]
      /\ \/ pgid' = [pgid EXCEPT ![q] = q]
         \/ p \in Pids /\ pgid' = [pgid EXCEPT ![q] = pgid[p]]
      /\ p # Outside => st[p] = "running"
      /\ UNCHANGED <<sub, hit, ppid>>
  BY LeaderAssumption DEF Fork, subVars
<1>2. ProcessesApart /\ ReadsApart
  BY <1>1 DEF ApartInv
<1>3. o \in {"pod", "other"} /\ (o = "other" => p \in Others \cup {Outside})
  BY <1>1, <1>2 DEF ProcessesApart, Others
<1> HIDE DEF o
<1>4. /\ \A x \in Pids : own[x] # "nobody" => own'[x] = own[x]
      /\ \A x \in Pids : x # q => own'[x] = own[x]
      /\ own'[q] = o
  BY <1>1
<1>5. Others \subseteq Others'
  BY <1>4 DEF Others
<1>6. ReadsApart'
  <2> SUFFICES ASSUME NEW c \in Containers, NEW x \in Pids, own'[x] # "pod"
               PROVE  /\ ppid[c][x] \in Others' \cup {Outside}
                      /\ x \notin hit[c] /\ sub[c][x] # "signal"
    BY <1>1 DEF ReadsApart
  <2>1. own[x] # "pod"
    BY <1>4
  <2> QED
    BY <1>2, <1>5, <2>1 DEF ReadsApart
<1>7. ProcessesApart'
  <2>1. \A c \in Containers : Leader[c] \in Pids => own'[Leader[c]] = "pod"
    BY <1>2, <1>4 DEF ProcessesApart
  <2>2. ASSUME NEW x \in Pids, own'[x] = "nobody" PROVE st'[x] = "unborn"
    BY <1>1, <1>2, <1>3, <1>4, <2>2 DEF ProcessesApart
  <2>3. ASSUME NEW x \in Others'
        PROVE  /\ parent'[x] \in Others' \cup {Outside} /\ pgid'[x] \in Others'
               /\ st'[x] \notin {"stopped", "killed"}
    <3>1. CASE x = q
      <4>1. o = "other" /\ q \in Others'
        BY <1>4, <2>3, <3>1 DEF Others
      <4>2. p \in Others => pgid[p] \in Others
        BY <1>2 DEF ProcessesApart
      <4>3. pgid'[q] \in Others'
        BY <1>1, <1>3, <1>5, <4>1, <4>2, LeaderAssumption
      <4> QED
        BY <1>1, <1>3, <1>5, <3>1, <4>1, <4>3
    <3>2. CASE x # q
      <4>1. x \in Others
        BY <1>4, <2>3, <3>2 DEF Others
      <4>2. parent'[x] = parent[x] /\ pgid'[x] = pgid[x] /\ st'[x] = st[x]
        BY <1>1, <2>3, <3>2 DEF Others
      <4> QED
        BY <1>2, <1>5, <4>1, <4>2 DEF ProcessesApart
    <3> QED
      BY <3>1, <3>2
  <2> QED
    BY <2>1, <2>2, <2>3 DEF ProcessesApart
<1> QED
  BY <1>6, <1>7

\* A goroutine of a pid sets what it has read of its own pid only.
LEMMA ReadStep ==
  ASSUME TypeOK, NEW c \in Containers, NEW p \in Pids, PidGoroutine(c, p),
         NEW d \in Containers, NEW x \in Pids, d # c \/ x # p
  PROVE  sub'[d][x] = sub[d][x] /\ (x \in hit'[d] <=> x \in hit[d]) /\ ppid'[d][x] = ppid[d][x]
<1> USE DEF TypeOK
<1>1. \E to : sub' = [sub EXCEPT ![c][p] = to]
  BY DEF PidGoroutine, ReadGroup, ReadParent, ReadParentGroup, Signal, Report, Step
<1>2. hit' \in {hit, [hit EXCEPT ![c] = @ \cup {p}], [hit EXCEPT ![c] = @ \ {p}]}
  BY DEF PidGoroutine, ReadGroup, ReadParent, ReadParentGroup, Signal, Report, idVars
<1>3. ppid' = ppid \/ \E b : ppid' = [ppid EXCEPT ![c][p] = b]
  BY DEF PidGoroutine, ReadGroup, ReadParent, ReadParentGroup, Signal, Report, idVars
<1>4. sub'[d][x] = sub[d][x]
  BY <1>1
<1>5. (x \in hit'[d] <=> x \in hit[d])
  <2>1. CASE hit' = hit
    BY <2>1
  <2>2. CASE hit' = [hit EXCEPT ![c] = @ \cup {p}]
    BY <2>2
  <2>3. CASE hit' = [hit EXCEPT ![c] = @ \ {p}]
    BY <2>3
  <2> QED
    BY <1>2, <2>1, <2>2, <2>3
<1>6. ppid'[d][x] = ppid[d][x]
  <2>1. CASE ppid' = ppid
    BY <2>1
  <2>2. ASSUME NEW b, ppid' = [ppid EXCEPT ![c][p] = b] PROVE ppid'[d][x] = ppid[d][x]
    BY <2>2
  <2> QED
    BY <1>3, <2>1, <2>2
<1> QED
  BY <1>4, <1>5, <1>6

\* What a goroutine reads of a process that is not the pod's: it skips it.
LEMMA ApartRead ==
  ASSUME TypeOK, ProcessesApart, ReadsApart, NEW c \in Containers, NEW p \in Pids,
         PidGoroutine(c, p), own[p] # "pod"
  PROVE  /\ ppid'[c][p] \in Others \cup {Outside}
         /\ p \notin hit'[c]
         /\ sub'[c][p] # "signal"
<1> USE DEF TypeOK
<1>1. /\ ppid[c][p] \in Others \cup {Outside}
      /\ p \notin hit[c]
      /\ sub[c][p] # "signal"
  BY DEF ReadsApart
<1>2. Exists(p) => p \in Others
  BY DEF Exists, ProcessesApart, Others
<1>3. \A q \in Others : pgid[q] # Leader[c]
  BY DEF ProcessesApart, Others
<1>4. CASE ReadGroup(c, p)
  <2>1. sub'[c][p] \in {"stat", "report"} /\ ppid' = ppid
    BY <1>4 DEF ReadGroup, Step
  <2>2. p \notin hit'[c]
    BY <1>1, <1>2, <1>3, <1>4 DEF ReadGroup
  <2> QED
    BY <1>1, <2>1, <2>2
<1>5. CASE ReadParent(c, p)
  <2>1. sub'[c][p] \in {"parent", "report"} /\ p \notin hit'[c]
    BY <1>1, <1>5 DEF ReadParent, Step
  <2>2. ppid'[c][p] \in Others \cup {Outside}
    <3>1. CASE ppid' = ppid
      BY <1>1, <3>1
    <3>2. CASE Exists(p) /\ ppid' = [ppid EXCEPT ![c][p] = parent[p]]
      BY <1>2, <3>2 DEF ProcessesApart
    <3> QED
      BY <1>5, <3>1, <3>2 DEF ReadParent
  <2> QED
    BY <2>1, <2>2
<1>6. CASE ReadParentGroup(c, p)
  <2>1. ~InGroup(c, p)
    BY <1>1, <1>3 DEF InGroup
  <2> QED
    BY <1>6, <2>1 DEF ReadParentGroup, Step
<1>7. CASE Signal(c, p)
  BY <1>1, <1>7 DEF Signal, Step
<1>8. CASE Report(c, p)
  BY <1>1, <1>8 DEF Report, Step, idVars
<1> QED
  BY <1>4, <1>5, <1>6, <1>7, <1>8 DEF PidGoroutine

LEMMA ApartStep ==
  ASSUME TypeOK, ApartInv, [Next]_vars
  PROVE  ApartInv'
<1> USE LeaderAssumption DEF ApartInv, ProcessesApart, ReadsApart, Others, TypeOK
<1>1. ASSUME NEW p \in Pids, Exit(p) PROVE ApartInv'
  BY <1>1 DEF Exit, Orphaned, subVars, ownVars
<1>2. ASSUME NEW p \in Pids, Reap(p) PROVE ApartInv'
  BY <1>2 DEF Reap, subVars, ownVars, Dead
<1>3. ASSUME NEW p \in Pids \cup {Outside}, NEW q \in Pids, Fork(p, q)
      PROVE  ApartInv'
  BY <1>3, ApartFork
<1>4. CASE Caller \/ Recreate
  BY <1>4 DEF Caller, DeletePod, Collect, CloseAndReturn, Forget, Recreate,
              procVars, subVars
<1>5. ASSUME NEW c \in Containers, Goroutine(c) PROVE ApartInv'
  <2>1. CASE ListProcesses(c)
    BY <2>1 DEF ListProcesses, procVars, idVars
  <2>2. CASE StartKilling(c)
    BY <2>2 DEF StartKilling, procVars, idVars
  <2>3. CASE Fail(c) \/ EndKilling(c)
    BY <2>3 DEF Fail, EndKilling, procVars, subVars
  <2>4. CASE RemoveDir(c) \/ ReportNil(c) \/ ReportFailure(c)
    BY <2>4 DEF RemoveDir, ReportNil, ReportFailure, procVars, subVars
  <2> QED
    BY <1>5, <2>1, <2>2, <2>3, <2>4 DEF Goroutine
<1>6. ASSUME NEW c \in Containers, NEW p \in Pids, PidGoroutine(c, p), changed' = {}
      PROVE  ProcessesApart' /\ ReadsApart'
  <2>1. UNCHANGED <<own, changed, pgid>>
    BY <1>6 DEF PidGoroutine, ReadGroup, ReadParent, ReadParentGroup, Signal, Report,
                procVars, ownVars
  <2>2. ProcessesApart /\ ReadsApart /\ Others' = Others
    BY <1>6, <2>1
  <2>3. ReadsApart'
    <3> SUFFICES ASSUME NEW d \in Containers, NEW x \in Pids, own[x] # "pod"
                 PROVE  /\ ppid'[d][x] \in Others \cup {Outside}
                        /\ x \notin hit'[d] /\ sub'[d][x] # "signal"
      BY <2>1, <2>2
    <3>1. CASE d = c /\ x = p
      BY <1>6, <2>2, <3>1, ApartRead
    <3>2. CASE d # c \/ x # p
      BY <1>6, <2>2, <3>2, ReadStep
    <3> QED
      BY <3>1, <3>2
  <2>4. ProcessesApart'
    <3>1. CASE Signal(c, p)
      <4>1. p \notin Others
        BY <2>2, <3>1 DEF Signal, Step
      <4>2. \A x \in Others : st'[x] = st[x]
                             /\ parent'[x] \in Others \cup {Outside}
        BY <2>2, <3>1, <4>1 DEF Signal, Stop, Kill, Orphaned
      <4>3. \A x \in Pids : own[x] = "nobody" => st'[x] = "unborn"
        BY <2>2, <3>1 DEF Signal, Stop, Kill, Alive, Exists
      <4> QED
        BY <2>1, <2>2, <4>2, <4>3
    <3>2. CASE ~Signal(c, p)
      <4>1. UNCHANGED <<st, parent>>
        BY <1>6, <3>2 DEF PidGoroutine, ReadGroup, ReadParent, ReadParentGroup, Report,
                          procVars
      <4> QED
        BY <2>1, <2>2, <4>1
    <3> QED
      BY <3>1, <3>2
  <2> QED
    BY <2>3, <2>4
<1>7. CASE UNCHANGED vars
  BY <1>7 DEF vars, procVars, subVars
<1> QED
  BY <1>1, <1>2, <1>3, <1>4, <1>5, <1>6, <1>7 DEF Next, Kernel

\* Unless a pid has passed between the pod and another program, deletePod
\* never stops or kills a process that is not the pod's, for any pids, any
\* ContainerIDs and any number of reuses of a pid.
THEOREM ForeignSafe == Spec => []ForeignHitByReuseOnly
<1>1. Init => ApartInv
  <2> SUFFICES ASSUME Init PROVE ProcessesApart /\ ReadsApart
    BY DEF ApartInv
  <2>1. \A p \in Pids : /\ own[p] \in {"pod", "other", "nobody"}
                        /\ st[p] = IF own[p] = "nobody" THEN "unborn" ELSE "running"
                        /\ parent[p] = Outside /\ pgid[p] = p
    BY DEF Init
  <2>2. \A c \in Containers : Leader[c] \in Pids => own[Leader[c]] = "pod"
    BY DEF Init
  <2>3. ProcessesApart
    BY <2>1, <2>2 DEF ProcessesApart, Others
  <2>4. ReadsApart
    BY DEF Init, ReadsApart
  <2> QED
    BY <2>3, <2>4
<1>2. TypeOK /\ ApartInv /\ [Next]_vars => ApartInv'
  BY ApartStep
<1>3. ApartInv => ForeignHitByReuseOnly
  <2> SUFFICES ASSUME ApartInv, changed = {}, NEW p \in Pids, own[p] = "other"
               PROVE  st[p] \notin {"stopped", "killed"}
    BY DEF ForeignHitByReuseOnly, ForeignUntouched
  <2> QED
    BY DEF ApartInv, ProcessesApart, Others
<1> QED
  BY <1>1, <1>2, <1>3, TypeCorrect, PTL DEF Spec

-----------------------------------------------------------------------------
(* Closing errCh: the loop has received one nil from each container, and a *)
(* container sends its nil when nothing of it is left to send.             *)

NilOf(c) == [from |-> c, err |-> FALSE]
ErrOf(c) == [from |-> c, err |-> TRUE]

\* The nil of c is in the queue s; it is there at most once.
Queued(s, c) == \E i \in 1 .. Len(s) : s[i] = NilOf(c)
Once(s, c) ==
  \A i, j \in 1 .. Len(s) : s[i] = NilOf(c) /\ s[j] = NilOf(c) => i = j

LEMMA Messages ==
  ASSUME NEW c \in Containers, NEW d \in Containers
  PROVE  /\ NilOf(c) \in Msg /\ ErrOf(c) \in Msg /\ NilOf(c) # ErrOf(d)
         /\ NilOf(c) = NilOf(d) => c = d
  BY DEF NilOf, ErrOf, Msg

LEMMA AppendQueue ==
  ASSUME NEW s \in Seq(Msg), NEW m \in Msg, NEW c \in Containers
  PROVE  /\ Queued(Append(s, m), c) <=> Queued(s, c) \/ m = NilOf(c)
         /\ Once(s, c) /\ (m = NilOf(c) => ~Queued(s, c))
              => Once(Append(s, m), c)
<1>1. /\ Len(Append(s, m)) = Len(s) + 1 /\ Len(s) \in Nat
      /\ \A i \in 1 .. Len(s) : Append(s, m)[i] = s[i]
      /\ Append(s, m)[Len(s) + 1] = m
  OBVIOUS
<1>2. 1 .. Len(s) + 1 = (1 .. Len(s)) \cup {Len(s) + 1}
  BY <1>1
<1> QED
  BY <1>1, <1>2 DEF Queued, Once

LEMMA TailQueue ==
  ASSUME NEW s \in Seq(Msg), s # <<>>, NEW c \in Containers
  PROVE  /\ Queued(s, c) <=> Queued(Tail(s), c) \/ Head(s) = NilOf(c)
         /\ Once(s, c) => /\ Once(Tail(s), c)
                          /\ Head(s) = NilOf(c) => ~Queued(Tail(s), c)
<1>1. /\ Len(Tail(s)) = Len(s) - 1 /\ Len(s) \in Nat \ {0} /\ Head(s) = s[1]
      /\ \A i \in 1 .. Len(s) - 1 : Tail(s)[i] = s[i + 1]
  OBVIOUS
<1>2. \A i \in 1 .. Len(s) : i = 1 \/ Tail(s)[i - 1] = s[i]
  BY <1>1
<1>3. Queued(s, c) => Queued(Tail(s), c) \/ Head(s) = NilOf(c)
  BY <1>1, <1>2 DEF Queued
<1>4. Queued(Tail(s), c) \/ Head(s) = NilOf(c) => Queued(s, c)
  BY <1>1 DEF Queued
<1>5. Once(s, c) => Once(Tail(s), c)
  BY <1>1 DEF Once
<1>6. Once(s, c) /\ Head(s) = NilOf(c) => ~Queued(Tail(s), c)
  BY <1>1 DEF Once, Queued
<1> QED
  BY <1>3, <1>4, <1>5, <1>6

\* The containers whose nil has been received.
Received == {c \in Containers : gr[c] = "finished" /\ ~Queued(errCh, c)}

Quiet(c) == \A p \in Pids : sub[c][p] \in {"none", "done"}

\* Goroutines of pids exist for listed pids, and during a pass only.
PassInv ==
  /\ call = "idle" => \A c \in Containers : gr[c] = "idle"
  /\ \A c \in Containers :
    /\ gr[c] \notin {"stopping", "killing"} => Quiet(c)
    /\ \A p \in Pids : sub[c][p] # "none" => p \in snap[c]

\* A nil in the channel comes from a finished goroutine, and only once.
ChannelInv ==
  \A c \in Containers :
    /\ Queued(errCh, c) => gr[c] = "finished"
    /\ Once(errCh, c)

CountInv ==
  /\ nils = Cardinality(Received)
  /\ result = "ok" => nils = Capacity /\ call # "collecting"
  /\ call \in {"idle", "collecting"} => result = "none"

LEMMA PassStep ==
  ASSUME TypeOK, PassInv, [Next]_vars
  PROVE  PassInv'
<1> USE DEF PassInv, Quiet, TypeOK, snapVars, idVars
<1>1. CASE Kernel
  BY <1>1 DEF Kernel, Exit, Reap, Fork, callVars, grVars, subVars
<1>2. CASE DeletePod
  BY <1>2 DEF DeletePod, subVars
<1>3. CASE Collect \/ CloseAndReturn \/ Forget \/ Recreate
  BY <1>3 DEF Collect, CloseAndReturn, Forget, Recreate, callVars, grVars,
              subVars
<1>4. ASSUME NEW c \in Containers, Goroutine(c) PROVE PassInv'
  <2>1. CASE ListProcesses(c)
    BY <2>1 DEF ListProcesses, callVars
  <2>2. CASE Fail(c)
    BY <2>2 DEF Fail, callVars, subVars
  <2>3. CASE StartKilling(c)
    BY <2>3 DEF StartKilling, callVars
  <2>4. CASE EndKilling(c)
    BY <2>4 DEF EndKilling, PassDone, callVars, subVars
  <2>5. CASE RemoveDir(c) \/ ReportNil(c) \/ ReportFailure(c)
    BY <2>5 DEF RemoveDir, ReportNil, ReportFailure, callVars, subVars
  <2> QED
    BY <1>4, <2>1, <2>2, <2>3, <2>4, <2>5 DEF Goroutine
<1>5. ASSUME NEW c \in Containers, NEW p \in Pids, PidGoroutine(c, p)
      PROVE  PassInv'
  <2>1. UNCHANGED <<grVars, callVars>> /\ gr[c] \in {"stopping", "killing"}
    BY <1>5 DEF PidGoroutine, ReadGroup, ReadParent, ReadParentGroup, Signal, Report, Step
  <2>2. \E from, to \in {"group", "stat", "parent", "signal", "report", "done"} :
          Step(c, p, from, to)
    BY <1>5 DEF PidGoroutine, ReadGroup, ReadParent, ReadParentGroup, Signal, Report, Step
  <2> QED
    BY <2>1, <2>2 DEF Step, callVars, grVars
<1>6. CASE UNCHANGED vars
  BY <1>6 DEF vars, callVars, grVars, subVars
<1> QED
  BY <1>1, <1>2, <1>3, <1>4, <1>5, <1>6 DEF Next, Caller

\* A step that finishes no container and sends or takes no message.
LEMMA SameCount ==
  ASSUME ChannelInv, CountInv, UNCHANGED <<errCh, callVars>>,
         \A c \in Containers : gr'[c] = "finished" <=> gr[c] = "finished"
  PROVE  ChannelInv' /\ CountInv'
<1>1. \A c \in Containers : /\ Queued(errCh, c)' <=> Queued(errCh, c)
                            /\ Once(errCh, c)' <=> Once(errCh, c)
  BY DEF Queued, Once
<1>2. Received' = Received
  BY <1>1 DEF Received
<1> QED
  BY <1>1, <1>2 DEF ChannelInv, CountInv, callVars

\* Sending an error leaves the count of the nils alone.
LEMMA ErrorSent ==
  ASSUME errCh \in Seq(Msg), ChannelInv, CountInv, NEW c \in Containers,
         Send([from |-> c, err |-> TRUE]), UNCHANGED callVars,
         \A d \in Containers : gr'[d] = "finished" <=> gr[d] = "finished"
  PROVE  ChannelInv' /\ CountInv'
<1>1. errCh' = Append(errCh, ErrOf(c))
  BY DEF Send, ErrOf
<1>2. \A d \in Containers : /\ Queued(errCh', d) <=> Queued(errCh, d)
                            /\ Once(errCh, d) => Once(errCh', d)
  BY <1>1, Messages, AppendQueue
<1>3. Received' = Received
  BY <1>2 DEF Received
<1> QED
  BY <1>2, <1>3 DEF ChannelInv, CountInv, callVars

\* A container sends its nil and is finished: it is not received yet.
LEMMA NilSent ==
  ASSUME errCh \in Seq(Msg), NEW c \in Containers, gr[c] # "finished",
         ChannelInv, CountInv, UNCHANGED callVars,
         Send([from |-> c, err |-> FALSE]), gr'[c] = "finished",
         \A d \in Containers \ {c} : gr'[d] = gr[d]
  PROVE  ChannelInv' /\ CountInv'
<1>1. errCh' = Append(errCh, NilOf(c))
  BY DEF Send, NilOf
<1>2. ~Queued(errCh, c)
  BY DEF ChannelInv
<1>3. \A d \in Containers : /\ Queued(errCh', d) <=> Queued(errCh, d) \/ d = c
                            /\ Once(errCh, d) => Once(errCh', d)
  BY <1>1, <1>2, Messages, AppendQueue
<1>4. Received' = Received
  BY <1>3 DEF Received
<1> QED
  BY <1>3, <1>4 DEF ChannelInv, CountInv, callVars

\* The loop takes a message: a nil adds its sender to the received ones.
LEMMA MessageTaken ==
  ASSUME errCh \in Seq(Msg), nils \in Nat, ChannelInv, CountInv, Collect
  PROVE  ChannelInv' /\ CountInv'
<1>1. /\ errCh # <<>> /\ errCh' = Tail(errCh) /\ Head(errCh) \in Msg
      /\ UNCHANGED gr /\ call = "collecting" /\ result # "ok"
  BY DEF Collect, grVars, CountInv
<1>2. \A c \in Containers :
        /\ Queued(errCh, c) <=> Queued(errCh', c) \/ Head(errCh) = NilOf(c)
        /\ Once(errCh', c)
        /\ Head(errCh) = NilOf(c) => ~Queued(errCh', c)
  BY <1>1, TailQueue DEF ChannelInv
<1>3. ChannelInv'
  BY <1>1, <1>2 DEF ChannelInv
<1>4. CASE Head(errCh).err
  <2>1. \A c \in Containers : Head(errCh) # NilOf(c)
    BY <1>4 DEF NilOf
  <2>2. Received' = Received
    BY <1>1, <1>2, <2>1 DEF Received
  <2> QED
    BY <1>1, <1>3, <1>4, <2>2 DEF Collect, CountInv
<1>5. CASE ~Head(errCh).err
  <2>1. PICK c \in Containers : Head(errCh) = NilOf(c)
    BY <1>1, <1>5 DEF Msg, NilOf
  <2>2. \A d \in Containers : Head(errCh) = NilOf(d) => d = c
    BY <2>1, Messages
  <2>3. gr[c] = "finished" /\ c \notin Received
    BY <1>2, <2>1 DEF ChannelInv, Received
  <2>4. Received' = Received \cup {c}
    BY <1>1, <1>2, <2>1, <2>2, <2>3 DEF Received
  <2>5. IsFiniteSet(Received)
    BY ContainersAssumption, FS_Subset DEF Received
  <2>6. Cardinality(Received') = Cardinality(Received) + 1
    BY <2>3, <2>4, <2>5, FS_AddElement
  <2> QED
    BY <1>1, <1>3, <1>5, <2>6 DEF Collect, CountInv
<1> QED
  BY <1>4, <1>5

LEMMA CountStep ==
  ASSUME TypeOK, PassInv, ChannelInv, CountInv, [Next]_vars
  PROVE  ChannelInv' /\ CountInv'
<1>1. /\ errCh \in Seq(Msg) /\ nils \in Nat
      /\ DOMAIN gr = Containers
  BY CapacityIsNat DEF TypeOK
<1>2. CASE Kernel
  BY <1>2, SameCount DEF Kernel, Exit, Reap, Fork, grVars
<1>3. CASE DeletePod
  <2>1. \A c \in Containers : gr'[c] # "finished" /\ gr[c] # "finished"
    BY <1>3 DEF DeletePod, PassInv
  <2>2. \A c \in Containers : ~Queued(errCh, c) /\ Once(errCh, c)
    BY <2>1 DEF ChannelInv
  <2>3. UNCHANGED <<errCh, nils, result>> /\ call' = "collecting"
        /\ call = "idle"
    BY <1>3 DEF DeletePod
  <2>4. Received' = {} /\ Received = {}
    BY <2>1 DEF Received
  <2> QED
    BY <2>1, <2>2, <2>3, <2>4 DEF ChannelInv, CountInv
<1>4. CASE Collect
  BY <1>1, <1>4, MessageTaken
<1>5. CASE CloseAndReturn \/ Forget
  <2>1. /\ UNCHANGED <<errCh, gr, nils>>
        /\ call' \in {"returned", "deleted"}
        /\ result' = "ok" => nils = Capacity \/ result = "ok"
    BY <1>5 DEF CloseAndReturn, Forget, grVars
  <2>2. Received' = Received
    BY <2>1 DEF Received
  <2> QED
    BY <2>1, <2>2 DEF ChannelInv, CountInv
<1>6. CASE Recreate
  BY <1>6, SameCount DEF Recreate, grVars
<1>7. ASSUME NEW c \in Containers, Goroutine(c) PROVE ChannelInv' /\ CountInv'
  <2>1. CASE ListProcesses(c) \/ Fail(c) \/ StartKilling(c) \/ EndKilling(c)
             \/ RemoveDir(c)
    BY <1>1, <2>1, SameCount
       DEF ListProcesses, Fail, StartKilling, EndKilling, RemoveDir
  <2>2. CASE ReportNil(c)
    BY <1>1, <2>2, NilSent DEF ReportNil
  <2>3. CASE ReportFailure(c)
    BY <1>1, <2>3, ErrorSent DEF ReportFailure
  <2> QED
    BY <1>7, <2>1, <2>2, <2>3 DEF Goroutine
<1>8. ASSUME NEW c \in Containers, NEW p \in Pids, PidGoroutine(c, p)
      PROVE  ChannelInv' /\ CountInv'
  <2>1. CASE ReadGroup(c, p) \/ ReadParent(c, p) \/ ReadParentGroup(c, p) \/ Signal(c, p)
    BY <2>1, SameCount DEF ReadGroup, ReadParent, ReadParentGroup, Signal, grVars
  <2>2. CASE Report(c, p)
    BY <1>1, <2>2, ErrorSent DEF Report, grVars
  <2> QED
    BY <1>8, <2>1, <2>2 DEF PidGoroutine
<1>9. CASE UNCHANGED vars
  BY <1>9, SameCount DEF vars, grVars
<1> QED
  BY <1>2, <1>3, <1>4, <1>5, <1>6, <1>7, <1>8, <1>9 DEF Next, Caller

LEMMA CountInit == Init => PassInv /\ ChannelInv /\ CountInv
<1> SUFFICES ASSUME Init PROVE PassInv /\ ChannelInv /\ CountInv
  OBVIOUS
<1>1. Received = {} /\ \A c \in Containers : ~Queued(errCh, c) /\ Once(errCh, c)
  BY DEF Init, Received, Queued, Once
<1>2. Cardinality({}) = 0
  BY FS_EmptySet
<1> QED
  BY <1>1, <1>2 DEF Init, PassInv, Quiet, ChannelInv, CountInv

\* When deletePod closes errCh, nothing is left to be sent on it.
THEOREM CloseSafe == Spec => []CloseIsSafe
<1>1. Init => PassInv /\ ChannelInv /\ CountInv
  BY CountInit
<1>2. TypeOK /\ PassInv /\ ChannelInv /\ CountInv /\ [Next]_vars
        => PassInv' /\ ChannelInv' /\ CountInv'
  BY PassStep, CountStep
<1>3. TypeOK /\ PassInv /\ ChannelInv /\ CountInv => CloseIsSafe
  <2> SUFFICES ASSUME PassInv, CountInv, result = "ok"
               PROVE  \A c \in Containers : gr[c] = "finished" /\ Quiet(c)
    BY DEF CloseIsSafe, Quiet
  <2>1. Received \subseteq Containers
        /\ Cardinality(Received) = Cardinality(Containers)
    BY DEF Received, CountInv, Capacity
  <2>2. Received = Containers
    BY <2>1, ContainersAssumption, FS_Subset
  <2> QED
    BY <2>2 DEF Received, PassInv
<1> QED
  BY <1>1, <1>2, <1>3, TypeCorrect, PTL DEF Spec

-----------------------------------------------------------------------------
(* The directory: when deletePod has returned nil, no goroutine of it is   *)
(* left that removes it.                                                   *)

\* The directory of a pod created again under the same name is kept.
THEOREM RecreatedDirSafe == Spec => []RecreatedDirKept
<1>1. Init => RecreatedDirKept
  BY DEF Init, RecreatedDirKept
<1>2. CloseIsSafe /\ RecreatedDirKept /\ [Next]_vars => RecreatedDirKept'
  <2> SUFFICES ASSUME CloseIsSafe, RecreatedDirKept, [Next]_vars
               PROVE  RecreatedDirKept'
    OBVIOUS
  <2> USE DEF RecreatedDirKept
  <2>1. CASE Kernel
    BY <2>1 DEF Kernel, Exit, Reap, Fork, podVars, callVars
  <2>2. CASE Caller
    BY <2>2 DEF Caller, DeletePod, Collect, CloseAndReturn, Forget, podVars
  <2>3. CASE Recreate
    BY <2>3 DEF Recreate
  <2>4. ASSUME NEW c \in Containers, RemoveDir(c) PROVE RecreatedDirKept'
    BY <2>4 DEF RemoveDir, CloseIsSafe, callVars
  <2>5. ASSUME NEW c \in Containers, Goroutine(c), ~RemoveDir(c)
        PROVE  RecreatedDirKept'
    BY <2>5 DEF Goroutine, ListProcesses, Fail, StartKilling, EndKilling,
                ReportNil, ReportFailure, podVars, callVars
  <2>6. ASSUME NEW c \in Containers, NEW p \in Pids, PidGoroutine(c, p)
        PROVE  RecreatedDirKept'
    BY <2>6 DEF PidGoroutine, ReadGroup, ReadParent, ReadParentGroup, Signal, Report,
                podVars, callVars
  <2>7. CASE UNCHANGED vars
    BY <2>7 DEF vars, podVars, callVars
  <2> QED
    BY <2>1, <2>2, <2>3, <2>4, <2>5, <2>6, <2>7 DEF Next
<1> QED
  BY <1>1, <1>2, CloseSafe, PTL DEF Spec

-----------------------------------------------------------------------------
(* The group of a container: a listed process of it that pass two has left *)
(* alive has sent an error before the nil of its container, so that the    *)
(* loop does not come to the end.                                          *)

\* Pass two is over for p, a listed process in the group of c.
Passed(c, p) ==
  /\ p \in listed[c] /\ pgid[p] = Leader[c]
  /\ \/ gr[c] = "killing" /\ sub[c][p] = "done"
     \/ gr[c] \in {"removing", "reporting", "finished"}

\* An error comes before the nil of c.
ErrorFirst(s, c) ==
  \E i \in 1 .. Len(s) :
    s[i].err = TRUE /\ \A j \in 1 .. Len(s) : s[j] = NilOf(c) => i < j

\* The nil of c will not be received.
Doomed(c) == result = "err" \/ (c \notin Received /\ ErrorFirst(errCh, c))

\* Of a listed process that lives, a goroutine reads the group it is in.
ListedInv ==
  \A c \in Containers : \A p \in listed[c] :
    /\ p \in snap[c]
    /\ st[p] \in Alive /\ pgid[p] = Leader[c] /\ sub[c][p] \in {"stat", "parent"}
         => p \in hit[c]

KillInv ==
  \A c \in Containers : \A p \in Pids :
    Passed(c, p) /\ st[p] \in Alive => Doomed(c)

LEMMA AppendErrorFirst ==
  ASSUME NEW s \in Seq(Msg), NEW m \in Msg, NEW c \in Containers
  PROVE  /\ ErrorFirst(s, c) => ErrorFirst(Append(s, m), c)
         /\ m.err = TRUE /\ ~Queued(s, c) => ErrorFirst(Append(s, m), c)
<1>1. /\ Len(Append(s, m)) = Len(s) + 1 /\ Len(s) \in Nat
      /\ \A i \in 1 .. Len(s) : Append(s, m)[i] = s[i]
      /\ Append(s, m)[Len(s) + 1] = m
  OBVIOUS
<1>2. 1 .. Len(s) + 1 = (1 .. Len(s)) \cup {Len(s) + 1}
  BY <1>1
<1>3. ErrorFirst(s, c) => ErrorFirst(Append(s, m), c)
  BY <1>1, <1>2 DEF ErrorFirst
<1>4. ASSUME m.err = TRUE, ~Queued(s, c) PROVE ErrorFirst(Append(s, m), c)
  <2>1. m # NilOf(c)
    BY <1>4 DEF NilOf
  <2> QED
    BY <1>1, <1>2, <1>4, <2>1 DEF ErrorFirst, Queued
<1> QED
  BY <1>3, <1>4

LEMMA TailErrorFirst ==
  ASSUME NEW s \in Seq(Msg), s # <<>>, NEW c \in Containers,
         ErrorFirst(s, c), Head(s).err = FALSE
  PROVE  ErrorFirst(Tail(s), c) /\ Head(s) # NilOf(c)
<1>1. /\ Len(Tail(s)) = Len(s) - 1 /\ Len(s) \in Nat \ {0} /\ Head(s) = s[1]
      /\ \A i \in 1 .. Len(s) - 1 : Tail(s)[i] = s[i + 1]
  OBVIOUS
<1>2. PICK i \in 1 .. Len(s) :
        s[i].err = TRUE /\ \A j \in 1 .. Len(s) : s[j] = NilOf(c) => i < j
  BY DEF ErrorFirst
<1>3. i # 1
  BY <1>1, <1>2
<1>4. i - 1 \in 1 .. Len(Tail(s)) /\ Tail(s)[i - 1].err = TRUE
  BY <1>1, <1>2, <1>3
<1>5. \A j \in 1 .. Len(Tail(s)) : Tail(s)[j] = NilOf(c) => i - 1 < j
  <2> SUFFICES ASSUME NEW j \in 1 .. Len(Tail(s)), Tail(s)[j] = NilOf(c)
               PROVE  i - 1 < j
    OBVIOUS
  <2>1. s[j + 1] = NilOf(c) /\ j + 1 \in 1 .. Len(s)
    BY <1>1
  <2> QED
    BY <1>2, <2>1
<1>6. s[1] # NilOf(c)
  <2>1. 1 \in 1 .. Len(s) /\ ~(i < 1)
    BY <1>1
  <2> QED
    BY <1>2, <2>1
<1> QED
  BY <1>1, <1>4, <1>5, <1>6 DEF ErrorFirst

\* What a step does to the channel, and who has finished after it.
LEMMA Traffic ==
  ASSUME TypeOK, [Next]_vars
  PROVE  \/ Collect
         \/ /\ errCh' = errCh /\ (result' = result \/ call = "collecting")
            /\ \A c \in Containers : gr'[c] = "finished" => gr[c] = "finished"
         \/ /\ result' = result
            /\ \E m \in Msg :
                 /\ errCh' = Append(errCh, m)
                 /\ \A c \in Containers : gr'[c] = "finished" =>
                      gr[c] = "finished" \/ m = NilOf(c)
<1> USE DEF TypeOK
<1>1. CASE Kernel
  BY <1>1 DEF Kernel, Exit, Reap, Fork, grVars, callVars
<1>2. CASE DeletePod
  BY <1>2 DEF DeletePod
<1>3. CASE CloseAndReturn \/ Forget \/ Recreate
  BY <1>3 DEF CloseAndReturn, Forget, Recreate, grVars, callVars
<1>4. ASSUME NEW c \in Containers, Goroutine(c), gr[c] \notin {"reporting", "failing"}
      PROVE  /\ errCh' = errCh /\ result' = result
             /\ \A d \in Containers : gr'[d] = "finished" => gr[d] = "finished"
  BY <1>4 DEF Goroutine, ListProcesses, Fail, StartKilling, EndKilling, RemoveDir,
              ReportNil, ReportFailure, callVars
<1>5. ASSUME NEW c \in Containers, ReportNil(c)
      PROVE  /\ result' = result
             /\ \E m \in Msg :
                  /\ errCh' = Append(errCh, m)
                  /\ \A d \in Containers : gr'[d] = "finished" =>
                       gr[d] = "finished" \/ m = NilOf(d)
  <2>1. /\ NilOf(c) \in Msg /\ errCh' = Append(errCh, NilOf(c)) /\ result' = result
        /\ gr' = [gr EXCEPT ![c] = "finished"]
    BY <1>5, Messages DEF ReportNil, Send, NilOf, callVars
  <2>2. \A d \in Containers : gr'[d] = "finished" => gr[d] = "finished" \/ NilOf(c) = NilOf(d)
    BY <2>1
  <2> QED
    BY <2>1, <2>2
<1>6. ASSUME NEW c \in Containers, ReportFailure(c)
      PROVE  /\ result' = result
             /\ \E m \in Msg :
                  /\ errCh' = Append(errCh, m)
                  /\ \A d \in Containers : gr'[d] = "finished" => gr[d] = "finished"
  BY <1>6, Messages DEF ReportFailure, Send, ErrOf, callVars
<1>7. ASSUME NEW c \in Containers, NEW p \in Pids, PidGoroutine(c, p), ~Report(c, p)
      PROVE  errCh' = errCh /\ result' = result /\ gr' = gr
  BY <1>7 DEF PidGoroutine, ReadGroup, ReadParent, ReadParentGroup, Signal, grVars, callVars
<1>8. ASSUME NEW c \in Containers, NEW p \in Pids, Report(c, p)
      PROVE  /\ result' = result /\ gr' = gr
             /\ \E m \in Msg : errCh' = Append(errCh, m)
  BY <1>8, Messages DEF Report, Send, ErrOf, grVars, callVars
<1>9. CASE UNCHANGED vars
  BY <1>9 DEF vars, grVars, callVars
<1>10. ASSUME NEW c \in Containers, Goroutine(c), gr[c] \in {"reporting", "failing"}
       PROVE  ReportNil(c) \/ ReportFailure(c)
  BY <1>10 DEF Goroutine, ListProcesses, Fail, StartKilling, EndKilling, RemoveDir
<1> QED
  BY <1>1, <1>2, <1>3, <1>4, <1>5, <1>6, <1>7, <1>8, <1>9, <1>10 DEF Next, Caller

\* A container whose nil will not be received stays so.
LEMMA StaysDoomed ==
  ASSUME TypeOK, ChannelInv, CountInv, [Next]_vars, NEW c \in Containers, Doomed(c)
  PROVE  Doomed(c)'
<1>1. errCh \in Seq(Msg)
  BY DEF TypeOK
<1>2. CASE Collect
  <2>1. /\ errCh # <<>> /\ errCh' = Tail(errCh) /\ gr' = gr /\ result # "err"
        /\ Head(errCh) \in Msg
    BY <1>1, <1>2 DEF Collect, grVars, CountInv
  <2>2. CASE Head(errCh).err = TRUE
    BY <1>2, <2>2 DEF Collect, Doomed
  <2>3. CASE Head(errCh).err = FALSE
    <3>1. c \notin Received /\ ErrorFirst(errCh, c)
      BY <2>1 DEF Doomed
    <3>2. ErrorFirst(Tail(errCh), c) /\ Head(errCh) # NilOf(c)
      BY <1>1, <2>1, <2>3, <3>1, TailErrorFirst
    <3>3. Queued(errCh, c) => Queued(Tail(errCh), c)
      BY <1>1, <2>1, <3>2, TailQueue
    <3>4. c \notin Received'
      BY <2>1, <3>1, <3>3 DEF Received
    <3> QED
      BY <2>1, <3>2, <3>4 DEF Doomed
  <2> QED
    BY <2>1, <2>2, <2>3 DEF Msg
<1>3. CASE /\ errCh' = errCh /\ (result' = result \/ call = "collecting")
           /\ gr'[c] = "finished" => gr[c] = "finished"
  BY <1>3 DEF Doomed, Received, CountInv
<1>4. ASSUME result' = result, NEW m \in Msg, errCh' = Append(errCh, m),
             gr'[c] = "finished" => gr[c] = "finished" \/ m = NilOf(c)
      PROVE  Doomed(c)'
  <2>1. /\ Queued(errCh', c) <=> Queued(errCh, c) \/ m = NilOf(c)
        /\ ErrorFirst(errCh, c) => ErrorFirst(errCh', c)
    BY <1>1, <1>4, AppendQueue, AppendErrorFirst
  <2> QED
    BY <1>4, <2>1 DEF Doomed, Received
<1> QED
  BY <1>2, <1>3, <1>4, Traffic

\* While a pid names the process it was listed for, that process keeps its
\* group and does not come back to life.
LEMMA ListedStep ==
  ASSUME TypeOK, [Next]_vars, NEW c \in Containers, ~ListProcesses(c),
         NEW p \in listed'[c]
  PROVE  /\ p \in listed[c]
         /\ st'[p] \in Alive => st[p] \in Alive /\ pgid'[p] = pgid[p]
<1> USE DEF TypeOK, Alive, Dead, ProcState
<1>1. ASSUME NEW q \in Pids, Exit(q) \/ Reap(q)
      PROVE  /\ listed' = listed
             /\ st'[p] \in Alive => st[p] \in Alive /\ pgid'[p] = pgid[p]
  BY <1>1 DEF Exit, Reap, grVars
<1>2. ASSUME NEW q \in Pids \cup {Outside}, NEW r \in Pids, Fork(q, r)
      PROVE  p \in listed[c] /\ st'[p] = st[p] /\ pgid'[p] = pgid[p]
  BY <1>2 DEF Fork
<1>3. CASE Caller \/ Recreate
  BY <1>3 DEF Caller, DeletePod, Collect, CloseAndReturn, Forget, Recreate, procVars,
              grVars, snapVars
<1>4. ASSUME NEW d \in Containers, Goroutine(d)
      PROVE  listed'[c] = listed[c] /\ UNCHANGED <<st, pgid>>
  <2>1. CASE ListProcesses(d)
    BY <2>1 DEF ListProcesses, procVars
  <2>2. CASE ~ListProcesses(d)
    BY <1>4, <2>2 DEF Goroutine, Fail, StartKilling, EndKilling, RemoveDir,
              ReportNil, ReportFailure, procVars, snapVars
  <2> QED
    BY <2>1, <2>2
<1>5. ASSUME NEW d \in Containers, NEW q \in Pids, PidGoroutine(d, q)
      PROVE  /\ listed' = listed /\ pgid' = pgid
             /\ st'[p] \in Alive => st[p] \in Alive
  <2>1. CASE Signal(d, q)
    BY <2>1 DEF Signal, Stop, Kill, grVars
  <2>2. CASE ReadGroup(d, q) \/ ReadParent(d, q) \/ ReadParentGroup(d, q) \/ Report(d, q)
    BY <2>2 DEF ReadGroup, ReadParent, ReadParentGroup, Report, procVars, grVars
  <2> QED
    BY <1>5, <2>1, <2>2 DEF PidGoroutine
<1>6. CASE UNCHANGED vars
  BY <1>6 DEF vars, procVars, grVars
<1> QED
  BY <1>1, <1>2, <1>3, <1>4, <1>5, <1>6 DEF Next, Kernel

\* The listed pids are those of one moment.
LEMMA ListStep ==
  ASSUME TypeOK, [Next]_vars, NEW c \in Containers
  PROVE  snap'[c] = snap[c] \/ ListProcesses(c)
<1> USE DEF TypeOK
<1>1. CASE Kernel
  BY <1>1 DEF Kernel, Exit, Reap, Fork, grVars
<1>2. CASE Caller \/ Recreate
  BY <1>2 DEF Caller, DeletePod, Collect, CloseAndReturn, Forget, Recreate, grVars, snapVars
<1>3. ASSUME NEW d \in Containers, Goroutine(d)
      PROVE  snap'[c] = snap[c] \/ ListProcesses(c)
  BY <1>3 DEF Goroutine, ListProcesses, Fail, StartKilling, EndKilling, RemoveDir,
              ReportNil, ReportFailure, snapVars
<1>4. ASSUME NEW d \in Containers, NEW q \in Pids, PidGoroutine(d, q)
      PROVE  snap' = snap
  BY <1>4 DEF PidGoroutine, ReadGroup, ReadParent, ReadParentGroup, Signal, Report,
              grVars
<1>5. CASE UNCHANGED vars
  BY <1>5 DEF vars, grVars
<1> QED
  BY <1>1, <1>2, <1>3, <1>4, <1>5 DEF Next

\* How far the goroutine of a pid has come changes by a step of its own, and
\* by a step of its container that starts the goroutines of a pass.
LEMMA SubStep ==
  ASSUME TypeOK, [Next]_vars, NEW c \in Containers, NEW p \in Pids
  PROVE  \/ PidGoroutine(c, p)
         \/ sub'[c][p] = sub[c][p] /\ (p \in hit'[c] <=> p \in hit[c])
         \/ sub'[c][p] \in {"none", "group"}
<1> USE DEF TypeOK
<1>1. CASE Kernel \/ Caller \/ Recreate \/ UNCHANGED vars
  BY <1>1 DEF Kernel, Exit, Reap, Fork, Caller, DeletePod, Collect, CloseAndReturn,
              Forget, Recreate, vars, subVars
<1>2. ASSUME NEW d \in Containers, Goroutine(d)
      PROVE  \/ sub'[c][p] = sub[c][p] /\ (p \in hit'[c] <=> p \in hit[c])
             \/ sub'[c][p] \in {"none", "group"}
  <2>1. CASE ListProcesses(d) \/ StartKilling(d)
    <3>1. hit' = hit /\ \E S \in SUBSET Pids : sub' = [sub EXCEPT ![d] =
            [x \in Pids |-> IF x \in S THEN "group" ELSE "none"]]
      <4>1. CASE ListProcesses(d)
        <5>1. [x \in Pids |-> IF Exists(x) THEN "group" ELSE "none"]
                = [x \in Pids |-> IF x \in {y \in Pids : Exists(y)} THEN "group" ELSE "none"]
          OBVIOUS
        <5> QED
          BY <4>1, <5>1 DEF ListProcesses, idVars
      <4>2. CASE StartKilling(d)
        BY <4>2 DEF StartKilling, idVars
      <4> QED
        BY <2>1, <4>1, <4>2
    <3> QED
      BY <3>1
  <2>2. CASE ~ListProcesses(d) /\ ~StartKilling(d)
    BY <1>2, <2>2 DEF Goroutine, Fail, EndKilling, RemoveDir, ReportNil, ReportFailure,
                      subVars
  <2> QED
    BY <2>1, <2>2
<1>3. ASSUME NEW d \in Containers, NEW q \in Pids, PidGoroutine(d, q)
      PROVE  PidGoroutine(c, p) \/ (sub'[c][p] = sub[c][p] /\ (p \in hit'[c] <=> p \in hit[c]))
  BY <1>3, ReadStep
<1> QED
  BY <1>1, <1>2, <1>3 DEF Next

LEMMA ListedKept ==
  ASSUME TypeOK, ListedInv, [Next]_vars
  PROVE  ListedInv'
<1> SUFFICES ASSUME NEW c \in Containers, NEW p \in listed'[c]
             PROVE  /\ p \in snap'[c]
                    /\ st'[p] \in Alive /\ pgid'[p] = Leader[c]
                         /\ sub'[c][p] \in {"stat", "parent"} => p \in hit'[c]
  BY DEF ListedInv
<1>1. CASE ListProcesses(c)
  <2>1. p \in snap'[c] /\ p \in Pids
    BY <1>1 DEF ListProcesses, TypeOK
  <2>2. sub'[c][p] \in {"none", "group"}
    BY <1>1, <2>1 DEF ListProcesses, TypeOK
  <2> QED
    BY <2>1, <2>2
<1>2. CASE ~ListProcesses(c)
  <2>1. p \in listed[c] /\ p \in Pids /\ p \in snap[c]
    BY <1>2, ListedStep DEF ListedInv, TypeOK
  <2>2. snap'[c] = snap[c]
    BY <1>2, ListStep
  <2>3. ASSUME st'[p] \in Alive, pgid'[p] = Leader[c], sub'[c][p] \in {"stat", "parent"}
        PROVE  p \in hit'[c]
    <3>1. st[p] \in Alive /\ pgid[p] = Leader[c]
      BY <1>2, <2>3, ListedStep
    <3>2. CASE PidGoroutine(c, p)
      <4>1. CASE ReadGroup(c, p)
        <5>1. Exists(p)
          BY <3>1 DEF Exists, Alive
        <5> QED
          BY <2>1, <3>1, <4>1, <5>1 DEF ReadGroup, TypeOK
      <4>2. CASE ReadParent(c, p)
        <5>1. sub[c][p] = "stat" /\ p \in hit[c]
          BY <2>1, <3>1, <4>2 DEF ReadParent, Step, ListedInv
        <5>2. hit' = hit \/ sub' = [sub EXCEPT ![c][p] = "report"]
          BY <4>2 DEF ReadParent, Step
        <5>3. sub'[c][p] # "report"
          BY <2>3
        <5> QED
          BY <2>1, <5>1, <5>2, <5>3 DEF TypeOK
      <4>3. CASE ReadParentGroup(c, p) \/ Signal(c, p) \/ Report(c, p)
        <5>1. \E to \in {"report", "signal", "done"} : sub' = [sub EXCEPT ![c][p] = to]
          BY <4>3 DEF ReadParentGroup, Signal, Report, Step
        <5>2. sub'[c][p] \in {"report", "signal", "done"}
          BY <2>1, <5>1 DEF TypeOK
        <5> QED
          BY <2>3, <5>2
      <4> QED
        BY <3>2, <4>1, <4>2, <4>3 DEF PidGoroutine
    <3>3. CASE sub'[c][p] = sub[c][p] /\ (p \in hit'[c] <=> p \in hit[c])
      BY <2>1, <2>3, <3>1, <3>3 DEF ListedInv
    <3> QED
      BY <2>1, <2>3, <3>2, <3>3, SubStep
  <2> QED
    BY <2>1, <2>2, <2>3
<1> QED
  BY <1>1, <1>2

\* Pass two is over for p now, or has been before: the process is dead, or
\* the step has sent an error of its container.
LEMMA PassTwo ==
  ASSUME TypeOK, PassInv, ChannelInv, ListedInv, [Next]_vars,
         NEW c \in Containers, NEW p \in Pids,
         Passed(c, p)', st'[p] \in Alive
  PROVE  (Passed(c, p) /\ st[p] \in Alive) \/ Doomed(c)'
<1>0. ~ListProcesses(c)
  BY DEF Passed, ListProcesses, TypeOK
<1>1. p \in listed[c] /\ p \in snap[c]
  BY <1>0, ListedStep DEF Passed, ListedInv
<1>2. st[p] \in Alive /\ pgid[p] = Leader[c]
  BY <1>0, ListedStep DEF Passed
<1> SUFFICES ASSUME ~Passed(c, p) PROVE Doomed(c)'
  BY <1>2
<1>3. /\ gr[c] = "killing" => sub[c][p] # "done"
      /\ gr[c] \notin {"removing", "reporting", "finished"}
  BY <1>1, <1>2 DEF Passed
<1>4. \/ gr'[c] = "killing" /\ sub'[c][p] = "done"
      \/ gr'[c] \in {"removing", "reporting", "finished"}
  BY DEF Passed
<1> USE DEF TypeOK
<1>5. CASE UNCHANGED <<gr, sub>>
  BY <1>3, <1>4, <1>5
<1>6. CASE Kernel \/ Recreate \/ UNCHANGED vars
  BY <1>5, <1>6 DEF Kernel, Exit, Reap, Fork, Recreate, vars, grVars, subVars
<1>7. CASE Caller
  BY <1>4, <1>5, <1>7 DEF Caller, DeletePod, Collect, CloseAndReturn, Forget, grVars, subVars
<1>8. ASSUME NEW d \in Containers, Goroutine(d) PROVE Doomed(c)'
  <2>1. CASE d # c
    <3>1. gr'[c] = gr[c] /\ sub'[c] = sub[c]
      BY <1>8, <2>1 DEF Goroutine, ListProcesses, Fail, StartKilling, EndKilling,
                        RemoveDir, ReportNil, ReportFailure, subVars
    <3> QED
      BY <1>3, <1>4, <3>1
  <2>2. CASE d = c
    <3>1. CASE ListProcesses(c) \/ Fail(c) \/ ReportFailure(c)
      BY <1>4, <3>1 DEF ListProcesses, Fail, ReportFailure
    <3>2. CASE StartKilling(c)
      <4>1. gr'[c] = "killing" /\ sub'[c][p] = "group"
        BY <1>1, <3>2 DEF StartKilling
      <4> QED
        BY <1>4, <4>1
    <3>3. CASE EndKilling(c)
      BY <1>1, <1>3, <3>3 DEF EndKilling, PassDone
    <3>4. CASE RemoveDir(c) \/ ReportNil(c)
      BY <1>3, <3>4 DEF RemoveDir, ReportNil
    <3> QED
      BY <1>8, <2>2, <3>1, <3>2, <3>3, <3>4 DEF Goroutine
  <2> QED
    BY <2>1, <2>2
<1>9. ASSUME NEW d \in Containers, NEW q \in Pids, PidGoroutine(d, q)
      PROVE  Doomed(c)'
  <2>1. gr' = gr /\ gr[d] \in {"stopping", "killing"}
    BY <1>9 DEF PidGoroutine, ReadGroup, ReadParent, ReadParentGroup, Signal, Report, Step, grVars
  <2>2. gr[c] = "killing" /\ sub'[c][p] = "done" /\ sub[c][p] # "done"
    BY <1>3, <1>4, <2>1
  <2>3. d = c /\ q = p
    <3>1. \E to : sub' = [sub EXCEPT ![d][q] = to]
      BY <1>9 DEF PidGoroutine, ReadGroup, ReadParent, ReadParentGroup, Signal, Report, Step
    <3> QED
      BY <2>2, <3>1
  <2>4. CASE ReadGroup(c, p) \/ ReadParent(c, p)
    BY <2>2, <2>4 DEF ReadGroup, ReadParent, Step
  <2>5. CASE ReadParentGroup(c, p)
    <3>1. InGroup(c, p)
      BY <1>1, <1>2, <2>5 DEF InGroup, ListedInv, ReadParentGroup, Step
    <3>2. sub'[c][p] \in {"report", "signal"}
      BY <2>5, <3>1 DEF ReadParentGroup, Step
    <3> QED
      BY <2>2, <3>2
  <2>6. CASE Signal(c, p)
    <3>1. CASE Exists(p)
      <4>1. Kill(p)
        BY <2>2, <2>6, <3>1 DEF Signal
      <4>2. st'[p] = "killed"
        BY <1>2, <4>1 DEF Kill
      <4> QED
        BY <4>2 DEF Alive
    <3>2. CASE ~Exists(p)
      BY <1>2, <3>2 DEF Exists, Alive
    <3> QED
      BY <3>1, <3>2
  <2>7. CASE Report(c, p)
    <3>1. errCh' = Append(errCh, ErrOf(c)) /\ ErrOf(c) \in Msg /\ ErrOf(c).err = TRUE
      BY <2>7, Messages DEF Report, Send, ErrOf
    <3>2. ~Queued(errCh, c)
      BY <2>2 DEF ChannelInv
    <3>3. ErrorFirst(errCh', c)
      BY <3>1, <3>2, AppendErrorFirst
    <3> QED
      BY <2>1, <2>2, <3>3 DEF Doomed, Received
  <2> QED
    BY <1>9, <2>3, <2>4, <2>5, <2>6, <2>7 DEF PidGoroutine
<1> QED
  BY <1>6, <1>7, <1>8, <1>9 DEF Next

\* When deletePod returns nil, what it has listed of the group of a container
\* is dead (mock.go, the two loops of deletePod): a process that a goroutine
\* has not signalled is not in the group, has gone, or has had an error sent.
THEOREM OkKillsGroup == Spec => []OkMeansGroupKilled
<1>1. Init => ListedInv /\ KillInv
  BY DEF Init, ListedInv, KillInv, Passed
<1>2. TypeOK /\ PassInv /\ ChannelInv /\ CountInv /\ ListedInv /\ KillInv /\ [Next]_vars
        => ListedInv' /\ KillInv'
  <2> SUFFICES ASSUME TypeOK, PassInv, ChannelInv, CountInv, ListedInv, KillInv, [Next]_vars
               PROVE  ListedInv' /\ KillInv'
    OBVIOUS
  <2>1. ListedInv'
    BY ListedKept
  <2>2. ASSUME NEW c \in Containers, NEW p \in Pids, Passed(c, p)', st'[p] \in Alive
        PROVE  Doomed(c)'
    BY <2>2, PassTwo, StaysDoomed DEF KillInv
  <2> QED
    BY <2>1, <2>2 DEF KillInv, Alive
<1>3. TypeOK /\ CloseIsSafe /\ CountInv /\ KillInv => OkMeansGroupKilled
  <2> SUFFICES ASSUME TypeOK, CloseIsSafe, CountInv, KillInv, result = "ok",
                      NEW c \in Containers, NEW p \in listed[c],
                      pgid[p] = Leader[c], st[p] \in Alive
               PROVE  FALSE
    BY DEF OkMeansGroupKilled
  <2>1. p \in Pids /\ Passed(c, p)
    BY DEF TypeOK, CloseIsSafe, Passed
  <2>2. Received = Containers
    <3>1. Received \subseteq Containers
          /\ Cardinality(Received) = Cardinality(Containers)
      BY DEF Received, CountInv, Capacity
    <3> QED
      BY <3>1, ContainersAssumption, FS_Subset
  <2> QED
    BY <2>1, <2>2 DEF KillInv, Doomed
<1>4. Init => PassInv /\ ChannelInv /\ CountInv
  BY CountInit
<1>5. TypeOK /\ PassInv /\ ChannelInv /\ CountInv /\ [Next]_vars
        => PassInv' /\ ChannelInv' /\ CountInv'
  BY PassStep, CountStep
<1> QED
  BY <1>1, <1>2, <1>3, <1>4, <1>5, TypeCorrect, CloseSafe, PTL DEF Spec
=============================================================================
