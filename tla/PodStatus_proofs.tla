-------------------------- MODULE PodStatus_proofs --------------------------
\* Proofs about PodStatus, for a pod of any number of containers.
EXTENDS PodStatus, TLAPS

LEMMA TerminatedIsStatus == \A x \in ExitCodes : Terminated(x) \in Statuses
  BY DEF Statuses

LEMMA StatusNames == Absent \in Statuses /\ Zero \in Statuses /\ Running \in Statuses
  BY DEF Statuses

\* A start of a container leaves the variables well typed.
LEMMA StartType ==
  ASSUME TypeOK, NEW c \in Containers, NEW s \in Statuses,
         NEW p \in SUBSET {"script", "child"},
         NEW f \in {"missing", "empty", "written"},
         NEW e \in {"none", "ok", "bad"},
         EndStart(c, s, p, f, e)
  PROVE  TypeOK'
  BY DEF EndStart, TypeOK, Up, round

\* So does entering a status.
LEMMA EnterType ==
  ASSUME TypeOK, NEW s \in Statuses, loop \in Containers, Enter(s)
  PROVE  TypeOK'
  BY NAssumption DEF Enter, TypeOK, Up, Containers, Unseen, creation, pod, world

LEMMA LoopType ==
  ASSUME TypeOK, Loop
  PROVE  TypeOK'
<1>1. CASE BeginRound
  BY <1>1, NAssumption, StatusNames
     DEF BeginRound, TypeOK, Up, Unseen, creation, pod, world
<1>2. CASE PassOver
  BY <1>2, EnterType, StatusNames DEF PassOver, AtContainer
<1>3. CASE KeepStartError
  <2>1. loop \in Containers /\ status[loop] \in Statuses
    BY <1>3 DEF KeepStartError, AtContainer, TypeOK
  <2> QED
    BY <1>3, <2>1, EnterType DEF KeepStartError
<1>4. CASE ExamineError
  <2>1. Terminated(2) \in Statuses
    BY TerminatedIsStatus DEF ExitCodes
  <2> QED
    BY <1>4, <2>1, EnterType DEF ExamineError, Examined, AtContainer
<1>5. CASE ListPids
  <2>1. /\ procs[loop] \subseteq {"script", "child"}
        /\ stderr[loop] \in {"empty", "written"}
    BY <1>5 DEF ListPids, Examined, AtContainer, TypeOK
  <2> QED
    BY <1>5, <2>1 DEF ListPids, TypeOK, Up, creation, pod, world
<1>6. CASE InspectPids
  <2>1. Terminated(0) \in Statuses /\ Terminated(3) \in Statuses
    BY TerminatedIsStatus DEF ExitCodes
  <2>2. PICK s \in Statuses : Enter(s)
    BY <1>6, <2>1, StatusNames DEF InspectPids
  <2> QED
    BY <1>6, <2>2, EnterType DEF InspectPids
<1>7. CASE EndRound
  <2>1. phase' \in {"Pending", "Running"} \cup Ended
    BY <1>7 DEF EndRound, Ended
  <2>2. status' \in [Containers -> Statuses] /\ fresh' \in [Containers -> Statuses]
    BY <1>7, StatusNames DEF EndRound, TypeOK
  <2>3. loop' \in 0 .. N + 1 /\ startRead' \in BOOLEAN
    <3>1. loop' = 0 /\ startRead' = FALSE
      BY <1>7 DEF EndRound
    <3>2. loop' \in 0 .. N + 1
      BY <3>1, NAssumption
    <3>3. startRead' \in BOOLEAN
      BY <3>1
    <3> QED
      BY <3>2, <3>3
  <2>4. UNCHANGED <<creation, startTime, world, seen, crashed>>
    BY <1>7 DEF EndRound, Up
  <2> QED
    BY <2>1, <2>2, <2>3, <2>4 DEF TypeOK, creation, world
<1>8. CASE Panic
  BY <1>8 DEF Panic, TypeOK, creation, pod, world, round
<1> QED
  BY <1>1, <1>2, <1>3, <1>4, <1>5, <1>6, <1>7, <1>8 DEF Loop

LEMMA CreateType ==
  ASSUME TypeOK, CreatePod
  PROVE  TypeOK'
<1>1. CASE StorePod \/ FailPod \/ MarkRunning \/ SetStartTime
  BY <1>1 DEF StorePod, FailPod, MarkRunning, SetStartTime, TypeOK, Up, Ended,
              pod, world, round
<1>2. ASSUME NEW c \in Containers,
             \/ CollectOrStartError(c) \/ NoCommand(c) \/ LateStartError(c)
             \/ WaitError(c) \/ WritePgidError(c) \/ StartOk(c)
      PROVE  TypeOK'
  <2>1. Terminated(1) \in Statuses /\ Terminated(10) \in Statuses
    BY TerminatedIsStatus DEF ExitCodes
  <2>2. PICK s \in Statuses, p \in SUBSET {"script", "child"},
             f \in {"missing", "empty", "written"}, e \in {"none", "ok", "bad"} :
               EndStart(c, s, p, f, e)
    BY <1>2, <2>1, StatusNames
       DEF CollectOrStartError, NoCommand, LateStartError, WaitError,
           WritePgidError, StartOk
  <2> QED
    BY <2>2, StartType
<1> QED
  BY <1>1, <1>2 DEF CreatePod

\* Every variable keeps its type; the loop stays within the containers.
THEOREM TypeCorrect == Spec => []TypeOK
<1>1. Init => TypeOK
  <2> SUFFICES ASSUME Init PROVE TypeOK
    OBVIOUS
  <2>1. status \in [Containers -> Statuses] /\ fresh \in [Containers -> Statuses]
    BY StatusNames DEF Init
  <2>2. loop \in 0 .. N + 1 /\ procs \in [Containers -> SUBSET {"script", "child"}]
    BY NAssumption DEF Init
  <2> QED
    BY <2>1, <2>2 DEF Init, TypeOK, Unseen
<1>2. TypeOK /\ [Next]_vars => TypeOK'
  <2> SUFFICES ASSUME TypeOK, [Next]_vars PROVE TypeOK'
    OBVIOUS
  <2>1. CASE CreatePod
    BY <2>1, CreateType
  <2>2. CASE Processes
    BY <2>2 DEF Processes, Fork, ExitProcess, WriteStderr, ShareStderr, TypeOK, Up, creation,
                pod, round
  <2>3. CASE Loop
    BY <2>3, LoopType
  <2>4. CASE UNCHANGED vars
    BY <2>4 DEF vars, TypeOK, creation, pod, world, round
  <2> QED
    BY <2>1, <2>2, <2>3, <2>4 DEF Next
<1> QED
  BY <1>1, <1>2, PTL DEF Spec

-----------------------------------------------------------------------------
(* The loop looks at a pod between the end of CreatePod's start and the    *)
(* pod's own end, so that the entries it has read cannot change under it.  *)

PhaseInv ==
  /\ create \in {"idle", "starting"} => phase = "Pending"
  /\ loop # 0 => phase = "Running"

\* The entries CreatePod can leave.
StartInv ==
  create \in {"idle", "starting"} =>
    \A c \in Containers :
      status[c] \in {Absent, Running, Terminated(1), Terminated(10)}

\* Before the first round has filled the gaps, some container is running.
GapInv ==
  phase = "Running" /\ (\E c \in Containers : status[c].state = "absent") =>
    \E d \in Containers : status[d].state = "Running"

\* What the entries of the round under way owe to those of the last one.
FreshInv ==
  /\ loop = 0 => fresh = [c \in Containers |-> Zero]
  /\ \A c \in Containers : fresh[c].state # "absent"
  /\ \A c \in Containers : IsStartError(fresh[c]) => IsStartError(status[c])
  /\ \A c \in Containers :
       c < loop /\ fresh[c].state = "zero" => status[c].state \in {"absent", "zero"}

RoundInv == PhaseInv /\ StartInv /\ GapInv /\ FreshInv
StartErrorEnds ==
  phase = "Succeeded" => \A c \in Containers : ~IsStartError(status[c])
SafeInv == StartErrorEnds /\ SucceededMeansAllRan

LEMMA StatesDiffer ==
  /\ \A x \in ExitCodes : Terminated(x).state = "Terminated" /\ Terminated(x).code = x
  /\ Absent.state = "absent" /\ Zero.state = "zero" /\ Running.state = "Running"
  BY DEF Terminated, Absent, Zero, Running

LEMMA StartKeeps ==
  ASSUME TypeOK, RoundInv, SafeInv, NEW c \in Containers,
         NEW s \in {Absent, Running, Terminated(1), Terminated(10)},
         NEW p, NEW f, NEW e, EndStart(c, s, p, f, e)
  PROVE  RoundInv' /\ SafeInv'
<1>1. /\ create = "starting" /\ phase = "Pending" /\ loop = 0
      /\ UNCHANGED <<create, phase, fresh, loop>>
      /\ status' = [status EXCEPT ![c] = s]
  BY DEF EndStart, RoundInv, PhaseInv, round
<1>2. PhaseInv' /\ GapInv' /\ SafeInv'
  BY <1>1 DEF PhaseInv, GapInv, SafeInv, StartErrorEnds,
              SucceededMeansAllRan, RoundInv
<1>3. StartInv'
  BY <1>1 DEF StartInv, RoundInv, TypeOK
<1>4. FreshInv'
  <2>1. \A d \in Containers : ~IsStartError(fresh[d])
    BY <1>1 DEF RoundInv, FreshInv, IsStartError, Terminated, Zero
  <2>2. fresh' = [d \in Containers |-> Zero]
    BY <1>1 DEF RoundInv, FreshInv
  <2> QED
    BY <1>1, <2>1, <2>2, NAssumption DEF FreshInv, RoundInv, Containers
<1> QED
  BY <1>2, <1>3, <1>4 DEF RoundInv

LEMMA EnterKeeps ==
  ASSUME TypeOK, RoundInv, SafeInv, loop \in Containers, NEW s, Enter(s),
         s.state # "absent",
         IsStartError(s) => IsStartError(status[loop]),
         s.state = "zero" => status[loop].state \in {"absent", "zero"}
  PROVE  RoundInv' /\ SafeInv'
<1>1. /\ phase = "Running" /\ UNCHANGED <<create, phase, status>>
      /\ fresh' = [fresh EXCEPT ![loop] = s] /\ loop' = loop + 1
  BY NAssumption DEF Enter, RoundInv, PhaseInv, creation, pod, Containers
<1>2. PhaseInv' /\ StartInv' /\ GapInv' /\ SafeInv'
  BY <1>1 DEF PhaseInv, StartInv, GapInv, SafeInv, StartErrorEnds,
              SucceededMeansAllRan, RoundInv
<1>3. FreshInv'
  <2>1. \A c \in Containers : fresh'[c] = IF c = loop THEN s ELSE fresh[c]
    BY <1>1 DEF TypeOK
  <2>2. \A c \in Containers : c < loop + 1 => c < loop \/ c = loop
    BY DEF Containers
  <2>3. loop' # 0
    BY <1>1, NAssumption DEF Containers
  <2> QED
    BY <1>1, <2>1, <2>2, <2>3 DEF FreshInv, RoundInv
<1> QED
  BY <1>2, <1>3 DEF RoundInv

LEMMA EndRoundKeeps ==
  ASSUME TypeOK, RoundInv, SafeInv, EndRound
  PROVE  RoundInv' /\ SafeInv'
<1>1. /\ phase = "Running" /\ loop = N + 1 /\ loop' = 0
      /\ create \notin {"idle", "starting"} /\ create' = create
      /\ status' = fresh /\ fresh' = [c \in Containers |-> Zero]
  BY NAssumption DEF EndRound, RoundInv, PhaseInv, creation
<1>2. PhaseInv' /\ StartInv'
  BY <1>1 DEF PhaseInv, StartInv
<1>3. GapInv'
  BY <1>1 DEF GapInv, FreshInv, RoundInv
<1>4. FreshInv'
  <2>1. \A c \in Containers : ~(c < 0)
    BY NAssumption DEF Containers
  <2> QED
    BY <1>1, <2>1 DEF FreshInv, Zero, IsStartError, Terminated
<1>5. SafeInv'
  <2> SUFFICES ASSUME phase' = "Succeeded", NEW c \in Containers
               PROVE  /\ ~IsStartError(fresh[c])
                      /\ fresh[c].state \in {"Running", "Terminated"}
    BY <1>1 DEF SafeInv, StartErrorEnds, SucceededMeansAllRan
  <2>1. AllTerminated /\ AllExitZero
    BY DEF EndRound
  <2>2. \A d \in Containers : status[d].state # "absent"
    BY <1>1, <2>1 DEF RoundInv, GapInv, AllTerminated, Present
  <2>3. status[c].state = "Terminated" /\ status[c].code = 0
    BY <2>1, <2>2 DEF AllTerminated, AllExitZero, Present
  <2>4. ~IsStartError(fresh[c])
    BY <2>3 DEF RoundInv, FreshInv, IsStartError, Terminated
  <2>5. c < loop
    BY <1>1, NAssumption DEF Containers
  <2>6. fresh[c].state \notin {"absent", "zero"}
    BY <2>3, <2>5 DEF RoundInv, FreshInv
  <2>7. fresh[c] \in Statuses
    BY DEF TypeOK
  <2> QED
    BY <2>4, <2>6, <2>7 DEF Statuses, Absent, Zero, Running, Terminated
<1> QED
  BY <1>2, <1>3, <1>4, <1>5 DEF RoundInv

LEMMA RoundStep ==
  ASSUME TypeOK, RoundInv, SafeInv, [Next]_vars
  PROVE  RoundInv' /\ SafeInv'
<1> USE DEF SafeInv, StartErrorEnds, SucceededMeansAllRan
<1>1. CASE UNCHANGED <<create, phase, status, loop, fresh>>
  BY <1>1 DEF RoundInv, PhaseInv, StartInv, GapInv, FreshInv
<1>2. CASE StorePod \/ FailPod \/ SetStartTime
  <2>1. /\ UNCHANGED <<status, loop, fresh>>
        /\ \/ phase' = phase /\ create' # "idle"
           \/ phase' = "Failed" /\ create' = "done" /\ loop = 0
        /\ create' = "starting" => create = "idle"
    BY <1>2 DEF StorePod, FailPod, SetStartTime, RoundInv, PhaseInv, pod, round
  <2> QED
    BY <1>2, <2>1 DEF StorePod, FailPod, SetStartTime, RoundInv, PhaseInv,
                      StartInv, GapInv, FreshInv, pod, round
<1>3. CASE MarkRunning
  <2>1. /\ UNCHANGED <<status, loop, fresh>> /\ loop = 0
        /\ phase' = "Running" /\ create' = "marked" /\ create = "starting"
    BY <1>3 DEF MarkRunning, RoundInv, PhaseInv, round
  <2>2. PICK c \in Present : ~IsBad(status[c])
    BY <1>3 DEF MarkRunning
  <2>3. status[c].state = "Running"
    BY <2>1, <2>2 DEF RoundInv, StartInv, Present, IsBad, Terminated, Absent,
                      Running
  <2> QED
    BY <2>1, <2>2, <2>3 DEF RoundInv, PhaseInv, StartInv, GapInv, FreshInv, Present
<1>4. ASSUME NEW c \in Containers,
             \/ CollectOrStartError(c) \/ NoCommand(c) \/ LateStartError(c)
             \/ WaitError(c) \/ WritePgidError(c) \/ StartOk(c)
      PROVE  RoundInv' /\ SafeInv'
  <2>1. \E s \in {Absent, Running, Terminated(1), Terminated(10)} :
          \E p, f, e : EndStart(c, s, p, f, e)
    BY <1>4 DEF CollectOrStartError, NoCommand, LateStartError, WaitError,
                WritePgidError, StartOk
  <2> QED
    BY <2>1, StartKeeps
<1>5. CASE Loop
  <2>1. CASE BeginRound
    <3>1. /\ phase = "Running" /\ loop' = 1 /\ fresh' = [c \in Containers |-> Zero]
          /\ UNCHANGED <<create, phase, status>>
      BY <2>1 DEF BeginRound, Skipped, TypeOK, Ended, creation, pod
    <3>2. \A c \in Containers : ~(c < 1)
      BY NAssumption DEF Containers
    <3>3. PhaseInv' /\ StartInv' /\ GapInv'
      BY <3>1 DEF RoundInv, PhaseInv, StartInv, GapInv
    <3>4. FreshInv'
      BY <3>1, <3>2 DEF FreshInv, Zero, IsStartError, Terminated
    <3> QED
      BY <3>1, <3>3, <3>4 DEF RoundInv
  <2>2. CASE PassOver
    BY <2>2, EnterKeeps DEF PassOver, AtContainer, Zero, IsStartError, Terminated
  <2>3. CASE KeepStartError
    BY <2>3, EnterKeeps DEF KeepStartError, AtContainer, IsStartError, Terminated
  <2>4. CASE ExamineError
    BY <2>4, EnterKeeps
       DEF ExamineError, Examined, AtContainer, IsStartError, Terminated
  <2>5. CASE ListPids
    BY <1>1, <2>5 DEF ListPids, creation, pod
  <2>6. CASE InspectPids
    <3>1. PICK s \in {Running, Terminated(0), Terminated(3)} : Enter(s)
      BY <2>6 DEF InspectPids
    <3>2. s.state \notin {"absent", "zero"} /\ ~IsStartError(s)
      BY DEF Running, Terminated, IsStartError
    <3> QED
      BY <2>6, <3>1, <3>2, EnterKeeps DEF InspectPids
  <2>7. CASE EndRound
    BY <2>7, EndRoundKeeps
  <2>8. CASE Panic
    BY <1>1, <2>8 DEF Panic, creation, pod, round
  <2> QED
    BY <1>5, <2>1, <2>2, <2>3, <2>4, <2>5, <2>6, <2>7, <2>8 DEF Loop
<1>6. CASE Processes
  BY <1>1, <1>6 DEF Processes, Fork, ExitProcess, WriteStderr, ShareStderr, creation, pod, round
<1>7. CASE UNCHANGED vars
  BY <1>1, <1>7 DEF vars, creation, pod, round
<1> QED
  BY <1>2, <1>3, <1>4, <1>5, <1>6, <1>7 DEF Next, CreatePod

LEMMA RoundInit == Init => RoundInv /\ SafeInv
<1> SUFFICES ASSUME Init PROVE RoundInv /\ SafeInv
  OBVIOUS
<1>1. /\ phase = "Pending" /\ loop = 0 /\ create = "idle"
      /\ \A c \in Containers : status[c] = Absent /\ fresh[c] = Zero
      /\ fresh = [c \in Containers |-> Zero]
  BY DEF Init
<1>2. \A c \in Containers : ~(c < 0)
  BY NAssumption DEF Containers
<1>3. FreshInv
  BY <1>1, <1>2 DEF FreshInv, Zero, IsStartError, Terminated
<1> QED
  BY <1>1, <1>3 DEF RoundInv, PhaseInv, StartInv, GapInv, SafeInv,
                    StartErrorEnds, SucceededMeansAllRan

THEOREM RoundCorrect == Spec => [](TypeOK /\ RoundInv /\ SafeInv)
<1>1. TypeOK /\ RoundInv /\ SafeInv /\ [Next]_vars => RoundInv' /\ SafeInv'
  BY RoundStep
<1> QED
  BY <1>1, RoundInit, TypeCorrect, PTL DEF Spec

-----------------------------------------------------------------------------
(* A container that was never launched has no stderr file; its entry is a  *)
(* start error or none, in every round.                                    *)

LaunchInv ==
  /\ \A c \in Containers :
       stderr[c] = "missing" =>
         /\ status[c].state \in {"absent", "zero"} \/ IsStartError(status[c])
         /\ fresh[c].state \in {"absent", "zero"} \/ IsStartError(fresh[c])
  /\ loop \in Containers /\ seen # Unseen => stderr[loop] # "missing"

LEMMA LaunchStart ==
  ASSUME TypeOK, RoundInv, LaunchInv, NEW c \in Containers,
         NEW s \in {Absent, Running, Terminated(1), Terminated(10)},
         NEW p, NEW f \in {"missing", "empty", "written"}, NEW e,
         f = "missing" => s \in {Absent, Terminated(1)},
         EndStart(c, s, p, f, e)
  PROVE  LaunchInv'
<1>1. /\ loop = 0 /\ UNCHANGED <<fresh, loop>>
      /\ status' = [status EXCEPT ![c] = s] /\ stderr' = [stderr EXCEPT ![c] = f]
  BY DEF EndStart, RoundInv, PhaseInv, round
<1>2. loop' \notin Containers
  BY <1>1, NAssumption DEF Containers
<1>3. \A d \in Containers : fresh[d].state = "zero"
  BY <1>1 DEF RoundInv, FreshInv, Zero
<1>4. f = "missing" => s.state = "absent" \/ IsStartError(s)
  BY DEF Absent, IsStartError
<1> QED
  BY <1>1, <1>2, <1>3, <1>4 DEF LaunchInv, TypeOK

LEMMA LaunchEnter ==
  ASSUME TypeOK, LaunchInv, loop \in Containers, NEW s, Enter(s),
         stderr[loop] = "missing" =>
           s.state \in {"absent", "zero"} \/ IsStartError(s)
  PROVE  LaunchInv'
  BY DEF Enter, LaunchInv, TypeOK, pod, world

LEMMA LaunchStep ==
  ASSUME TypeOK, RoundInv, LaunchInv, [Next]_vars
  PROVE  LaunchInv'
<1>1. CASE UNCHANGED <<status, fresh, stderr, loop, seen>>
  BY <1>1 DEF LaunchInv
<1>2. CASE StorePod \/ FailPod \/ MarkRunning \/ SetStartTime
  BY <1>1, <1>2 DEF StorePod, FailPod, MarkRunning, SetStartTime, pod, world, round
<1>3. ASSUME NEW c \in Containers,
             \/ CollectOrStartError(c) \/ NoCommand(c) \/ LateStartError(c)
             \/ WaitError(c) \/ WritePgidError(c) \/ StartOk(c)
      PROVE  LaunchInv'
  <2>1. \E s \in {Absent, Running, Terminated(1), Terminated(10)},
           f \in {"missing", "empty", "written"} :
          /\ f = "missing" => s \in {Absent, Terminated(1)}
          /\ \E p, e : EndStart(c, s, p, f, e)
    BY <1>3 DEF CollectOrStartError, NoCommand, LateStartError, WaitError,
                WritePgidError, StartOk
  <2> QED
    BY <2>1, LaunchStart
<1>4. CASE Processes
  <2>1. /\ UNCHANGED <<status, fresh, loop, seen>>
        /\ \A c \in Containers : stderr'[c] = "missing" => stderr[c] = "missing"
    BY <1>4 DEF Processes, Fork, ExitProcess, WriteStderr, ShareStderr, pod, round, TypeOK
  <2> QED
    BY <2>1 DEF LaunchInv
<1>5. CASE Loop
  <2>1. CASE BeginRound
    BY <2>1 DEF BeginRound, LaunchInv, Zero, pod, world
  <2>2. CASE PassOver
    BY <2>2, LaunchEnter DEF PassOver, AtContainer, Zero
  <2>3. CASE KeepStartError
    BY <2>3, LaunchEnter DEF KeepStartError, AtContainer
  <2>4. CASE ExamineError
    BY <2>4, LaunchEnter DEF ExamineError, Examined, AtContainer, LaunchInv
  <2>5. CASE ListPids
    BY <2>5 DEF ListPids, LaunchInv, pod, world
  <2>6. CASE InspectPids
    <3>1. PICK s : Enter(s)
      BY <2>6 DEF InspectPids
    <3> QED
      BY <2>6, <3>1, LaunchEnter DEF InspectPids, LaunchInv
  <2>7. CASE EndRound
    <3>1. 0 \notin Containers
      BY NAssumption DEF Containers
    <3> QED
      BY <2>7, <3>1 DEF EndRound, LaunchInv, Zero, world
  <2>8. CASE Panic
    BY <1>1, <2>8 DEF Panic, pod, world, round
  <2> QED
    BY <1>5, <2>1, <2>2, <2>3, <2>4, <2>5, <2>6, <2>7, <2>8 DEF Loop
<1>6. CASE UNCHANGED vars
  BY <1>1, <1>6 DEF vars, pod, world, round
<1> QED
  BY <1>2, <1>3, <1>4, <1>5, <1>6 DEF Next, CreatePod

\* A pod with a container that failed to start never succeeds.
THEOREM FailedStartStays == Spec => []FailedStartNeverSucceeds
<1>1. Init => LaunchInv
  BY DEF Init, LaunchInv, Absent, Zero
<1>2. TypeOK /\ RoundInv /\ LaunchInv /\ [Next]_vars => LaunchInv'
  BY LaunchStep
<1>3. SafeInv /\ LaunchInv => FailedStartNeverSucceeds
  BY DEF SafeInv, StartErrorEnds, SucceededMeansAllRan, LaunchInv,
         FailedStartNeverSucceeds
<1> QED
  BY <1>1, <1>2, <1>3, RoundCorrect, PTL DEF Spec

\* A pod with a container that was never run never succeeds.
THEOREM AllRan == Spec => []SucceededMeansAllRan
  BY RoundCorrect, PTL DEF SafeInv

\* The loop and CreatePod leave a pod that has ended alone.
THEOREM EndIsFinal == Spec => EndedIsFinal
<1>1. TypeOK /\ RoundInv /\ SafeInv /\ [Next]_vars
        => [(phase \in Ended) => UNCHANGED <<phase, status>>]_vars
  <2> SUFFICES ASSUME RoundInv, Next, phase \in Ended
               PROVE  UNCHANGED <<phase, status>>
    BY DEF vars, pod
  <2>1. create \notin {"idle", "starting"} /\ loop = 0
    BY DEF RoundInv, PhaseInv, Ended
  <2>2. CASE CreatePod
    BY <2>1, <2>2
       DEF CreatePod, StorePod, FailPod, MarkRunning, SetStartTime,
           CollectOrStartError, NoCommand, LateStartError, WaitError,
           WritePgidError, StartOk, EndStart
  <2>3. CASE Processes
    BY <2>3 DEF Processes, Fork, ExitProcess, WriteStderr, ShareStderr, pod
  <2>4. CASE Loop
    BY <2>1, <2>4, NAssumption
       DEF Loop, BeginRound, PassOver, KeepStartError, ExamineError, Examined,
           ListPids, InspectPids, EndRound, Panic, AtContainer, Containers,
           Skipped, Ended
  <2> QED
    BY <2>2, <2>3, <2>4 DEF Next
<1> QED
  BY <1>1, RoundCorrect, PTL DEF Spec, EndedIsFinal
=============================================================================
