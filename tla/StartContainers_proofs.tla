------------------------ MODULE StartContainers_proofs ------------------------
(***************************************************************************)
(* For a pod of any number of containers: no goroutine sends on a channel  *)
(* that is closed, CreatePod gets one status of each container that owes   *)
(* one, and every variable keeps its type.                                 *)
(*                                                                         *)
(* The WaitGroup counts the goroutines that are under way, and the one     *)
(* that closes the channels is started when all of them have been added.   *)
(***************************************************************************)
EXTENDS StartContainers, FiniteSetTheorems, TLAPS

\* What a goroutine that is under way may be at.
Going == {"collecting", "commanding", "opening", "selecting", "writing",
          "failing", "reporting", "returning"}

Active == {c \in Containers : g[c] \in Going}

\* The part of the type invariant the argument needs.
Types ==
  /\ next \in 1 .. N + 1 /\ wg \in Nat
  /\ closer \in {"none", "waiting", "closing", "ended"}
  /\ caller \in {"starting", "ranging", "done"}
  /\ g \in [Containers -> Going \cup {"none", "ended"}]

\* The goroutines that are started are those of the containers before next.
StartedInOrder == \A c \in Containers : g[c] = "none" <=> c >= next

\* wg.Add comes before the go statement, and all of them before wg.Wait.
AllAdded == closer # "none" => caller # "starting" /\ next = N + 1

Counted == IsFiniteSet(Active) /\ wg = Cardinality(Active)

ClosesLast ==
  /\ closed # {} => closer \in {"closing", "ended"}
  /\ closer \in {"closing", "ended"} => \A c \in Containers : g[c] = "ended"

Inv == Types /\ StartedInOrder /\ AllAdded /\ Counted /\ ClosesLast

\* What the steps of goroutine c, other than its last, do to these variables.
Moves(c) ==
  /\ g[c] \in Going
  /\ \E to \in Going : g' = [g EXCEPT ![c] = to]
  /\ UNCHANGED <<wg, next, closer, caller, closed>>

\* Every step of a goroutine but its last is such a move.
LEMMA GoroutineMoves ==
  ASSUME NEW c \in Containers, Goroutine(c), ~Return(c)
  PROVE  Moves(c)
<1>1. CASE Collect(c)
  BY <1>1 DEF Collect, Go, Going, Moves, control, channels
<1>2. CASE StartCommand(c)
  BY <1>2 DEF StartCommand, Go, Going, Moves, control, channels
<1>3. CASE OpenFiles(c)
  BY <1>3 DEF OpenFiles, Go, Going, Moves, control, channels
<1>4. CASE TakeResult(c)
  BY <1>4 DEF TakeResult, Go, Going, Moves, control, channels
<1>5. CASE TimeOut(c)
  BY <1>5 DEF TimeOut, Go, Going, Moves, control, channels
<1>6. CASE WritePgid(c)
  BY <1>6 DEF WritePgid, Go, Going, Moves, control, channels
<1>7. CASE SendError(c)
  BY <1>7 DEF SendError, Go, Going, Moves, control
<1>8. CASE SendStatus(c)
  BY <1>8 DEF SendStatus, Go, Going, Moves, control
<1>9. QED
  BY <1>1, <1>2, <1>3, <1>4, <1>5, <1>6, <1>7, <1>8 DEF Goroutine

\* A move preserves the invariant: the same goroutines are under way.
LEMMA MovePreserves ==
  ASSUME Inv, NEW c \in Containers, Moves(c)
  PROVE  Inv'
<1>1. PICK to \in Going \cup {"ended"} : g' = [g EXCEPT ![c] = to]
  BY DEF Moves
<1>2. Types'
  BY <1>1 DEF Inv, Types, Moves
<1>3. Active' = Active
  BY <1>1 DEF Inv, Types, Active, Moves
<1>4. StartedInOrder' /\ AllAdded' /\ ClosesLast'
  BY <1>1 DEF Inv, Types, StartedInOrder, AllAdded, ClosesLast, Moves, Going
<1>5. QED
  BY <1>2, <1>3, <1>4 DEF Inv, Counted, Moves

\* The last step of a goroutine takes it off the count.
LEMMA ReturnPreserves ==
  ASSUME Inv, NEW c \in Containers, Return(c)
  PROVE  Inv'
<1>1. c \in Active /\ Active' = Active \ {c}
  BY DEF Inv, Types, Return, Active, Going
<1>2. Counted' /\ wg' \in Nat
  <2>1. IsFiniteSet(Active') /\ Cardinality(Active') = Cardinality(Active) - 1
    BY <1>1, FS_RemoveElement DEF Inv, Counted
  <2>2. Cardinality(Active') \in Nat
    BY <2>1, FS_CardinalityType
  <2>3. QED
    BY <2>1, <2>2 DEF Inv, Counted, Return
<1>3. StartedInOrder' /\ AllAdded' /\ ClosesLast'
  BY DEF Inv, Types, StartedInOrder, AllAdded, ClosesLast, Return, control, channels
<1>4. QED
  BY <1>2, <1>3 DEF Inv, Types, Return, control

\* The invariant holds of what CreatePod starts with, and every step keeps it.
THEOREM InvHolds == Spec => []Inv
<1>1. Init => Inv
  <2> SUFFICES ASSUME Init PROVE Inv
    OBVIOUS
  <2>1. Active = {}
    BY DEF Init, Active, Going
  <2>2. Counted
    BY <2>1, FS_EmptySet DEF Init, Counted
  <2>3. QED
    BY <2>2, NAssumption
       DEF Init, Inv, Types, StartedInOrder, AllAdded, ClosesLast, Containers
<1>2. Inv /\ [Next]_vars => Inv'
  <2> SUFFICES ASSUME Inv, [Next]_vars PROVE Inv'
    OBVIOUS
  <2>1. CASE Start
    <3>1. next \in Containers /\ next \notin Active /\ Active' = Active \cup {next}
      BY <2>1, NAssumption DEF Inv, Types, StartedInOrder, Start, Active, Going, Containers
    <3>2. IsFiniteSet(Active') /\ Cardinality(Active') = Cardinality(Active) + 1
      BY <3>1, FS_AddElement DEF Inv, Counted
    <3>3. Counted' /\ Types'
      BY <2>1, <3>2, NAssumption DEF Inv, Counted, Types, Start, Going, Containers
    <3>4. StartedInOrder'
      BY <2>1, <3>1, NAssumption
         DEF Inv, Types, StartedInOrder, Start, Containers
    <3>5. closer = "none" /\ closer' = closer /\ closed' = closed
      BY <2>1 DEF Inv, AllAdded, Start, channels
    <3>6. QED
      BY <3>3, <3>4, <3>5 DEF Inv, AllAdded, ClosesLast
  <2>2. CASE StartCloser
    <3>1. closer = "none" /\ closed = {}
      BY <2>2 DEF Inv, AllAdded, ClosesLast, StartCloser
    <3>2. UNCHANGED <<next, wg, g, closed>> /\ next = N + 1
      BY <2>2 DEF StartCloser, channels, routine
    <3>3. Active' = Active
      BY <3>2 DEF Active
    <3>4. QED
      BY <2>2, <3>1, <3>2, <3>3
         DEF Inv, Types, StartedInOrder, AllAdded, Counted, ClosesLast, StartCloser
  <2>3. CASE CloseErrors
    <3>1. UNCHANGED <<next, wg, g, caller>> /\ wg = 0 /\ closer = "waiting"
      BY <2>3 DEF CloseErrors, routine
    <3>2. Active = {}
      BY <3>1, FS_EmptySet DEF Inv, Counted
    <3>3. \A c \in Containers : g[c] = "ended"
      BY <3>1, <3>2, NAssumption
         DEF Inv, Types, AllAdded, StartedInOrder, Active, Containers
    <3>4. Active' = Active
      BY <3>1 DEF Active
    <3>5. QED
      BY <2>3, <3>1, <3>3, <3>4
         DEF Inv, Types, StartedInOrder, AllAdded, Counted, ClosesLast, CloseErrors
  <2>4. CASE CloseStatuses
    <3>1. UNCHANGED <<next, wg, g, caller>> /\ closer = "closing"
      BY <2>4 DEF CloseStatuses, routine
    <3>2. Active' = Active
      BY <3>1 DEF Active
    <3>3. QED
      BY <2>4, <3>1, <3>2
         DEF Inv, Types, StartedInOrder, AllAdded, Counted, ClosesLast, CloseStatuses
  <2>5. CASE Receive \/ LeaveLoop
    <3>1. /\ UNCHANGED <<next, wg, g, closer, closed>>
          /\ caller = "ranging" /\ caller' \in {"ranging", "done"}
      BY <2>5 DEF Receive, LeaveLoop, routine, channels
    <3>2. Active' = Active
      BY <3>1 DEF Active
    <3>3. QED
      BY <3>1, <3>2 DEF Inv, Types, StartedInOrder, AllAdded, Counted, ClosesLast
  <2>6. ASSUME NEW c \in Containers, Goroutine(c)
        PROVE  Inv'
    BY <2>6, GoroutineMoves, MovePreserves, ReturnPreserves
  <2>7. ASSUME NEW c \in Containers, Exit(c) \/ Wait(c)
        PROVE  Inv'
    <3>1. UNCHANGED <<next, wg, g, closer, closed, caller>>
      BY <2>7 DEF Exit, Wait, vars, control,
                  channels, routine
    <3>2. Active' = Active
      BY <3>1 DEF Active
    <3>3. QED
      BY <3>1, <3>2 DEF Inv, Types, StartedInOrder, AllAdded, Counted, ClosesLast
  <2>8. CASE UNCHANGED vars
    <3>1. UNCHANGED <<next, wg, g, closer, closed, caller>>
      BY <2>8 DEF vars, control, channels, routine
    <3>2. Active' = Active
      BY <3>1 DEF Active
    <3>3. QED
      BY <3>1, <3>2 DEF Inv, Types, StartedInOrder, AllAdded, Counted, ClosesLast
  <2>9. QED
    BY <2>1, <2>2, <2>3, <2>4, <2>5, <2>6, <2>7, <2>8 DEF Next, CreatePod, Closer
<1>3. QED
  BY <1>1, <1>2, PTL DEF Spec

\* No channel is closed before every goroutine is past its sends: none of
\* them panics (command.go, the wg.Wait before the closes).
THEOREM ClosedSafe == Spec => []ClosedAfterSends
<1>1. Inv => ClosedAfterSends
  BY DEF Inv, ClosesLast, ClosedAfterSends
<1>2. QED
  BY <1>1, InvHolds, PTL
-----------------------------------------------------------------------------
(* StartContainers implements ContainerStarts, for any number of           *)
(* containers: every status that has to be sent is in the channel or among *)
(* the statuses once, from a goroutine that is past its send.              *)

\* What a goroutine may have to report, by where it is.
Past == {"returning", "ended"}
Reports == {"Running"} \cup Failure
Records == [name : Containers, state : Reports]

OutcomeAt(place, o) ==
  /\ place \in {"none", "collecting", "commanding", "opening", "selecting", "writing"} =>
       o = "pending"
  /\ place = "failing" => o \in Failure \cup {"silent"}
  /\ place = "reporting" => o \in Reports
  /\ place \in Past => o \in Reports \cup {"silent"}

\* The status r has been sent by its goroutine.
Sent(r) == g[r.name] \in Past /\ r.state = outcome[r.name]

Distinct(s) == \A i, j \in 1 .. Len(s) : s[i].name = s[j].name => i = j

InStatuses(c) == \E i \in 1 .. Len(statuses) : statuses[i].name = c
InChannel(c) == \E i \in 1 .. Len(statusCh) : statusCh[i].name = c

ReportTypes ==
  /\ outcome \in [Containers -> {"pending", "silent", "Running"} \cup Failure]
  /\ statuses \in Seq(Records) /\ statusCh \in Seq(Records)
  /\ \A c \in Containers : OutcomeAt(g[c], outcome[c])

AllSent ==
  /\ \A i \in 1 .. Len(statuses) : Sent(statuses[i])
  /\ \A i \in 1 .. Len(statusCh) : Sent(statusCh[i])

SentOnce ==
  /\ Distinct(statuses) /\ Distinct(statusCh)
  /\ \A c \in Containers : ~(InStatuses(c) /\ InChannel(c))

NoneLost ==
  \A c \in Containers :
    g[c] \in Past /\ outcome[c] # "silent" => InStatuses(c) \/ InChannel(c)

ReportInv == ReportTypes /\ AllSent /\ SentOnce /\ NoneLost

\* A step of goroutine c that sends no status: what it reports is decided
\* once, and is not changed when the goroutine is past its sends.
Decides(c) ==
  /\ UNCHANGED <<statuses, statusCh>>
  /\ \E to \in Going \cup {"ended"}, o \in {"pending", "silent", "Running"} \cup Failure :
       /\ g' = [g EXCEPT ![c] = to] /\ outcome' = [outcome EXCEPT ![c] = o]
       /\ OutcomeAt(to, o)
       /\ outcome[c] # "pending" => o = outcome[c]
       /\ to \in Past => g[c] \in Past \/ o = "silent"
  /\ g[c] \in Past => g'[c] \in Past

LEMMA GoroutineDecides ==
  ASSUME Types, ReportTypes, NEW c \in Containers, Goroutine(c), ~SendStatus(c)
  PROVE  Decides(c)
<1> USE DEF Types, ReportTypes, OutcomeAt, Going, Past, Reports, Failure, Decides
<1>1. CASE Collect(c)
  BY <1>1 DEF Collect, Go, control, channels
<1>2. CASE StartCommand(c)
  BY <1>2 DEF StartCommand, Go, control, channels
<1>3. CASE OpenFiles(c)
  BY <1>3 DEF OpenFiles, Go, control, channels
<1>4. CASE TakeResult(c)
  BY <1>4 DEF TakeResult, Go, control, channels
<1>5. CASE TimeOut(c)
  BY <1>5 DEF TimeOut, Go, control, channels
<1>6. CASE WritePgid(c)
  BY <1>6 DEF WritePgid, Go, control, channels
<1>7. CASE SendError(c)
  <2>1. /\ UNCHANGED <<statuses, statusCh>> /\ g[c] = "failing"
        /\ outcome' = [outcome EXCEPT ![c] = outcome[c]]
        /\ g' = [g EXCEPT ![c] = IF outcome[c] = "silent" THEN "returning" ELSE "reporting"]
    BY <1>7 DEF SendError, Go, control
  <2>2. CASE outcome[c] = "silent"
    BY <2>1, <2>2
  <2>3. CASE outcome[c] # "silent"
    BY <2>1, <2>3
  <2>4. QED
    BY <2>2, <2>3
<1>8. CASE Return(c)
  <2>1. outcome' = [outcome EXCEPT ![c] = outcome[c]]
    BY <1>8 DEF Return
  <2>2. QED
    BY <1>8, <2>1 DEF Return, control, channels
<1>9. QED
  BY <1>1, <1>2, <1>3, <1>4, <1>5, <1>6, <1>7, <1>8 DEF Goroutine

LEMMA DecisionKeepsReports ==
  ASSUME Types, ReportInv, NEW c \in Containers, Decides(c)
  PROVE  ReportInv'
<1>1. PICK to \in Going \cup {"ended"}, o \in {"pending", "silent", "Running"} \cup Failure :
        /\ g' = [g EXCEPT ![c] = to] /\ outcome' = [outcome EXCEPT ![c] = o]
        /\ OutcomeAt(to, o)
        /\ outcome[c] # "pending" => o = outcome[c]
        /\ to \in Past => g[c] \in Past \/ o = "silent"
  BY DEF Decides
<1>2. g[c] \in Past => to \in Past /\ o = outcome[c]
  BY <1>1 DEF Decides, Types, ReportInv, ReportTypes, OutcomeAt, Past, Reports, Failure
<1>3. ReportTypes'
  BY <1>1 DEF ReportInv, ReportTypes, Types, Decides, OutcomeAt
<1>4. ASSUME NEW r \in Records, Sent(r)
      PROVE  Sent(r)'
  BY <1>1, <1>2, <1>4 DEF Sent, Records, ReportInv, ReportTypes, Types
<1>5. AllSent'
  BY <1>4 DEF AllSent, ReportInv, ReportTypes, Decides
<1>6. SentOnce'
  BY DEF SentOnce, ReportInv, Decides, Distinct, InStatuses, InChannel
<1>7. NoneLost'
  <2> SUFFICES ASSUME NEW d \in Containers, g'[d] \in Past, outcome'[d] # "silent"
               PROVE  InStatuses(d) \/ InChannel(d)
    BY DEF NoneLost, InStatuses, InChannel, Decides
  <2>1. g[d] \in Past /\ outcome[d] # "silent"
    BY <1>1, <1>2 DEF ReportInv, ReportTypes, Types
  <2>2. QED
    BY <2>1 DEF ReportInv, NoneLost
<1>8. QED
  BY <1>3, <1>5, <1>6, <1>7 DEF ReportInv

\* The status that is sent is new, and true.
LEMMA SendKeepsReports ==
  ASSUME Types, ReportInv, NEW c \in Containers, SendStatus(c)
  PROVE  ReportInv'
<1>1. /\ g[c] = "reporting" /\ g' = [g EXCEPT ![c] = "returning"]
      /\ outcome' = outcome /\ statuses' = statuses
      /\ statusCh' = Append(statusCh, Status(c))
  BY DEF SendStatus, Go, control, ReportInv, ReportTypes
<1>2. outcome[c] \in Reports /\ Status(c) \in Records
  BY <1>1 DEF ReportInv, ReportTypes, OutcomeAt, Status, Records
<1>3. /\ Len(statusCh') = Len(statusCh) + 1 /\ Len(statusCh) \in Nat
      /\ \A i \in 1 .. Len(statusCh) : statusCh'[i] = statusCh[i]
      /\ statusCh'[Len(statusCh) + 1] = Status(c)
  BY <1>1, <1>2 DEF ReportInv, ReportTypes
<1>4. ~InStatuses(c) /\ ~InChannel(c)
  BY <1>1 DEF ReportInv, AllSent, Sent, InStatuses, InChannel, Past
<1>5. ReportTypes'
  <2>1. statusCh' \in Seq(Records)
    BY <1>1, <1>2 DEF ReportInv, ReportTypes
  <2>2. \A d \in Containers : OutcomeAt(g[d], outcome[d])'
    BY <1>1, <1>2 DEF ReportInv, ReportTypes, Types, OutcomeAt, Past, Reports, Failure
  <2>3. QED
    BY <1>1, <2>1, <2>2 DEF ReportInv, ReportTypes
<1>6. \A r \in Records :
        Sent(r) => g'[r.name] \in Past /\ r.state = outcome'[r.name]
  BY <1>1 DEF Sent, Records, Past, Types
<1>7. AllSent'
  <2>1. g'[Status(c).name] \in Past /\ Status(c).state = outcome'[Status(c).name]
    BY <1>1, <1>2 DEF Status, Past, Types
  <2>2. \A i \in 1 .. Len(statuses) :
          g'[statuses[i].name] \in Past /\ statuses[i].state = outcome'[statuses[i].name]
    BY <1>6 DEF ReportInv, ReportTypes, AllSent
  <2>3. \A i \in 1 .. Len(statusCh) :
          g'[statusCh[i].name] \in Past /\ statusCh[i].state = outcome'[statusCh[i].name]
    BY <1>6 DEF ReportInv, ReportTypes, AllSent
  <2>4. \A i \in 1 .. Len(statusCh') :
          g'[statusCh'[i].name] \in Past /\ statusCh'[i].state = outcome'[statusCh'[i].name]
    <3> SUFFICES ASSUME NEW i \in 1 .. Len(statusCh')
                 PROVE  /\ g'[statusCh'[i].name] \in Past
                        /\ statusCh'[i].state = outcome'[statusCh'[i].name]
      OBVIOUS
    <3>1. i \in 1 .. Len(statusCh) \/ i = Len(statusCh) + 1
      BY <1>3
    <3>2. QED
      BY <1>3, <2>1, <2>3, <3>1
  <2>5. QED
    BY <1>1, <2>2, <2>4 DEF AllSent, Sent
<1>8. \A d \in Containers : InChannel(d)' <=> InChannel(d) \/ d = c
  BY <1>3 DEF InChannel, Status
<1>9. SentOnce'
  <2>1. Distinct(statusCh)'
    BY <1>3, <1>4 DEF ReportInv, SentOnce, Distinct, InChannel, Status
  <2>2. QED
    BY <1>1, <1>4, <1>8, <2>1 DEF ReportInv, SentOnce, InStatuses, Distinct
<1>10. NoneLost'
  BY <1>1, <1>8 DEF ReportInv, NoneLost, InStatuses, Past, Types
<1>11. QED
  BY <1>5, <1>7, <1>9, <1>10 DEF ReportInv

\* CreatePod moves a status from the channel to the pod.
LEMMA ReceiveKeepsReports ==
  ASSUME ReportInv, Receive
  PROVE  ReportInv'
<1>1. /\ statusCh # <<>> /\ UNCHANGED <<g, outcome>>
      /\ statuses' = Append(statuses, Head(statusCh)) /\ statusCh' = Tail(statusCh)
  BY DEF Receive, routine
<1>2. /\ Head(statusCh) \in Records /\ Head(statusCh) = statusCh[1]
      /\ Len(statusCh) \in Nat \ {0} /\ Len(statuses) \in Nat
  BY <1>1 DEF ReportInv, ReportTypes
<1>3. /\ Len(statuses') = Len(statuses) + 1
      /\ \A i \in 1 .. Len(statuses) : statuses'[i] = statuses[i]
      /\ statuses'[Len(statuses) + 1] = statusCh[1]
  BY <1>1, <1>2 DEF ReportInv, ReportTypes
<1>4. /\ Len(statusCh') = Len(statusCh) - 1
      /\ \A i \in 1 .. Len(statusCh) - 1 : statusCh'[i] = statusCh[i + 1]
  BY <1>1, <1>2 DEF ReportInv, ReportTypes
<1>5. ReportTypes'
  <2>1. statuses' \in Seq(Records) /\ statusCh' \in Seq(Records)
    BY <1>1, <1>2 DEF ReportInv, ReportTypes
  <2>2. QED
    BY <1>1, <2>1 DEF ReportInv, ReportTypes
<1>6. AllSent'
  <2>1. \A i \in 1 .. Len(statuses') : Sent(statuses'[i])
    BY <1>2, <1>3 DEF ReportInv, AllSent
  <2>2. \A i \in 1 .. Len(statusCh') : Sent(statusCh'[i])
    BY <1>2, <1>4 DEF ReportInv, AllSent
  <2>3. QED
    BY <1>1, <2>1, <2>2 DEF AllSent, Sent
<1>7. \A d \in Containers : InStatuses(d)' <=> InStatuses(d) \/ d = statusCh[1].name
  BY <1>2, <1>3 DEF InStatuses
<1>8. \A d \in Containers : InChannel(d)' <=> \E i \in 2 .. Len(statusCh) : statusCh[i].name = d
  <2> SUFFICES ASSUME NEW d \in Containers
               PROVE  InChannel(d)' <=> \E i \in 2 .. Len(statusCh) : statusCh[i].name = d
    OBVIOUS
  <2>1. ASSUME NEW i \in 2 .. Len(statusCh), statusCh[i].name = d
        PROVE  InChannel(d)'
    <3>1. i - 1 \in 1 .. Len(statusCh') /\ statusCh'[i - 1] = statusCh[i]
      BY <1>2, <1>4
    <3>2. QED
      BY <2>1, <3>1 DEF InChannel
  <2>2. ASSUME NEW i \in 1 .. Len(statusCh'), statusCh'[i].name = d
        PROVE  \E j \in 2 .. Len(statusCh) : statusCh[j].name = d
    <3>1. i + 1 \in 2 .. Len(statusCh) /\ statusCh'[i] = statusCh[i + 1]
      BY <1>2, <1>4
    <3>2. QED
      BY <2>2, <3>1
  <2>3. QED
    BY <2>1, <2>2 DEF InChannel
<1>9. ~InStatuses(statusCh[1].name)
  <2>1. statusCh[1].name \in Containers /\ InChannel(statusCh[1].name)
    BY <1>2 DEF InChannel, Records
  <2>2. QED
    BY <2>1 DEF ReportInv, SentOnce
<1>10. SentOnce'
  <2>1. Distinct(statuses)'
    BY <1>2, <1>3, <1>9 DEF ReportInv, SentOnce, Distinct, InStatuses
  <2>2. Distinct(statusCh)'
    <3> SUFFICES ASSUME NEW i \in 1 .. Len(statusCh'), NEW j \in 1 .. Len(statusCh'),
                        statusCh'[i].name = statusCh'[j].name
                 PROVE  i = j
      BY DEF Distinct
    <3>1. /\ i + 1 \in 1 .. Len(statusCh) /\ j + 1 \in 1 .. Len(statusCh)
          /\ statusCh[i + 1].name = statusCh[j + 1].name
      BY <1>2, <1>4
    <3>2. i + 1 = j + 1
      BY <3>1 DEF ReportInv, SentOnce, Distinct
    <3>3. QED
      BY <3>2
  <2>3. ASSUME NEW d \in Containers
        PROVE  ~(InStatuses(d) /\ InChannel(d))'
    <3>1. CASE d = statusCh[1].name
      <4>1. \A i \in 2 .. Len(statusCh) : statusCh[i].name # d
        BY <1>2, <3>1 DEF ReportInv, SentOnce, Distinct
      <4>2. QED
        BY <1>8, <4>1
    <3>2. CASE d # statusCh[1].name
      <4>1. (\E i \in 2 .. Len(statusCh) : statusCh[i].name = d) => InChannel(d)
        BY <1>2 DEF InChannel
      <4>2. QED
        BY <1>7, <1>8, <3>2, <4>1 DEF ReportInv, SentOnce
    <3>3. QED
      BY <3>1, <3>2
  <2>4. QED
    BY <2>1, <2>2, <2>3 DEF SentOnce
<1>11. NoneLost'
  <2> SUFFICES ASSUME NEW d \in Containers, g[d] \in Past, outcome[d] # "silent"
               PROVE  (InStatuses(d) \/ InChannel(d))'
    BY <1>1 DEF NoneLost
  <2>1. InStatuses(d) \/ InChannel(d)
    BY DEF ReportInv, NoneLost
  <2>2. InChannel(d) =>
          d = statusCh[1].name \/ \E i \in 2 .. Len(statusCh) : statusCh[i].name = d
    BY <1>2 DEF InChannel
  <2>3. QED
    BY <1>7, <1>8, <2>1, <2>2
<1>12. QED
  BY <1>5, <1>6, <1>10, <1>11 DEF ReportInv

\* The other steps touch none of this.
LEMMA OthersKeepReports ==
  ASSUME ReportInv, UNCHANGED <<g, outcome, statuses, statusCh>>
  PROVE  ReportInv'
BY DEF ReportInv, ReportTypes, AllSent, SentOnce, NoneLost, Sent, Distinct,
       InStatuses, InChannel

LEMMA Reporting == Spec => [](Inv /\ ReportInv)
<1>1. Init => ReportInv
  BY DEF Init, ReportInv, ReportTypes, AllSent, SentOnce, NoneLost, Sent, Distinct,
         InStatuses, InChannel, OutcomeAt, Past
<1>2. Inv /\ ReportInv /\ [Next]_vars => ReportInv'
  <2> SUFFICES ASSUME Types, StartedInOrder, ReportInv, [Next]_vars
               PROVE  ReportInv'
    BY DEF Inv
  <2>1. ASSUME NEW c \in Containers, Goroutine(c)
        PROVE  ReportInv'
    BY <2>1, GoroutineDecides, DecisionKeepsReports, SendKeepsReports DEF ReportInv
  <2>2. CASE Receive
    BY <2>2, ReceiveKeepsReports
  <2>3. CASE Start
    <3>1. next \in Containers /\ g[next] = "none" /\ outcome[next] = "pending"
      BY <2>3, NAssumption
         DEF Types, StartedInOrder, Start, Containers, ReportInv, ReportTypes, OutcomeAt
    <3>2. /\ UNCHANGED <<statuses, statusCh>>
          /\ g' = [g EXCEPT ![next] = "collecting"]
          /\ outcome' = [outcome EXCEPT ![next] = "pending"]
      BY <2>3, <3>1 DEF Start, channels, ReportInv, ReportTypes
    <3>3. Decides(next)
      BY <3>1, <3>2 DEF Decides, Going, Past, OutcomeAt
    <3>4. QED
      BY <3>1, <3>3, DecisionKeepsReports
  <2>4. CASE StartCloser \/ LeaveLoop \/ Closer
    BY <2>4, OthersKeepReports
       DEF StartCloser, LeaveLoop, Closer, CloseErrors, CloseStatuses, channels, routine
  <2>5. ASSUME NEW c \in Containers, Exit(c) \/ Wait(c)
        PROVE  ReportInv'
    BY <2>5, OthersKeepReports
       DEF Exit, Wait, control, channels, routine
  <2>6. CASE UNCHANGED vars
    BY <2>6, OthersKeepReports DEF vars, control, channels, routine
  <2>7. QED
    BY <2>1, <2>2, <2>3, <2>4, <2>5, <2>6 DEF Next, CreatePod
<1>3. QED
  BY <1>1, <1>2, InvHolds, PTL DEF Spec


\* A goroutine's move is the end of its start, or nothing that CreatePod sees.
LEMMA DecisionIsEnd ==
  ASSUME ReportTypes, NEW c \in Containers, Decides(c), caller' = caller
  PROVE  [Starts!Next]_<<outcome, statuses, caller = "done">>
<1>1. PICK to \in Going \cup {"ended"}, o \in {"pending", "silent", "Running"} \cup Failure :
        /\ outcome' = [outcome EXCEPT ![c] = o]
        /\ outcome[c] # "pending" => o = outcome[c]
  BY DEF Decides
<1>2. statuses' = statuses /\ (caller = "done")' = (caller = "done")
  BY DEF Decides
<1>3. CASE o = outcome[c]
  <2>1. outcome' = outcome
    BY <1>1, <1>3 DEF ReportTypes
  <2>2. QED
    BY <1>2, <2>1
<1>4. CASE o # outcome[c]
  <2>1. outcome[c] = "pending" /\ o \in Starts!Outcomes
    BY <1>1, <1>4 DEF Starts!Outcomes, Failure
  <2>2. Starts!End(c, o)
    BY <1>1, <1>2, <2>1 DEF Starts!End
  <2>3. QED
    BY <2>1, <2>2 DEF Starts!Next
<1>5. QED
  BY <1>3, <1>4

\* What CreatePod receives is the entry of a container that has none yet.
LEMMA ReceiveIsTake ==
  ASSUME ReportInv, Receive
  PROVE  Starts!Next
<1>1. /\ statusCh # <<>> /\ statuses' = Append(statuses, Head(statusCh))
      /\ outcome' = outcome /\ caller' = caller
  BY DEF Receive, routine
<1>2. /\ Head(statusCh) = statusCh[1] /\ statusCh[1] \in Records
      /\ 1 \in 1 .. Len(statusCh)
  BY <1>1 DEF ReportInv, ReportTypes
<1>3. PICK c \in Containers : c = statusCh[1].name
  BY <1>2 DEF Records
<1>4. statusCh[1] = Starts!Entry(c) /\ outcome[c] \in Reports
  BY <1>2, <1>3 DEF ReportInv, AllSent, Sent, Records, Starts!Entry
<1>5. ~InStatuses(c)
  BY <1>2, <1>3 DEF ReportInv, SentOnce, InChannel
<1>6. c \notin Starts!Listed
  BY <1>5 DEF Starts!Listed, InStatuses
<1>7. Starts!Take(c)
  BY <1>1, <1>2, <1>4, <1>6 DEF Starts!Take, Reports, Failure
<1>8. QED
  BY <1>7 DEF Starts!Next

\* CreatePod leaves its loop when every entry is there.
LEMMA LeaveIsFinish ==
  ASSUME Inv, ReportInv, LeaveLoop
  PROVE  Starts!Next
<1>1. /\ caller = "ranging" /\ caller' = "done" /\ statusCh = <<>>
      /\ "status" \in closed /\ UNCHANGED <<outcome, statuses>>
  BY DEF LeaveLoop, routine
<1>2. \A c \in Containers : g[c] = "ended"
  BY <1>1 DEF Inv, ClosesLast
<1>3. ASSUME NEW c \in Containers, outcome[c] # "silent"
      PROVE  c \in Starts!Listed
  <2>1. ~InChannel(c)
    BY <1>1 DEF InChannel
  <2>2. InStatuses(c)
    BY <1>2, <1>3, <2>1 DEF ReportInv, NoneLost, Past
  <2>3. QED
    BY <2>2 DEF InStatuses, Starts!Listed
<1>4. Starts!Finish
  BY <1>1, <1>3 DEF Starts!Finish
<1>5. QED
  BY <1>4 DEF Starts!Next

\* CreatePod gets one entry of every container but those without a command,
\* with the state that its goroutine has found, and goes on when it has them
\* all, for any number of containers (command.go, and the loop in CreatePod).
THEOREM StartsImplemented == Spec => ImplementsStarts
<1>1. Init => Starts!Init
  BY DEF Init, Starts!Init
<1>2. ASSUME Inv, ReportInv, [Next]_vars
      PROVE  [Starts!Next]_<<outcome, statuses, caller = "done">>
  <2> USE <1>2
  <2>1. ASSUME NEW c \in Containers, Goroutine(c), ~SendStatus(c)
        PROVE  [Starts!Next]_<<outcome, statuses, caller = "done">>
    <3>1. caller' = caller
      BY <2>1, GoroutineMoves DEF Moves, Return, control
    <3>2. QED
      BY <2>1, <3>1, GoroutineDecides, DecisionIsEnd DEF Inv, ReportInv
  <2>2. ASSUME NEW c \in Containers, SendStatus(c)
        PROVE  UNCHANGED <<outcome, statuses, caller>>
    BY <2>2 DEF SendStatus, Go, control, ReportInv, ReportTypes
  <2>3. CASE Receive
    BY <2>3, ReceiveIsTake
  <2>4. CASE LeaveLoop
    BY <2>4, LeaveIsFinish
  <2>5. CASE Start
    BY <2>5 DEF Start
  <2>6. CASE StartCloser
    <3>1. UNCHANGED <<outcome, statuses>> /\ caller # "done" /\ caller' # "done"
      BY <2>6 DEF StartCloser, routine
    <3>2. QED
      BY <3>1
  <2>7. CASE Closer
    BY <2>7 DEF Closer, CloseErrors, CloseStatuses, routine
  <2>8. ASSUME NEW c \in Containers, Exit(c) \/ Wait(c)
        PROVE  UNCHANGED <<outcome, statuses, caller>>
    BY <2>8 DEF Exit, Wait, control, routine
  <2>9. CASE UNCHANGED vars
    BY <2>9 DEF vars, control, routine
  <2>10. QED
    BY <2>1, <2>2, <2>3, <2>4, <2>5, <2>6, <2>7, <2>8, <2>9 DEF Next, CreatePod
<1>3. QED
  BY <1>1, <1>2, InvHolds, Reporting, PTL DEF Spec, ImplementsStarts, Starts!Spec

-----------------------------------------------------------------------------
(* The rest of the type invariant.                                         *)

\* A channel holds no more than its capacity.
Buffers ==
  /\ closed \subseteq {"error", "status"}
  /\ errCh \in Seq(Containers)
  /\ Len(errCh) <= N /\ Len(statusCh) <= N

ScriptTypes ==
  /\ waiter \in [Containers -> {"none", "waiting", "sending", "ended"}]
  /\ proc \in [Containers -> {"none", "running", "ok", "bad"}]

LEMMA BuffersStep == ReportInv /\ Buffers /\ [Next]_vars => Buffers'
<1> SUFFICES ASSUME ReportTypes, Buffers, [Next]_vars PROVE Buffers'
  BY DEF ReportInv
<1> USE DEF Buffers
<1>1. CASE Receive
  <2>1. Len(Tail(statusCh)) <= N
    BY <1>1, NAssumption DEF Receive, ReportTypes
  <2>2. QED
    BY <1>1, <2>1 DEF Receive
<1>2. ASSUME NEW c \in Containers, SendError(c) PROVE Buffers'
  BY <1>2, NAssumption DEF SendError, ErrorRoom
<1>3. ASSUME NEW c \in Containers, SendStatus(c) PROVE Buffers'
  BY <1>3, NAssumption DEF SendStatus, ReportTypes
<1>4. CASE Closer
  BY <1>4 DEF Closer, CloseErrors, CloseStatuses
<1>5. CASE UNCHANGED channels
  BY <1>5 DEF channels
<1>6. CASE Start \/ StartCloser \/ LeaveLoop \/ UNCHANGED vars
  BY <1>5, <1>6 DEF Start, StartCloser, LeaveLoop, vars, channels
<1>7. ASSUME NEW c \in Containers, Goroutine(c), ~SendError(c), ~SendStatus(c)
      PROVE  UNCHANGED channels
  BY <1>7 DEF Goroutine, Collect, StartCommand, OpenFiles, TakeResult, TimeOut,
              WritePgid, Return, channels
<1>8. ASSUME NEW c \in Containers, Exit(c) \/ Wait(c)
      PROVE  UNCHANGED channels
  BY <1>8 DEF Exit, Wait, channels
<1>9. QED
  BY <1>1, <1>2, <1>3, <1>4, <1>5, <1>6, <1>7, <1>8 DEF Next, CreatePod

LEMMA ScriptInit == Init => ScriptTypes
  BY DEF Init, ScriptTypes

LEMMA ScriptStep == ScriptTypes /\ [Next]_vars => ScriptTypes'
<1> SUFFICES ASSUME ScriptTypes, [Next]_vars PROVE ScriptTypes'
  OBVIOUS
<1> USE DEF ScriptTypes
<1>1. CASE UNCHANGED <<waiter, proc>>
  BY <1>1
<1>2. CASE CreatePod \/ Closer \/ UNCHANGED vars
  BY <1>1, <1>2 DEF CreatePod, Start, StartCloser, LeaveLoop, Receive, Closer,
                    CloseErrors, CloseStatuses, vars, routine
<1>3. ASSUME NEW c \in Containers, Goroutine(c) PROVE ScriptTypes'
  <2>1. CASE StartCommand(c)
    BY <2>1 DEF StartCommand
  <2>2. CASE OpenFiles(c)
    BY <2>2 DEF OpenFiles
  <2>3. CASE TakeResult(c)
    BY <2>3 DEF TakeResult
  <2>4. CASE ~StartCommand(c) /\ ~OpenFiles(c) /\ ~TakeResult(c)
    BY <1>1, <1>3, <2>4 DEF Goroutine, Collect, TimeOut, WritePgid, SendError,
                            SendStatus, Return
  <2>5. QED
    BY <2>1, <2>2, <2>3, <2>4
<1>4. ASSUME NEW c \in Containers, Exit(c) PROVE ScriptTypes'
  BY <1>4 DEF Exit, routine
<1>5. ASSUME NEW c \in Containers, Wait(c) PROVE ScriptTypes'
  BY <1>5 DEF Wait
<1>6. QED
  BY <1>2, <1>3, <1>4, <1>5 DEF Next

\* The statuses are those of different containers, so that there are no more
\* of them than containers.
LEMMA StatusesBounded == ReportInv => Len(statuses) \in 0 .. N
<1> SUFFICES ASSUME ReportInv PROVE Len(statuses) <= N /\ Len(statuses) \in Nat
  BY NAssumption
<1> DEFINE places == 1 .. Len(statuses)
<1> DEFINE f == [i \in places |-> statuses[i].name]
<1>1. Len(statuses) \in Nat /\ statuses \in Seq(Records)
  BY DEF ReportInv, ReportTypes
<1>2. \A i \in places : statuses[i].name \in 1 .. N
  <2>1. \A i \in places : statuses[i] \in Records
    BY <1>1
  <2>2. \A r \in Records : r.name \in 1 .. N
    BY DEF Records, Containers
  <2>3. QED
    BY <2>1, <2>2
<1>3. f \in [places -> 1 .. N]
  BY <1>2
<1>4. \A i, j \in places : i # j => f[i] # f[j]
  BY <1>1 DEF ReportInv, Distinct, SentOnce
<1>5. f \in Injection(places, 1 .. N)
  <2> HIDE DEF f
  <2>1. QED
    BY <1>3, <1>4 DEF Injection, IsInjective
<1>6. IsFiniteSet(1 .. N) /\ Cardinality(1 .. N) = N
  BY NAssumption, FS_Interval
<1>7. Cardinality(places) = Len(statuses)
  <2>1. ASSUME NEW n \in Nat PROVE Cardinality(1 .. n) = n
    <3>1. Cardinality(1 .. n) = IF 1 > n THEN 0 ELSE n - 1 + 1
      BY FS_Interval
    <3>2. QED
      BY <3>1
  <2>2. QED
    BY <1>1, <2>1
<1>8. Cardinality(places) <= Cardinality(1 .. N)
  <2> HIDE DEF places, f
  <2>1. QED
    BY <1>5, <1>6, FS_Injection
<1>9. QED
  BY <1>1, <1>6, <1>7, <1>8

\* Every variable keeps its type, and no channel holds more than its capacity.
THEOREM StartTypes == Spec => []TypeOK
<1>1. ASSUME Inv, ReportInv, Buffers, ScriptTypes PROVE TypeOK
  <2>1. Cardinality(Active) <= N
    <3>1. Active \in SUBSET (1 .. N)
      BY DEF Active, Containers
    <3>2. IsFiniteSet(1 .. N) /\ Cardinality(1 .. N) = N
      BY NAssumption, FS_Interval
    <3>3. QED
      BY <3>1, <3>2, FS_Subset
  <2>2. wg \in 0 .. N
    BY <1>1, <2>1, NAssumption DEF Inv, Types, Counted
  <2>3. Len(errCh) \in 0 .. N /\ Len(statusCh) \in 0 .. N
    BY <1>1, NAssumption DEF Buffers, ReportInv, ReportTypes
  <2>4. QED
    BY <1>1, <2>2, <2>3, StatusesBounded
       DEF TypeOK, Inv, Types, Going, ReportInv, ReportTypes, Buffers, ScriptTypes
<1>2. Init => Buffers
  BY NAssumption DEF Init, Buffers
<1>3. QED
  BY <1>1, <1>2, InvHolds, Reporting, BuffersStep, ScriptInit, ScriptStep,
     PTL DEF Spec
=============================================================================
