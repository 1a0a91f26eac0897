--------------------------- MODULE ContainerStarts ---------------------------
(***************************************************************************)
(* What CreatePod promises of the start of a pod's containers: each of     *)
(* them gets an outcome, once; an outcome with a status becomes one entry  *)
(* of pod.Status.ContainerStatuses; CreatePod goes on when every outcome   *)
(* is known and every entry is there.  StartContainers implements it, and  *)
(* PodStatus builds on it.                                                 *)
(***************************************************************************)
EXTENDS Naturals, Sequences

CONSTANT Containers

VARIABLES
  outcome,  \* [Containers -> the outcome of the start, or "pending"]
  entries,  \* pod.Status.ContainerStatuses
  done      \* CreatePod has left the loop over the channel of statuses

\* "silent": no command, no status; 1 and 10 are exit codes.
Outcomes == {"silent", "Running", "Terminated1", "Terminated10"}

Entry(c) == [name |-> c, state |-> outcome[c]]
Listed == {entries[i].name : i \in 1 .. Len(entries)}

Init ==
  /\ outcome = [c \in Containers |-> "pending"]
  /\ entries = <<>>
  /\ done = FALSE

End(c, o) ==
  /\ outcome[c] = "pending"
  /\ outcome' = [outcome EXCEPT ![c] = o]
  /\ UNCHANGED <<entries, done>>

Take(c) ==
  /\ outcome[c] \notin {"pending", "silent"} /\ c \notin Listed
  /\ entries' = Append(entries, Entry(c))
  /\ UNCHANGED <<outcome, done>>

Finish ==
  /\ ~done
  /\ \A c \in Containers : outcome[c] = "silent" \/ c \in Listed
  /\ done' = TRUE
  /\ UNCHANGED <<outcome, entries>>

Next ==
  \/ \E c \in Containers : Take(c) \/ \E o \in Outcomes : End(c, o)
  \/ Finish

Spec == Init /\ [][Next]_<<outcome, entries, done>>
=============================================================================
