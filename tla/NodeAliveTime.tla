---------------------------- MODULE NodeAliveTime ----------------------------
(***************************************************************************)
(* The wall time of a node: ConfigureNode and aliveTimeLoop                *)
(* (internal/provider/mock/mock.go) and the callback of NewNode that sets  *)
(* the node ready (internal/node/nodeutil/controller.go).                  *)
(*                                                                         *)
(* All of them write one v1.Node.  The callback hands its pointer to the   *)
(* node controller, which from then on reads it, without a lock, whenever  *)
(* it updates the API server.                                              *)
(***************************************************************************)
EXTENDS Integers

CONSTANTS
  WallTime,   \* a wall time, in units of time
  Period,     \* the period of the timer (5 s), in the same unit
  MaxElapsed  \* bound: the elapsed time is not counted any further

ASSUME TimesAssumption ==
  /\ WallTime \in Nat \ {0} /\ Period \in Nat \ {0}
  /\ MaxElapsed \in Nat /\ MaxElapsed > WallTime

VARIABLES
  env,      \* JIRIAF_WALLTIME: "0", unset, or WallTime; never changes
  loop,     \* progress of aliveTimeLoop
  wait,     \* time until its timer fires
  elapsed,  \* time since it started
  node,     \* the condition Ready of cfg.NodeSpec
  callback, \* progress of readyCb
  api       \* the condition as the API server has it

AliveVars == <<env, loop, wait, elapsed, node, callback, api>>

\* strconv.ParseInt of the empty string is 0.
Limit == IF env = "limit" THEN WallTime ELSE 0

\* if os.Getenv("JIRIAF_WALLTIME") != "0"
HasLoop == env # "0"

AliveInit ==
  /\ env \in {"0", "unset", "limit"}
  /\ loop = "off"
  /\ wait = 0 /\ elapsed = 0
  /\ node = FALSE
  /\ callback = "waiting"
  /\ api = FALSE

-----------------------------------------------------------------------------
\* The Ready condition is that of nodeConditions.
ConfigureNode ==
  /\ loop = "off"
  /\ node' = FALSE
  /\ loop' = IF HasLoop THEN "starting" ELSE "none"
  /\ UNCHANGED <<env, wait, elapsed, callback, api>>

\* The time that aliveTimeLoop measures.
Tick ==
  /\ loop \in {"sleeping", "expired"}
  /\ elapsed' = IF elapsed < MaxElapsed THEN elapsed + 1 ELSE elapsed
  /\ wait' = IF wait > 0 THEN wait - 1 ELSE 0
  /\ UNCHANGED <<env, loop, node, callback, api>>

StartLoop ==
  /\ loop = "starting"
  /\ loop' = "sleeping" /\ wait' = Period
  /\ UNCHANGED <<env, elapsed, node, callback, api>>

\* Mutant of Expired: the node is out of time one period too early.
Expired_Early(left) == left <= Period

Expired(left) == left <= 0

\* notifyNodeAliveTime, as far as the labels; wallTimeInt - elapsedTime may
\* be below zero.
Fire ==
  /\ loop = "sleeping" /\ wait = 0
  /\ loop' = IF Expired(Limit - elapsed) THEN "expired" ELSE "sleeping"
  /\ wait' = Period
  /\ UNCHANGED <<env, elapsed, node, callback, api>>

\* Mutant of SetNotReady: the loop ends when the time is over.
SetNotReady_Once ==
  /\ loop = "expired"
  /\ node' = FALSE
  /\ loop' = "ended"
  /\ UNCHANGED <<env, wait, elapsed, callback, api>>

\* The condition at index 0 is Ready; the loop goes on.
SetNotReady ==
  /\ loop = "expired"
  /\ node' = FALSE
  /\ loop' = "sleeping"
  /\ UNCHANGED <<env, wait, elapsed, callback, api>>

\* case <-ctx.Done(): the context of the command, given to ConfigureNode.
StopLoop ==
  /\ loop = "sleeping"
  /\ loop' = "stopped"
  /\ UNCHANGED <<env, wait, elapsed, node, callback, api>>

-----------------------------------------------------------------------------
\* The node controller registers a copy of the node; NewNode makes the
\* controller after newProvider has configured the node.
Register ==
  /\ callback = "waiting" /\ loop # "off"
  /\ api' = node /\ callback' = "registered"
  /\ UNCHANGED <<env, loop, wait, elapsed, node>>

\* setNodeReady, whatever the loop has done before.
SetNodeReady ==
  /\ callback = "registered"
  /\ node' = TRUE
  /\ callback' = "updating"
  /\ UNCHANGED <<env, loop, wait, elapsed, api>>

\* UpdateStatus hands the pointer to the node controller.
UpdateStatus ==
  /\ callback = "updating"
  /\ callback' = "shared"
  /\ UNCHANGED <<env, loop, wait, elapsed, node, api>>

\* The node controller's update, the first and then again and again, at any
\* point of the loop.
PushStatus ==
  /\ callback \in {"shared", "reported"}
  /\ api' = node /\ callback' = "reported"
  /\ UNCHANGED <<env, loop, wait, elapsed, node>>

Loop == StartLoop \/ Fire \/ SetNotReady

AliveNext ==
  \/ ConfigureNode \/ Tick \/ Loop \/ StopLoop
  \/ Register \/ SetNodeReady \/ UpdateStatus \/ PushStatus

AliveSpec == AliveInit /\ [][AliveNext]_AliveVars

-----------------------------------------------------------------------------
(* Properties.                                                             *)

\* Every variable has its type; the loop ends only with its context.
AliveTypeOK ==
  /\ env \in {"0", "unset", "limit"}
  /\ loop \in {"off", "none", "starting", "sleeping", "expired", "stopped"}
  /\ wait \in 0 .. Period /\ elapsed \in 0 .. MaxElapsed
  /\ callback \in {"waiting", "registered", "updating", "shared", "reported"}
  /\ node \in BOOLEAN /\ api \in BOOLEAN

\* README.md:36: "If it's set to 0, there is no time limit"; a node that has
\* been set ready is not reported as not ready before its wall time is over,
\* and never if the wall time is "0".
NotReadyOnlyAfterLimit ==
  callback = "reported" /\ ~api => env # "0" /\ elapsed >= Limit
=============================================================================
