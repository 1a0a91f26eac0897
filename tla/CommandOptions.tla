---------------------------- MODULE CommandOptions ----------------------------
(***************************************************************************)
(* The options of the command: their defaults (commands/root/opts.go), the *)
(* command line (flag.go), the taint of the node (node.go), the settings   *)
(* of its HTTP server (http.go) and its client (nodeutil/client.go).       *)
(*                                                                         *)
(* An environment e gives each variable its value, "" or Unset; a file is  *)
(* known by its path, and e.files says what it holds.  The options that    *)
(* nothing below tells apart are one: resync for those that are set before *)
(* the port, timeout for those set after it.                               *)
(***************************************************************************)
EXTENDS Integers, Sequences

CONSTANT HalfInt32  \* 2^31, half the range of an int32

MaxPort == 65535

ASSUME WidthAssumption == HalfInt32 \in Nat /\ HalfInt32 > MaxPort

Unset == "unset"

Getenv(v) == IF v = Unset THEN "" ELSE v

\* A variable that is set, if only to "", takes the place of the default.
getEnv(v, default) == IF v = Unset THEN default ELSE v

-----------------------------------------------------------------------------
(* SetDefaultOpts.                                                         *)

ZeroOpts ==
  [ os |-> "", nodename |-> "", resync |-> 0, workers |-> 0,
    port |-> 0, taint |-> "", effect |-> "", kubeconfig |-> "", timeout |-> 0,
    provider |-> "", config |-> "", disableTaint |-> FALSE,
    exporters |-> <<>>, sampleRate |-> "", percent |-> 0, version |-> "",
    tags |-> [nil |-> TRUE, keys |-> {}] ]

DefaultTaintKey == "virtual-kubelet.io/provider"
DefaultListenPort == 10250

BadPort(e) ==
  \/ e.portText = "word"
  \/ e.portText = "number" /\ e.port > HalfInt32 - 1

\* Mutants of Int32: the port keeps the width of an int; a privileged port is
\* replaced.
Int32_Wide(p) == p
Int32_Raised(p) == IF p < 1024 THEN 1024 ELSE p

Int32(p) == ((p + HalfInt32) % (2 * HalfInt32)) - HalfInt32

ListenPort(e) == IF e.portText = "" THEN DefaultListenPort ELSE Int32(e.port)

\* KUBECONFIG, then .kube/config in the home directory, if there is one.
KubeConfigPath(e) ==
  IF Getenv(e.kubeconfig) # "" THEN e.kubeconfig ELSE e.home

Defaults(e) ==
  [ ZeroOpts EXCEPT !.os = "linux", !.resync = 60, !.workers = 10,
                    !.nodename = getEnv(e.nodename, "virtual-kubelet"),
                    !.port = ListenPort(e), !.taint = DefaultTaintKey,
                    !.effect = "NoSchedule", !.timeout = 30,
                    !.kubeconfig = KubeConfigPath(e) ]

BeforePort == {"os", "nodename", "resync", "workers"}

FillIn(c, fields, d) ==
  [x \in DOMAIN c |-> IF x \in fields /\ c[x] = ZeroOpts[x] THEN d[x] ELSE c[x]]

\* An error of the port leaves the fields after it as they are.
SetDefaultOpts(c, e) ==
  LET early == FillIn(c, BeforePort, Defaults(e)) IN
  IF c.port = 0 /\ BadPort(e)
  THEN [opts |-> early, err |-> TRUE]
  ELSE [opts |-> FillIn(early, DOMAIN c, Defaults(e)), err |-> FALSE]

-----------------------------------------------------------------------------
(* The command line.                                                       *)

\* mapVar.Set; a nil map has no key and takes none.
SetTag(tags, t) ==
  IF t = "malformed" \/ t \in tags.keys THEN "error"
  ELSE IF tags.nil THEN "panic" ELSE "ok"

\* What installFlags has a flag for.
Flags == {"os", "nodename", "resync", "workers", "taint", "kubeconfig", "timeout",
          "provider", "config", "disableTaint", "exporters", "sampleRate", "percent"}

\* The flags that are given take the place of what the options have.
ParseFlags(c, given) ==
  [x \in DOMAIN c |-> IF x \in DOMAIN given THEN given[x] ELSE c[x]]

-----------------------------------------------------------------------------
(* getTaint and getAPIConfig.                                              *)

\* Mutant of TaintOf: the flag goes before the environment.
TaintOf_FlagFirst(c, e) ==
  [ key    |-> IF c.taint # DefaultTaintKey THEN c.taint
               ELSE getEnv(e.taintKey, c.taint),
    value  |-> getEnv(e.taintValue, c.provider),
    effect |-> getEnv(e.taintEffect, IF c.effect = "" THEN "NoSchedule" ELSE c.effect) ]

TaintOf(c, e) ==
  [ key    |-> getEnv(e.taintKey, IF c.taint = "" THEN DefaultTaintKey ELSE c.taint),
    value  |-> getEnv(e.taintValue, c.provider),
    effect |-> getEnv(e.taintEffect, IF c.effect = "" THEN "NoSchedule" ELSE c.effect) ]

Effects == {"NoSchedule", "NoExecute", "PreferNoSchedule"}

getTaint(c, e) == [taint |-> TaintOf(c, e), err |-> TaintOf(c, e).effect \notin Effects]

getAPIConfig(c, e) ==
  [ cert |-> Getenv(e.cert), key |-> Getenv(e.key), ca |-> Getenv(e.ca),
    addr |-> c.port, timeout |-> c.timeout ]

-----------------------------------------------------------------------------
(* ClientsetFromEnv.                                                       *)

\* "bad": it does not parse.
FileStates == {"absent", "unreadable", "bad", "good"}

FileAt(e, path) == IF path = "" THEN "absent" ELSE e.files[path]

\* The API server that a client speaks to: the one of a kubeconfig file, or
\* that of the cluster the program runs in.
ClientsetFromEnv(path, e) ==
  CASE FileAt(e, path) = "good"   -> path
    [] FileAt(e, path) = "absent" -> IF e.inCluster THEN "cluster" ELSE "error"
    [] OTHER                      -> "error"

\* NewNode's own attempt: the interface holds a nil pointer if it fails.
DefaultClientFromEnv(e) ==
  LET c == ClientsetFromEnv(Getenv(e.kubeconfig), e) IN
  IF c = "error" THEN "nilpointer" ELSE c
=============================================================================
