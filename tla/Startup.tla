------------------------------- MODULE Startup -------------------------------
(***************************************************************************)
(* From the command line to the node: main.go sets the options and hands   *)
(* them to cobra, runRootCommand (commands/root/root.go) checks them, and  *)
(* NewNode (nodeutil/controller.go) applies its options one after another, *)
(* makes the provider and puts the node together; then tracing is set up   *)
(* and Run opens the port.  Each step may end the program, and what an     *)
(* earlier step has set, a later one may read, copy or set again.          *)
(*                                                                         *)
(* An input is [env, line]: the environment (with the files and the        *)
(* cluster around the program) and the command line.                       *)
(***************************************************************************)
EXTENDS CommandOptions

CONSTANTS
  Inputs,          \* the inputs of the program
  EphemeralPorts   \* the ports that the system chooses from for port 0

\* The paths of an input that may name a kubeconfig file.
KubeConfigPaths(i) ==
  ({i.env.home, i.env.kubeconfig} \cup
     {i.line.given[f] : f \in {"kubeconfig"} \cap DOMAIN i.line.given}) \ {"", Unset}

\* Unset and the other words that stand for what is not said, or not a value,
\* are not values that an input has.
ASSUME InputsAssumption ==
  \A i \in Inputs :
    /\ i.env.portText \in {"", "number", "word"} /\ i.env.port \in Int
    /\ i.env.home # Unset
    /\ \A p \in KubeConfigPaths(i) : i.env.files[p] \in FileStates
    /\ i.env.insecure \in {"", "off", "on", "perhaps"}
    /\ i.line.logLevel \in {"", "info", "loud"} /\ i.line.args \in Seq(STRING)
    /\ DOMAIN i.line.given \subseteq Flags
    /\ \A f \in {"kubeconfig", "taint", "provider"} \cap DOMAIN i.line.given :
         i.line.given[f] # Unset
    /\ "exporters" \in DOMAIN i.line.given => i.line.given.exporters \in Seq(STRING)

ASSUME PortsAssumption == EphemeralPorts \subseteq 1..MaxPort

VARIABLES
  in,       \* the input; never changes
  at,       \* the next step, or how the program ended
  opts,     \* opts, then the copy of it that runRootCommand has
  optsErr,  \* did SetDefaultOpts fail
  taint,    \* the taint of runRootCommand, or NoTaint
  client,   \* its clientSet
  applied,  \* how many of NewNode's options are applied
  cfg,      \* the NodeConfig of NewNode, with its NodeSpec as cfg.node
  tracing,  \* the exporters registered and the sampler set
  opened    \* the port that the listener has, or 0

vars == <<in, at, opts, optsErr, taint, client, applied, cfg, tracing, opened>>

e == in.env
line == in.line

NoTaint == [key |-> "", value |-> "", effect |-> ""]
NoTLS == [loaded |-> FALSE, verify |-> FALSE]

NewNodeSpec(name) ==
  [ name |-> name, taint |-> NoTaint, os |-> "", arch |-> "", daemonPort |-> 0,
    address |-> "", version |-> "" ]

\* A handler that does no authentication, in front of the mux.
Mux == [auth |-> "none", api |-> "none", name |-> "", next |-> "mux"]
Router == [Mux EXCEPT !.next = "router"]

NewNodeConfig(name, default) ==
  [ client |-> default, handler |-> [Mux EXCEPT !.next = "nil"], addr |-> DefaultListenPort,
    workers |-> 0, timeout |-> 0, tls |-> NoTLS, attacher |-> FALSE,
    attached |-> FALSE, node |-> NewNodeSpec(name) ]

Init ==
  /\ in \in Inputs
  /\ at = "main" /\ opts = ZeroOpts /\ optsErr = FALSE
  /\ taint = NoTaint /\ client = "none" /\ applied = 0
  /\ cfg = NewNodeConfig("", "none")
  /\ tracing = [exporters |-> <<>>, sampler |-> "default", percent |-> 0]
  /\ opened = 0

\* The step ends the program, or goes on to the next one.
ContinueIf(ok, next) == at' = IF ok THEN next ELSE "failed"

-----------------------------------------------------------------------------
(* main and cobra.                                                         *)

Registered == {"mock"}   \* registerMock

SetDefaults ==
  /\ at = "main"
  /\ LET set == SetDefaultOpts(opts, e) IN
       /\ opts' = [set.opts EXCEPT !.version = "built"]
       /\ optsErr' = set.err
  /\ at' = "line"
  /\ UNCHANGED <<in, taint, client, applied, cfg, tracing, opened>>

\* Only the root command has the flags of installFlags.
LineIsWrong ==
  CASE line.cmd = ""          -> line.tag # "none" /\ SetTag(opts.tags, line.tag) = "error"
    [] line.cmd = "version"   -> line.tag # "none" \/ DOMAIN line.given # {}
    [] line.cmd = "providers" -> line.tag # "none" \/ DOMAIN line.given # {}
                                 \/ Len(line.args) > 2
    [] OTHER                  -> TRUE

LinePanics ==
  line.cmd = "" /\ line.tag # "none" /\ SetTag(opts.tags, line.tag) = "panic"

ParseLine ==
  /\ at = "line"
  /\ at' = IF LineIsWrong THEN "failed"
           ELSE IF LinePanics THEN "panicked" ELSE "persistentPreRun"
  /\ opts' = IF line.cmd = "" THEN ParseFlags(opts, line.given) ELSE opts
  /\ UNCHANGED <<in, optsErr, taint, client, applied, cfg, tracing, opened>>

PersistentPreRun ==
  /\ at = "persistentPreRun"
  /\ ContinueIf(line.logLevel \in {"", "info"},
                IF line.cmd = "" THEN "preRun" ELSE "subcommand")
  /\ UNCHANGED <<in, opts, optsErr, taint, client, applied, cfg, tracing, opened>>

\* Mutant of PreRun: the error of the defaults is only logged.
PreRun_Ignored ==
  /\ at = "preRun"
  /\ at' = "checks"
  /\ UNCHANGED <<in, opts, optsErr, taint, client, applied, cfg, tracing, opened>>

PreRun ==
  /\ at = "preRun"
  /\ ContinueIf(~optsErr, "checks")
  /\ UNCHANGED <<in, opts, optsErr, taint, client, applied, cfg, tracing, opened>>

\* version, and providers with none, one or two names.
RunSubcommand ==
  /\ at = "subcommand"
  /\ at' = IF line.cmd = "providers" /\ Len(line.args) = 1
                /\ line.args[1] \notin Registered
             THEN "failed" ELSE "printed"
  /\ UNCHANGED <<in, opts, optsErr, taint, client, applied, cfg, tracing, opened>>

-----------------------------------------------------------------------------
(* runRootCommand before NewNode.                                          *)

ValidOperatingSystems == {"linux", "windows"}

CheckOptions ==
  /\ at = "checks"
  /\ LET t == getTaint(opts, e)
         ok == /\ opts.os \in ValidOperatingSystems
               /\ opts.workers # 0
               /\ opts.disableTaint \/ ~t.err
     IN  /\ ContinueIf(ok, "client")
         /\ taint' = IF ok /\ ~opts.disableTaint THEN t.taint ELSE taint
  /\ UNCHANGED <<in, opts, optsErr, client, applied, cfg, tracing, opened>>

MakeClient ==
  /\ at = "client"
  /\ client' = ClientsetFromEnv(opts.kubeconfig, e)
  /\ ContinueIf(client' # "error", "newNode")
  /\ UNCHANGED <<in, opts, optsErr, taint, applied, cfg, tracing, opened>>

-----------------------------------------------------------------------------
(* NewNode.                                                                *)

StartNewNode ==
  /\ at = "newNode"
  /\ cfg' = NewNodeConfig(opts.nodename, DefaultClientFromEnv(e))
  /\ at' = "options"
  /\ UNCHANGED <<in, opts, optsErr, taint, client, applied, tracing, opened>>

\* Mutant of NodeOptions: the handlers are made before the client is given.
NodeOptions_AuthFirst == <<"base", "auth", "client", "tls", "routes">>

NodeOptions == <<"base", "client", "auth", "tls", "routes">>

setBase(c) ==
  LET api == getAPIConfig(opts, e) IN
  [ c EXCEPT !.handler = Mux, !.addr = api.addr, !.timeout = api.timeout,
             !.workers = opts.workers,
             !.node.taint = taint, !.node.os = opts.os, !.node.arch = "GOARCH" ]

WithClient(c) == [c EXCEPT !.client = client]

setAuth(c) ==
  IF getAPIConfig(opts, e).ca = ""
  THEN [c EXCEPT !.handler.auth = "anonymous"]
  ELSE [c EXCEPT !.handler.auth = "webhook", !.handler.api = c.client,
                 !.handler.name = opts.nodename]

WithTLSConfig(c) ==
  [c EXCEPT !.tls = [loaded |-> TRUE, verify |-> getAPIConfig(opts, e).ca # ""]]

AttachProviderRoutes(c) == [c EXCEPT !.attacher = TRUE]

\* The CA file that is named is read by the authentication and, again, for
\* TLS, which also needs the key pair.
OptionFails(o) ==
  LET api == getAPIConfig(opts, e)
      badCA == api.ca # "" /\ FileAt(e, api.ca) # "good"
  IN  \/ o = "auth" /\ badCA
      \/ o = "tls" /\ (FileAt(e, api.cert) # "good" \/ FileAt(e, api.key) # "good" \/ badCA)

ApplyOption ==
  /\ at = "options" /\ applied < Len(NodeOptions)
  /\ LET o == NodeOptions[applied + 1] IN
       /\ ContinueIf(~OptionFails(o),
                     IF applied + 1 = Len(NodeOptions) THEN "provider" ELSE "options")
       /\ cfg' = IF OptionFails(o) THEN cfg
                 ELSE CASE o = "base"   -> setBase(cfg)
                        [] o = "client" -> WithClient(cfg)
                        [] o = "auth"   -> setAuth(cfg)
                        [] o = "tls"    -> WithTLSConfig(cfg)
                        [] o = "routes" -> AttachProviderRoutes(cfg)
  /\ applied' = applied + 1
  /\ UNCHANGED <<in, opts, optsErr, taint, client, tracing, opened>>

\* e.entries says of each node in the provider's file whether its quantities
\* are valid; a node that the file leaves out has none, which is not valid.
loadConfig(path, name) ==
  \/ path = ""
  \/ FileAt(e, path) = "good" /\ name \in DOMAIN e.entries /\ e.entries[name]

\* The status is the provider's; the spec, with its taints, stays.
ConfigureNode(n) ==
  [ n EXCEPT !.os = IF opts.os = "" THEN "linux" ELSE opts.os, !.arch = "amd64",
             !.daemonPort = opts.port, !.address = Getenv(e.podIP) ]

\* newProvider.
MakeProvider ==
  /\ at = "provider"
  /\ LET ok == opts.provider \in Registered /\ loadConfig(opts.config, opts.nodename)
     IN  /\ ContinueIf(ok, "controllers")
         /\ cfg' = IF ok THEN [cfg EXCEPT !.node = [ConfigureNode(@) EXCEPT !.version = opts.version]]
                   ELSE cfg
  /\ UNCHANGED <<in, opts, optsErr, taint, client, applied, tracing, opened>>

\* The routes are attached to the mux, the controllers are made, and the
\* router takes the place of the handler, which the options have set: what is
\* served is never behind setAuth's chain.
FinishNode ==
  /\ at = "controllers"
  /\ cfg' = [cfg EXCEPT !.attached = cfg.attacher, !.handler = Router]
  /\ at' = "tracing"
  /\ UNCHANGED <<in, opts, optsErr, taint, client, applied, tracing, opened>>

-----------------------------------------------------------------------------
(* setupTracing.                                                           *)

Reserved == {"operatingSystem", "provider", "nodeName"}

\* e.jaeger and e.ocagent: is an endpoint of the exporter set.
NewJaegerExporter == e.jaeger
NewOCAgentExporter == e.ocagent /\ e.insecure \in {"", "off", "on"}

\* zpages only logs what goes wrong.
GetTracingExporter(x) ==
  CASE x = "zpages"  -> TRUE
    [] x = "jaeger"  -> NewJaegerExporter
    [] x = "ocagent" -> NewOCAgentExporter
    [] OTHER         -> FALSE

BadExporters == {i \in DOMAIN opts.exporters : ~GetTracingExporter(opts.exporters[i])}

\* Those before the first that cannot be made.
RegisteredExporters ==
  LET n == IF BadExporters = {} THEN Len(opts.exporters)
           ELSE (CHOOSE i \in BadExporters : \A j \in BadExporters : i <= j) - 1
  IN  SelectSeq(SubSeq(opts.exporters, 1, n), LAMBDA x : x # "zpages")

\* A number out of range is wrapped as an error with no cause, which is none.
Sampler(rate, percent) ==
  CASE rate \in {"always", "never"}                      -> rate
    [] rate = "number" /\ 0 <= percent /\ percent <= 100 -> "probability"
    [] rate = "word"                                     -> "error"
    [] OTHER                                             -> "default"

TracingSampler ==
  IF opts.exporters = <<>> THEN "default" ELSE Sampler(opts.sampleRate, opts.percent)

ReservedTag == opts.tags.keys \cap Reserved # {}

\* The sampler is set last, and a step that fails leaves those before it.
SetupTracing ==
  /\ at = "tracing"
  /\ ContinueIf(~ReservedTag /\ BadExporters = {} /\ TracingSampler # "error", "listen")
  /\ tracing' =
       IF ReservedTag THEN tracing
       ELSE IF BadExporters # {} \/ TracingSampler \in {"default", "error"}
       THEN [tracing EXCEPT !.exporters = RegisteredExporters]
       ELSE [ exporters |-> RegisteredExporters, sampler |-> TracingSampler,
              percent |-> IF TracingSampler = "probability" THEN opts.percent ELSE 0 ]
  /\ UNCHANGED <<in, opts, optsErr, taint, client, applied, cfg, opened>>

-----------------------------------------------------------------------------
(* runHTTP, in the goroutine of Run.                                       *)

\* Mutant of Listen: the command itself returns the error of the listener.
Listen_Returns ==
  /\ at = "listen"
  /\ ContinueIf(cfg.addr \in 0..MaxPort, "running")
  /\ opened' = IF cfg.addr \in 0..MaxPort THEN cfg.addr ELSE opened
  /\ UNCHANGED <<in, opts, optsErr, taint, client, applied, cfg, tracing>>

\* For port 0 the system chooses one, which nothing reads back.  A port may be
\* out of range, another program's or not allowed.
Listen ==
  /\ at = "listen"
  /\ \/ /\ cfg.addr \in 0..MaxPort /\ at' = "running"
        /\ IF cfg.addr = 0 THEN opened' \in EphemeralPorts ELSE opened' = cfg.addr
     \/ at' = "noPort" /\ opened' = opened
  /\ UNCHANGED <<in, opts, optsErr, taint, client, applied, cfg, tracing>>

Next ==
  \/ SetDefaults \/ ParseLine \/ PersistentPreRun \/ PreRun \/ RunSubcommand
  \/ CheckOptions \/ MakeClient \/ StartNewNode \/ ApplyOption \/ MakeProvider
  \/ FinishNode \/ SetupTracing \/ Listen

Spec == Init /\ [][Next]_vars

-----------------------------------------------------------------------------
(* What the input asks for, said without the steps above.                  *)

Asked(field, default) ==
  IF field \in DOMAIN line.given THEN line.given[field] ELSE default

FirstSet(values) ==
  values[CHOOSE i \in DOMAIN values :
           values[i] # Unset /\ \A j \in 1..(i - 1) : values[j] = Unset]

NonEmpty(v) == IF v = "" THEN Unset ELSE v

NodeNameAsked == Asked("nodename", FirstSet(<<e.nodename, "virtual-kubelet">>))

PortAsked == IF e.portText = "" THEN DefaultListenPort ELSE e.port

TaintAsked ==
  IF Asked("disableTaint", FALSE) THEN NoTaint
  ELSE [ key    |-> FirstSet(<<e.taintKey, NonEmpty(Asked("taint", "")), DefaultTaintKey>>),
         value  |-> FirstSet(<<e.taintValue, Asked("provider", "")>>),
         effect |-> FirstSet(<<e.taintEffect, "NoSchedule">>) ]

\* The API server of the kubeconfig file; that of the cluster, if no file is
\* named or the one that is named does not exist.
ServerAsked ==
  LET path == Asked("kubeconfig", FirstSet(<<NonEmpty(e.kubeconfig), e.home>>))
  IN  CASE path # "" /\ e.files[path] = "good"               -> path
        [] path # "" /\ e.files[path] \in {"bad", "unreadable"} -> "error"
        [] OTHER -> IF e.inCluster THEN "cluster" ELSE "error"

IsGood(path) == path # "" /\ e.files[path] = "good"

LineValid ==
  /\ line.logLevel # "loud"
  /\ line.cmd \in {"", "version", "providers"} /\ line.tag = "none"
  /\ line.cmd # "" => DOMAIN line.given = {}
  /\ line.cmd = "providers" => line.args \in {<<>>, <<"mock">>} \/ Len(line.args) = 2

TracingValid ==
  LET asked == Asked("exporters", <<>>) IN
  \A i \in DOMAIN asked :
     /\ asked[i] \in {"zpages", "jaeger", "ocagent"}
     /\ asked[i] = "jaeger" => e.jaeger
     /\ asked[i] = "ocagent" => e.ocagent /\ e.insecure # "perhaps"
     /\ Asked("sampleRate", "") # "word"

EnvironmentValid ==
  /\ e.portText # "word" /\ PortAsked < HalfInt32
  /\ Asked("os", "linux") \in {"linux", "windows"} /\ Asked("workers", 10) # 0
  /\ Asked("disableTaint", FALSE) \/ TaintAsked.effect \in Effects
  /\ ServerAsked # "error"
  /\ Asked("provider", "") = "mock"
  /\ \/ Asked("config", "") = ""
     \/ IsGood(Asked("config", "")) /\ NodeNameAsked \in {n \in DOMAIN e.entries : e.entries[n]}
  /\ IsGood(Getenv(e.cert)) /\ IsGood(Getenv(e.key))
  /\ Getenv(e.ca) # "" => IsGood(e.ca)
  /\ TracingValid

-----------------------------------------------------------------------------
(* Properties.                                                             *)

Ended == {"failed", "panicked", "printed", "running", "noPort"}

\* Every variable has a value of its type.
StartupTypeOK ==
  /\ optsErr \in BOOLEAN
  /\ at \in {"main", "line", "persistentPreRun", "preRun", "subcommand", "checks",
             "client", "newNode", "options", "provider", "controllers", "tracing",
             "listen"} \cup Ended
  /\ DOMAIN opts = DOMAIN ZeroOpts /\ opts.port \in (-HalfInt32)..(HalfInt32 - 1)
  /\ applied \in 0..5 /\ opened \in 0..MaxPort
  /\ DOMAIN cfg = DOMAIN NewNodeConfig("", "none")
  /\ DOMAIN cfg.handler = DOMAIN Mux /\ DOMAIN cfg.node = DOMAIN NewNodeSpec("")

\* The program starts exactly when all it is asked for is valid, of whatever
\* step looks at it: a wrong option is never lost between SetDefaultOpts, the
\* flags, runRootCommand, NewNode and setupTracing, and what only the root
\* command uses does not stop `version` and `providers`.
StartsIffValid ==
  /\ at \in {"listen", "running", "noPort"} => line.cmd = "" /\ LineValid /\ EnvironmentValid
  /\ at = "printed" => line.cmd # "" /\ LineValid
  /\ at = "failed" => ~(LineValid /\ (line.cmd = "" => EnvironmentValid))

\* The node that is registered is the one that was asked for, whichever of
\* environment, flag and default goes first: the flag for the name, which the
\* defaults set before it is parsed, the environment for the taint, which is
\* read after it.  ConfigureNode, which replaces the status, leaves the taint
\* and agrees on the rest.
NodeAsAsked ==
  at \in {"tracing", "listen", "running"} =>
    /\ cfg.node.name = NodeNameAsked
    /\ cfg.node.taint = TaintAsked
    /\ cfg.node.os = Asked("os", "linux")
    /\ cfg.node.version = "built"
    /\ cfg.node.address = Getenv(e.podIP)
    /\ cfg.workers = Asked("workers", 10)

\* The node advertises the port that the environment names, if an int32 holds
\* it, and the server opens the port that the node advertises.  Of port 0 this
\* says only that it is advertised: the listener then has a port that the
\* system has chosen, and the node goes on to advertise 0.
PortsAgree ==
  at = "running" =>
    /\ cfg.node.daemonPort = IF cfg.addr = 0 THEN 0 ELSE opened
    /\ PortAsked \in (-HalfInt32)..(HalfInt32 - 1) => cfg.node.daemonPort = PortAsked

\* One API server: the controllers speak to the one asked for, and so does the
\* webhook of the handler that NewNode's options make, for the node of that
\* name.  The options are applied in an order, and each reads what is set.
\* The half about the handler speaks of the time between setAuth and
\* FinishNode only, which puts the router in its place.
OneAPIServer ==
  /\ cfg.handler.auth = "webhook" =>
       cfg.handler.api = ServerAsked /\ cfg.handler.name = cfg.node.name
  /\ at \in {"provider", "controllers", "tracing", "listen", "running"} =>
       cfg.client = ServerAsked

\* The parts of the life of the node that are set up here, for NodeLifecycle:
\* the command fails before it starts Run, or Run has the port or ends.
Life == INSTANCE NodeLifecycle WITH
  limit <- FALSE, sig <- FALSE, cmdCancel <- (at = "failed"),
  cmd <- CASE at = "failed"                            -> "returned"
           [] at \in {"listen", "running", "noPort"} -> "waiting"
           [] OTHER                                    -> "configuring",
  result <- IF at = "failed" THEN "error" ELSE "none",
  run <- CASE at = "listen"  -> "servingHTTP"
           [] at = "running" -> "waitingPod"
           [] at = "noPort"  -> "finishing"
           [] OTHER          -> "off",
  ret <- IF at = "noPort" THEN "error" ELSE "none",
  http <- IF at = "running" THEN "on" ELSE "off",
  ctl <- [k \in {"pod", "node"} |->
            IF at = "running" /\ k = "pod" THEN "starting" ELSE "off"],
  ctlErr <- [k \in {"pod", "node"} |-> "nil"],
  runCancel <- FALSE, nErr <- "nil", ready <- FALSE, done <- FALSE,
  marked <- FALSE

\* The steps from the command line to the port are those that the life cycle
\* takes at once: a step that fails returns from the command before Run is
\* started, and only an error of the listener ends in Run.
StartsLife == Life!Spec
=============================================================================
