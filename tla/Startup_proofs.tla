---------------------------- MODULE Startup_proofs ----------------------------
(* Proofs about Startup and the options it is built from.                  *)
EXTENDS Startup, TLAPS

-----------------------------------------------------------------------------
(* SetDefaultOpts.                                                         *)

\* What FillIn returns, field by field.
LEMMA FillInField ==
  ASSUME NEW c, NEW fields, NEW d, NEW x \in DOMAIN c
  PROVE  /\ DOMAIN FillIn(c, fields, d) = DOMAIN c
         /\ FillIn(c, fields, d)[x] =
              IF x \in fields /\ c[x] = ZeroOpts[x] THEN d[x] ELSE c[x]
  BY DEF FillIn

\* SetDefaultOpts keeps its comment's word: a field that is already set is
\* not modified, whatever the environment and whether it fails or not.
THEOREM SetFieldsAreKept ==
  ASSUME NEW c, NEW env, NEW x \in DOMAIN c, c[x] # ZeroOpts[x]
  PROVE  SetDefaultOpts(c, env).opts[x] = c[x]
  <1> DEFINE early == FillIn(c, BeforePort, Defaults(env))
  <1>1. DOMAIN early = DOMAIN c /\ early[x] = c[x]
    BY FillInField
  <1>2. FillIn(early, DOMAIN c, Defaults(env))[x] = c[x]
    BY <1>1, FillInField
  <1>. HIDE DEF early
  <1>3. QED
    BY <1>1, <1>2 DEF SetDefaultOpts, early

\* Filling in twice from the same defaults is filling in once.
LEMMA FillInTwice ==
  ASSUME NEW c, NEW fields, NEW d
  PROVE  FillIn(FillIn(c, fields, d), fields, d) = FillIn(c, fields, d)
  BY DEF FillIn

\* Defaults that are set already are found set: a second call changes nothing
\* and fails like the first.
THEOREM SetDefaultsTwice ==
  ASSUME NEW c, NEW env, "port" \in DOMAIN c
  PROVE  SetDefaultOpts(SetDefaultOpts(c, env).opts, env) = SetDefaultOpts(c, env)
  <1> DEFINE d == Defaults(env)
             early == FillIn(c, BeforePort, d)
             all == FillIn(early, DOMAIN c, d)
  <1>1. "port" \notin BeforePort /\ ZeroOpts.port = 0
    BY DEF BeforePort, ZeroOpts
  <1>2. /\ DOMAIN early = DOMAIN c /\ early.port = c.port
        /\ FillIn(early, BeforePort, d) = early
    BY <1>1, FillInField, FillInTwice
  <1>3. DOMAIN all = DOMAIN c /\ (c.port # 0 => all.port = c.port)
    BY <1>1, <1>2, FillInField
  <1>4. ASSUME NEW x \in DOMAIN c, all[x] = ZeroOpts[x] PROVE all[x] = d[x]
    BY <1>2, <1>4, FillInField
  <1>5. FillIn(all, BeforePort, d) = all /\ FillIn(all, DOMAIN all, d) = all
    <2>1. all = [x \in DOMAIN all |-> all[x]]
      BY DEF FillIn
    <2>. HIDE DEF all
    <2>2. QED
      BY <1>3, <1>4, <2>1 DEF FillIn
  <1>6. CASE c.port = 0 /\ BadPort(env)
    <2>1. SetDefaultOpts(c, env) = [opts |-> early, err |-> TRUE]
      BY <1>6 DEF SetDefaultOpts
    <2>. HIDE DEF early
    <2>2. SetDefaultOpts(early, env) = [opts |-> early, err |-> TRUE]
      BY <1>2, <1>6 DEF SetDefaultOpts
    <2>3. QED
      BY <2>1, <2>2
  <1>7. CASE ~(c.port = 0 /\ BadPort(env))
    <2>1. SetDefaultOpts(c, env) = [opts |-> all, err |-> FALSE]
      BY <1>7 DEF SetDefaultOpts
    <2>. HIDE DEF all
    <2>2. SetDefaultOpts(all, env) = [opts |-> all, err |-> FALSE]
      BY <1>3, <1>5, <1>7 DEF SetDefaultOpts
    <2>3. QED
      BY <2>1, <2>2
  <1>8. QED
    BY <1>6, <1>7

-----------------------------------------------------------------------------
(* The conversion of the port.                                             *)

LEMMA Int32InRange ==
  ASSUME NEW p \in Int
  PROVE  Int32(p) \in (-HalfInt32)..(HalfInt32 - 1)
  BY WidthAssumption, Z3 DEF Int32, MaxPort

LEMMA Int32Identity ==
  ASSUME NEW p \in (-HalfInt32)..(HalfInt32 - 1)
  PROVE  Int32(p) = p
  BY WidthAssumption DEF Int32, MaxPort

-----------------------------------------------------------------------------
(* What the environment and the flags come to.                             *)

\* The options that main starts with have the port and the kubeconfig of the
\* environment, or the error.
LEMMA DefaultPort ==
  ASSUME NEW env
  PROVE  LET set == SetDefaultOpts(ZeroOpts, env) IN
         /\ DOMAIN set.opts = DOMAIN ZeroOpts /\ set.err \in BOOLEAN
         /\ set.err => set.opts.port = 0
         /\ ~set.err => /\ ~BadPort(env) /\ set.opts.port = ListenPort(env)
                        /\ set.opts.kubeconfig = KubeConfigPath(env)
  <1> DEFINE d == Defaults(env)
             early == FillIn(ZeroOpts, BeforePort, d)
             all == FillIn(early, DOMAIN ZeroOpts, d)
  <1>1. /\ "port" \in DOMAIN ZeroOpts /\ "kubeconfig" \in DOMAIN ZeroOpts
        /\ "port" \notin BeforePort /\ "kubeconfig" \notin BeforePort
        /\ ZeroOpts.port = 0
    BY DEF ZeroOpts, BeforePort
  <1>2. d.port = ListenPort(env) /\ d.kubeconfig = KubeConfigPath(env)
    BY DEF Defaults, ZeroOpts
  <1>. HIDE DEF d
  <1>3. /\ DOMAIN early = DOMAIN ZeroOpts
        /\ early.port = ZeroOpts.port /\ early.kubeconfig = ZeroOpts.kubeconfig
    BY <1>1, FillInField
  <1>. HIDE DEF early
  <1>4. /\ DOMAIN all = DOMAIN ZeroOpts
        /\ all.port = d.port /\ all.kubeconfig = d.kubeconfig
    BY <1>1, <1>3, FillInField
  <1>. HIDE DEF all
  <1>5. SetDefaultOpts(ZeroOpts, env) =
          IF BadPort(env) THEN [opts |-> early, err |-> TRUE]
          ELSE [opts |-> all, err |-> FALSE]
    BY <1>1 DEF SetDefaultOpts, early, all, d
  <1>6. QED
    BY <1>1, <1>2, <1>3, <1>4, <1>5

LEMMA ListenPortInRange ==
  ASSUME NEW env, env.port \in Int
  PROVE  ListenPort(env) \in (-HalfInt32)..(HalfInt32 - 1)
  <1>1. CASE env.portText = ""
    <2>1. ListenPort(env) = DefaultListenPort
      BY <1>1 DEF ListenPort
    <2>2. QED
      BY <2>1, WidthAssumption DEF DefaultListenPort, MaxPort
  <1>2. CASE env.portText # ""
    <2>1. ListenPort(env) = Int32(env.port)
      BY <1>2 DEF ListenPort
    <2>2. QED
      BY <2>1, Int32InRange
  <1>3. QED
    BY <1>1, <1>2

\* The first of two values that is set.
LEMMA FirstOfTwo ==
  ASSUME NEW a, NEW b, b # Unset
  PROVE  FirstSet(<<a, b>>) = IF a = Unset THEN b ELSE a
  <1> DEFINE s == <<a, b>>
             First(i) == s[i] # Unset /\ \A j \in 1..(i - 1) : s[j] = Unset
  <1>1. DOMAIN s = {1, 2} /\ s[1] = a /\ s[2] = b
    OBVIOUS
  <1>. HIDE DEF s
  <1>2. CASE a = Unset
    <2>1. First(2) /\ \A i \in DOMAIN s : First(i) => i = 2
      BY <1>1, <1>2
    <2>2. (CHOOSE i \in DOMAIN s : First(i)) = 2
      BY <1>1, <2>1
    <2>3. QED
      BY <1>1, <1>2, <2>2 DEF FirstSet, s
  <1>3. CASE a # Unset
    <2>1. First(1) /\ \A i \in DOMAIN s : First(i) => i = 1
      BY <1>1, <1>3
    <2>2. (CHOOSE i \in DOMAIN s : First(i)) = 1
      BY <1>1, <2>1
    <2>3. QED
      BY <1>1, <1>3, <2>2 DEF FirstSet, s
  <1>4. QED
    BY <1>2, <1>3

\* ClientsetFromEnv finds the API server that the input asks for.
LEMMA ServerOfPath ==
  ASSUME in \in Inputs
  PROVE  ClientsetFromEnv(Asked("kubeconfig", KubeConfigPath(e)), e) = ServerAsked
  <1> DEFINE path == Asked("kubeconfig", KubeConfigPath(e))
  <1>1. KubeConfigPath(e) = FirstSet(<<NonEmpty(e.kubeconfig), e.home>>)
    <2>1. e.home # Unset
      BY InputsAssumption DEF e
    <2>2. QED
      BY <2>1, FirstOfTwo DEF KubeConfigPath, NonEmpty, Getenv, Unset
  <1>2. path = "" \/ e.files[path] \in FileStates
    <2>1. path = "" \/ path \in KubeConfigPaths(in)
      BY InputsAssumption DEF Asked, KubeConfigPath, KubeConfigPaths, Getenv, e, line, Unset
    <2>2. QED
      BY <2>1, InputsAssumption DEF e
  <1>3. QED
    BY <1>1, <1>2 DEF ClientsetFromEnv, FileAt, ServerAsked, FileStates

-----------------------------------------------------------------------------
(* The inductive invariant, in parts: the type, the options, the client and *)
(* the node that is being put together.                                     *)

Stages == {"main", "line", "persistentPreRun", "preRun", "subcommand", "checks",
           "client", "newNode", "options", "provider", "controllers", "tracing",
           "listen"}

AfterOptions == {"provider", "controllers", "tracing", "listen", "running", "noPort"}
InNewNode == {"options"} \cup AfterOptions
InRoot == {"checks", "client", "newNode"} \cup InNewNode

PathAsked == Asked("kubeconfig", KubeConfigPath(e))

OptsInv ==
  /\ at = "main" => opts = ZeroOpts
  /\ at \notin {"main", "failed"} /\ ~optsErr => opts.port = ListenPort(e)
  /\ at = "line" /\ ~optsErr => opts.kubeconfig = KubeConfigPath(e)
  /\ at \in {"persistentPreRun", "preRun"} \cup InRoot /\ line.cmd = "" /\ ~optsErr =>
       opts.kubeconfig = PathAsked
  /\ at \in {"preRun"} \cup InRoot => line.cmd = ""
  /\ at \in InRoot => ~optsErr

ClientInv == at \in {"newNode"} \cup InNewNode => client = ServerAsked

NodeInv ==
  /\ at \in Stages \ InNewNode => cfg.handler.auth = "none" /\ applied = 0
  /\ at = "options" => /\ cfg.node.name = opts.nodename
                       /\ applied < 2 => cfg.handler.auth = "none"
                       /\ applied > 0 => cfg.addr = opts.port
                       /\ applied > 1 => cfg.client = client
  /\ at \in AfterOptions => cfg.addr = opts.port /\ cfg.client = client
  /\ at \in AfterOptions \ {"provider"} => cfg.node.daemonPort = opts.port
  /\ at = "running" /\ cfg.addr # 0 => opened = cfg.addr
  /\ cfg.handler.auth = "webhook" =>
       cfg.handler.api = ServerAsked /\ cfg.handler.name = cfg.node.name

StartupInv == in \in Inputs /\ StartupTypeOK /\ OptsInv /\ ClientInv /\ NodeInv

\* What the NodeConfig that NewNode begins with is made of.
LEMMA NewConfig ==
  ASSUME NEW name, NEW default
  PROVE  LET c == NewNodeConfig(name, default) IN
         /\ DOMAIN c = DOMAIN NewNodeConfig("", "none")
         /\ DOMAIN c.handler = DOMAIN Mux /\ DOMAIN c.node = DOMAIN NewNodeSpec("")
         /\ c.handler.auth = "none" /\ c.node.name = name
  <1>1. NewNodeConfig(name, default).handler = [Mux EXCEPT !.next = "nil"]
    BY DEF NewNodeConfig
  <1>2. NewNodeConfig(name, default).node = NewNodeSpec(name)
    BY DEF NewNodeConfig
  <1>3. DOMAIN NewNodeConfig(name, default) = DOMAIN NewNodeConfig("", "none")
    BY DEF NewNodeConfig
  <1>4. DOMAIN NewNodeSpec(name) = DOMAIN NewNodeSpec("") /\ NewNodeSpec(name).name = name
    BY DEF NewNodeSpec
  <1>5. DOMAIN [Mux EXCEPT !.next = "nil"] = DOMAIN Mux /\ [Mux EXCEPT !.next = "nil"].auth = "none"
    BY DEF Mux
  <1>6. QED
    BY <1>1, <1>2, <1>3, <1>4, <1>5

LEMMA StartupInit == Init => StartupInv
  <1> SUFFICES ASSUME Init PROVE StartupInv
    OBVIOUS
  <1>1. StartupTypeOK
    <2>1. opts = ZeroOpts /\ opts.port = 0
      BY DEF Init, ZeroOpts
    <2>2. 0 \in (-HalfInt32)..(HalfInt32 - 1)
      BY WidthAssumption DEF MaxPort
    <2>3. cfg = NewNodeConfig("", "none")
      BY DEF Init
    <2>4. /\ DOMAIN cfg = DOMAIN NewNodeConfig("", "none")
          /\ DOMAIN cfg.handler = DOMAIN Mux /\ DOMAIN cfg.node = DOMAIN NewNodeSpec("")
      BY <2>3, NewConfig
    <2>5. optsErr \in BOOLEAN
      BY Zenon DEF Init
    <2>6. at \in Stages /\ applied \in 0..5 /\ opened \in 0..MaxPort
      <3>1. at = "main" /\ applied = 0 /\ opened = 0
        BY DEF Init
      <3>2. QED
        BY <3>1 DEF Stages, MaxPort
    <2>7. opts.port \in (-HalfInt32)..(HalfInt32 - 1)
      BY <2>1, <2>2
    <2>8. DOMAIN opts = DOMAIN ZeroOpts
      BY <2>1
    <2>9. QED
      BY <2>4, <2>5, <2>6, <2>7, <2>8, Zenon DEF StartupTypeOK, Stages
  <1>2. OptsInv /\ ClientInv
    BY DEF Init, OptsInv, ClientInv, InRoot, InNewNode, AfterOptions
  <1>3. NodeInv
    BY NewConfig DEF Init, NodeInv, InNewNode, AfterOptions, Stages
  <1>4. QED
    BY <1>1, <1>2, <1>3 DEF Init, StartupInv

\* The steps of main and cobra, which do not touch the node.
LEMMA StartupMain ==
  ASSUME StartupInv, SetDefaults \/ ParseLine \/ PersistentPreRun \/ PreRun \/ RunSubcommand
  PROVE  StartupInv'
  <1> USE DEF StartupInv
  <1>1. CASE SetDefaults
    <2> DEFINE set == SetDefaultOpts(ZeroOpts, e)
    <2>1. /\ at = "main" /\ at' = "line" /\ opts = ZeroOpts
          /\ opts' = [set.opts EXCEPT !.version = "built"] /\ optsErr' = set.err
          /\ UNCHANGED <<in, taint, client, applied, cfg, opened>>
      BY <1>1 DEF SetDefaults, OptsInv
    <2>2. e.port \in Int
      BY InputsAssumption DEF e
    <2>3. "port" \in DOMAIN ZeroOpts /\ "kubeconfig" \in DOMAIN ZeroOpts
      BY DEF ZeroOpts
    <2>4. /\ DOMAIN set.opts = DOMAIN ZeroOpts /\ set.err \in BOOLEAN
          /\ set.err => set.opts.port = 0
          /\ ~set.err => set.opts.port = ListenPort(e) /\ set.opts.kubeconfig = KubeConfigPath(e)
      BY DefaultPort
    <2>. HIDE DEF set
    <2>5. DOMAIN opts' = DOMAIN ZeroOpts /\ opts'.port = set.opts.port
          /\ opts'.kubeconfig = set.opts.kubeconfig
      BY <2>1, <2>3, <2>4
    <2>6. opts'.port \in (-HalfInt32)..(HalfInt32 - 1)
      BY <2>2, <2>4, <2>5, ListenPortInRange, WidthAssumption DEF MaxPort
    <2>7. StartupTypeOK'
      BY <2>1, <2>4, <2>5, <2>6 DEF StartupTypeOK, Ended
    <2>8. OptsInv' /\ ClientInv'
      BY <2>1, <2>4, <2>5 DEF OptsInv, ClientInv, InRoot, InNewNode, AfterOptions, e
    <2>9. NodeInv'
      BY <2>1 DEF NodeInv, InNewNode, AfterOptions, Stages
    <2>10. QED
      BY <2>1, <2>7, <2>8, <2>9
  <1>2. CASE ParseLine
    <2>1. /\ at = "line" /\ at' \in {"failed", "panicked", "persistentPreRun"}
          /\ UNCHANGED <<in, optsErr, taint, client, applied, cfg, opened>>
          /\ opts' = opts \/ (line.cmd = "" /\ opts' = ParseFlags(opts, line.given))
      BY <1>2 DEF ParseLine
    <2>2. opts' = IF line.cmd = "" THEN ParseFlags(opts, line.given) ELSE opts
      BY <1>2 DEF ParseLine
    <2>3. DOMAIN opts = DOMAIN ZeroOpts /\ "port" \in DOMAIN opts /\ "kubeconfig" \in DOMAIN opts
      BY DEF StartupTypeOK, ZeroOpts
    <2>4. "port" \notin DOMAIN line.given
      BY InputsAssumption DEF line, Flags
    <2>5. DOMAIN opts' = DOMAIN ZeroOpts /\ opts'.port = opts.port
      BY <2>1, <2>3, <2>4 DEF ParseFlags
    <2>6. line.cmd = "" => opts'.kubeconfig = Asked("kubeconfig", opts.kubeconfig)
      BY <2>2, <2>3 DEF ParseFlags, Asked
    <2>7. StartupTypeOK'
      BY <2>1, <2>5 DEF StartupTypeOK, Ended
    <2>8. OptsInv' /\ ClientInv'
      BY <2>1, <2>5, <2>6 DEF OptsInv, ClientInv, InRoot, InNewNode, AfterOptions, PathAsked, Asked, e, line
    <2>9. NodeInv'
      BY <2>1 DEF NodeInv, InNewNode, AfterOptions, Stages, ServerAsked, Asked, e, line
    <2>10. QED
      BY <2>1, <2>7, <2>8, <2>9
  <1>3. CASE PersistentPreRun \/ PreRun \/ RunSubcommand
    <2>1. /\ \/ at = "persistentPreRun" /\ at' = "preRun" /\ line.cmd = ""
             \/ at = "persistentPreRun" /\ at' = "subcommand"
             \/ at = "preRun" /\ at' = "checks" /\ ~optsErr
             \/ at \in {"persistentPreRun", "preRun", "subcommand"} /\ at' \in {"failed", "printed"}
          /\ UNCHANGED <<in, opts, optsErr, taint, client, applied, cfg, opened>>
      BY <1>3 DEF PersistentPreRun, PreRun, RunSubcommand, ContinueIf
    <2>2. StartupTypeOK'
      BY <2>1 DEF StartupTypeOK, Ended
    <2>3. OptsInv' /\ ClientInv'
      BY <2>1 DEF OptsInv, ClientInv, InRoot, InNewNode, AfterOptions, PathAsked, Asked, e, line
    <2>4. NodeInv'
      BY <2>1 DEF NodeInv, InNewNode, AfterOptions, Stages, ServerAsked, Asked, e, line
    <2>5. QED
      BY <2>1, <2>2, <2>3, <2>4
  <1>4. QED
    BY <1>1, <1>2, <1>3

LEMMA ContinueEither ==
  ASSUME NEW ok, NEW next, ContinueIf(ok, next)
  PROVE  at' \in {next, "failed"} /\ (~ok => at' = "failed") /\ (ok => at' = next)
  BY DEF ContinueIf

\* The steps that do not touch the node config either: the checks, the
\* client, tracing and the listener.
LEMMA StartupAround ==
  ASSUME StartupInv, CheckOptions \/ MakeClient \/ SetupTracing \/ Listen
  PROVE  StartupInv'
  <1> USE DEF StartupInv
  <1>1. /\ \/ at = "checks" /\ at' \in {"client", "failed"} /\ client' = client
           \/ at = "client" /\ client' = ClientsetFromEnv(opts.kubeconfig, e)
              /\ at' \in {"newNode", "failed"}
           \/ at = "tracing" /\ at' \in {"listen", "failed"} /\ client' = client
           \/ at = "listen" /\ at' \in {"running", "noPort"} /\ client' = client
        /\ UNCHANGED <<in, opts, optsErr, applied, cfg>>
    <2>1. CASE CheckOptions
      BY <2>1 DEF CheckOptions, ContinueIf
    <2>2. CASE MakeClient
      BY <2>2 DEF MakeClient, ContinueIf
    <2>3. CASE SetupTracing
      <3>1. ContinueIf(~ReservedTag /\ BadExporters = {} /\ TracingSampler # "error", "listen")
        BY <2>3, Zenon DEF SetupTracing
      <3>2. at' \in {"listen", "failed"}
        BY <3>1, ContinueEither, Zenon
      <3>3. QED
        BY <2>3, <3>2 DEF SetupTracing
    <2>4. CASE Listen
      <3>1. at = "listen" /\ at' \in {"running", "noPort"}
        BY <2>4 DEF Listen
      <3>2. UNCHANGED <<in, opts, optsErr, client, applied, cfg>>
        BY <2>4 DEF Listen
      <3>3. QED
        BY <3>1, <3>2
    <2>5. QED
      BY <2>1, <2>2, <2>3, <2>4
  <1>2. at = "client" => client' = ServerAsked
    <2> SUFFICES ASSUME at = "client" PROVE client' = ServerAsked
      OBVIOUS
    <2>1. opts.kubeconfig = PathAsked
      BY DEF OptsInv, InRoot
    <2>2. QED
      BY <1>1, <2>1, ServerOfPath DEF PathAsked
  <1>3. opened' \in 0..MaxPort /\ (at' = "running" /\ cfg.addr # 0 => opened' = cfg.addr)
    <2>1. opened \in 0..MaxPort
      BY DEF StartupTypeOK
    <2>2. CASE Listen
      <3>1. \/ /\ cfg.addr \in 0..MaxPort
               /\ IF cfg.addr = 0 THEN opened' \in EphemeralPorts ELSE opened' = cfg.addr
            \/ at' = "noPort" /\ opened' = opened
        BY <2>2 DEF Listen
      <3>2. EphemeralPorts \subseteq 0..MaxPort
        <4>1. 1..MaxPort \subseteq 0..MaxPort
          OBVIOUS
        <4>. QED
          BY <4>1, PortsAssumption
      <3>. QED
        BY <2>1, <3>1, <3>2
    <2>3. CASE CheckOptions \/ MakeClient \/ SetupTracing
      <3>1. opened' = opened
        BY <2>3 DEF CheckOptions, MakeClient, SetupTracing
      <3>2. at # "listen"
        BY <2>3 DEF CheckOptions, MakeClient, SetupTracing
      <3>3. QED
        BY <1>1, <2>1, <3>1, <3>2
    <2>4. QED
      BY <2>2, <2>3
  <1>4. StartupTypeOK'
    BY <1>1, <1>3 DEF StartupTypeOK, Ended
  <1>5. OptsInv'
    BY <1>1 DEF OptsInv, InRoot, InNewNode, AfterOptions, PathAsked, Asked, e, line
  <1>6. ServerAsked' = ServerAsked
    BY <1>1 DEF ServerAsked, Asked, e, line
  <1>7. ClientInv'
    BY <1>1, <1>2, <1>6 DEF ClientInv, InNewNode, AfterOptions
  <1>8. NodeInv'
    BY <1>1, <1>3, <1>6 DEF NodeInv, InNewNode, AfterOptions, Stages
  <1>9. QED
    BY <1>1, <1>4, <1>5, <1>7, <1>8

LEMMA StartupNewNode ==
  ASSUME StartupInv, StartNewNode
  PROVE  StartupInv'
  <1> USE DEF StartupInv
  <1>1. /\ at = "newNode" /\ at' = "options"
        /\ cfg' = NewNodeConfig(opts.nodename, DefaultClientFromEnv(e))
        /\ UNCHANGED <<in, opts, optsErr, client, applied, opened>>
    BY DEF StartNewNode
  <1>2. /\ DOMAIN cfg' = DOMAIN NewNodeConfig("", "none")
        /\ DOMAIN cfg'.handler = DOMAIN Mux /\ DOMAIN cfg'.node = DOMAIN NewNodeSpec("")
        /\ cfg'.handler.auth = "none" /\ cfg'.node.name = opts.nodename
    BY <1>1, NewConfig
  <1>3. StartupTypeOK'
    BY <1>1, <1>2 DEF StartupTypeOK, Ended
  <1>4. OptsInv'
    BY <1>1 DEF OptsInv, InRoot, InNewNode, AfterOptions, PathAsked, Asked, e, line
  <1>5. ClientInv'
    BY <1>1 DEF ClientInv, InNewNode, AfterOptions, ServerAsked, Asked, e, line
  <1>6. applied = 0
    BY <1>1 DEF NodeInv, Stages, InNewNode, AfterOptions
  <1>7. at' = "options" /\ applied' = 0 /\ cfg'.handler.auth = "none"
        /\ cfg'.node.name = opts'.nodename
    BY <1>1, <1>2, <1>6
  <1>8. NodeInv'
    BY <1>7 DEF NodeInv, InNewNode, AfterOptions, Stages
  <1>9. QED
    BY <1>1, <1>3, <1>4, <1>5, <1>8

\* What each option leaves of the config, and what it sets.
LEMMA OptionFields ==
  ASSUME StartupTypeOK
  PROVE  LET Same(c) == /\ DOMAIN c = DOMAIN cfg /\ DOMAIN c.handler = DOMAIN cfg.handler
                        /\ DOMAIN c.node = DOMAIN cfg.node /\ c.node.name = cfg.node.name
         IN  /\ Same(setBase(cfg)) /\ setBase(cfg).addr = opts.port
             /\ setBase(cfg).handler.auth = "none"
             /\ Same(WithClient(cfg)) /\ WithClient(cfg).client = client
             /\ WithClient(cfg).addr = cfg.addr /\ WithClient(cfg).handler = cfg.handler
             /\ Same(setAuth(cfg)) /\ setAuth(cfg).client = cfg.client
             /\ setAuth(cfg).addr = cfg.addr
             /\ setAuth(cfg).handler.auth = "webhook" =>
                  setAuth(cfg).handler.api = cfg.client /\ setAuth(cfg).handler.name = opts.nodename
             /\ \A c \in {WithTLSConfig(cfg), AttachProviderRoutes(cfg)} :
                  /\ Same(c) /\ c.client = cfg.client /\ c.addr = cfg.addr
                  /\ c.handler = cfg.handler
  <1>1. /\ {"client", "handler", "addr", "tls", "attacher", "node", "timeout", "workers"}
             \subseteq DOMAIN cfg
        /\ {"auth", "api", "name"} \subseteq DOMAIN cfg.handler
        /\ {"name", "taint", "os", "arch"} \subseteq DOMAIN cfg.node
        /\ DOMAIN cfg.handler = DOMAIN Mux
    BY DEF StartupTypeOK, NewNodeConfig, Mux, NewNodeSpec
  <1>2. Mux.auth = "none"
    BY DEF Mux
  <1>3. setBase(cfg).handler = Mux /\ setBase(cfg).addr = opts.port
    BY <1>1 DEF setBase, getAPIConfig
  <1>4. DOMAIN setBase(cfg) = DOMAIN cfg /\ DOMAIN setBase(cfg).node = DOMAIN cfg.node
        /\ setBase(cfg).node.name = cfg.node.name
    BY <1>1 DEF setBase
  <1>5. /\ DOMAIN setAuth(cfg) = DOMAIN cfg /\ DOMAIN setAuth(cfg).handler = DOMAIN cfg.handler
        /\ setAuth(cfg).node = cfg.node /\ setAuth(cfg).client = cfg.client
        /\ setAuth(cfg).addr = cfg.addr
    BY <1>1 DEF setAuth
  <1>6. setAuth(cfg).handler.auth = "webhook" =>
          setAuth(cfg).handler.api = cfg.client /\ setAuth(cfg).handler.name = opts.nodename
    BY <1>1 DEF setAuth
  <1>7. QED
    BY <1>1, <1>2, <1>3, <1>4, <1>5, <1>6 DEF WithClient, WithTLSConfig, AttachProviderRoutes

LEMMA StartupOption ==
  ASSUME StartupInv, ApplyOption
  PROVE  StartupInv'
  <1> USE DEF StartupInv
  <1> DEFINE o == NodeOptions[applied + 1]
  <1>2. /\ NodeOptions[1] = "base" /\ NodeOptions[2] = "client" /\ NodeOptions[3] = "auth"
        /\ NodeOptions[4] = "tls" /\ NodeOptions[5] = "routes" /\ Len(NodeOptions) = 5
    BY DEF NodeOptions
  <1>1. /\ at = "options" /\ applied \in 0..4 /\ applied' = applied + 1
        /\ UNCHANGED <<in, opts, optsErr, client, opened>>
    <2>1. applied \in 0..5 /\ applied < 5
      BY <1>2 DEF ApplyOption, StartupTypeOK
    <2>2. QED
      BY <2>1 DEF ApplyOption
  <1>3. \/ at' = "failed" /\ cfg' = cfg
        \/ /\ at' = IF applied = 4 THEN "provider" ELSE "options"
           /\ \/ applied = 0 /\ cfg' = setBase(cfg)
              \/ applied = 1 /\ cfg' = WithClient(cfg)
              \/ applied = 2 /\ cfg' = setAuth(cfg)
              \/ applied \in {3, 4} /\ cfg' \in {WithTLSConfig(cfg), AttachProviderRoutes(cfg)}
    <2> DEFINE next == IF applied + 1 = Len(NodeOptions) THEN "provider" ELSE "options"
    <2>0. /\ ContinueIf(~OptionFails(o), next)
          /\ cfg' = IF OptionFails(o) THEN cfg
                    ELSE CASE o = "base"   -> setBase(cfg)
                           [] o = "client" -> WithClient(cfg)
                           [] o = "auth"   -> setAuth(cfg)
                           [] o = "tls"    -> WithTLSConfig(cfg)
                           [] o = "routes" -> AttachProviderRoutes(cfg)
      BY Zenon DEF ApplyOption
    <2>1. CASE OptionFails(o)
      <3>1. at' = "failed"
        BY <2>0, <2>1, ContinueEither, Zenon
      <3>. HIDE DEF o
      <3>2. QED
        BY <2>0, <2>1, <3>1
    <2>2. CASE ~OptionFails(o)
      <3>1. at' = next
        BY <2>0, <2>2, ContinueEither, Zenon
      <3>2. at' = IF applied = 4 THEN "provider" ELSE "options"
        BY <1>1, <1>2, <3>1
      <3>3. \/ applied = 0 /\ o = "base"
            \/ applied = 1 /\ o = "client"
            \/ applied = 2 /\ o = "auth"
            \/ applied = 3 /\ o = "tls"
            \/ applied = 4 /\ o = "routes"
        BY <1>1, <1>2
      <3>. HIDE DEF o, next
      <3>4. QED
        BY <2>0, <2>2, <3>2, <3>3
    <2>3. QED
      BY <2>1, <2>2
  <1>4. /\ DOMAIN cfg' = DOMAIN cfg /\ DOMAIN cfg'.handler = DOMAIN cfg.handler
        /\ DOMAIN cfg'.node = DOMAIN cfg.node /\ cfg'.node.name = cfg.node.name
    BY <1>3, OptionFields
  <1>5. StartupTypeOK'
    <2>1. applied' \in 0..5 /\ at' \in {"failed", "options", "provider"}
      BY <1>1, <1>3
    <2>2. QED
      BY <1>1, <1>4, <2>1 DEF StartupTypeOK, Ended
  <1>6. OptsInv'
    BY <1>1, <1>3 DEF OptsInv, InRoot, InNewNode, AfterOptions, PathAsked, Asked, e, line
  <1>7. ServerAsked' = ServerAsked
    BY <1>1 DEF ServerAsked, Asked, e, line
  <1>8. client = ServerAsked /\ ClientInv'
    BY <1>1, <1>3, <1>7 DEF ClientInv, InNewNode, AfterOptions
  <1>9. /\ cfg.node.name = opts.nodename /\ (applied < 2 => cfg.handler.auth = "none")
        /\ (applied > 0 => cfg.addr = opts.port) /\ (applied > 1 => cfg.client = client)
        /\ cfg.handler.auth = "webhook" =>
             cfg.handler.api = ServerAsked /\ cfg.handler.name = cfg.node.name
    BY <1>1 DEF NodeInv
  <1>10. at' # "failed" => /\ cfg'.addr = opts.port
                           /\ applied > 0 => cfg'.client = client
                           /\ applied < 2 => cfg'.handler.auth = "none"
    BY <1>1, <1>3, <1>9, OptionFields
  <1>11. cfg'.handler.auth = "webhook" =>
           cfg'.handler.api = ServerAsked /\ cfg'.handler.name = cfg'.node.name
    BY <1>1, <1>3, <1>4, <1>8, <1>9, OptionFields
  <1>12. NodeInv'
    BY <1>1, <1>3, <1>4, <1>7, <1>9, <1>10, <1>11 DEF NodeInv, InNewNode, AfterOptions, Stages
  <1>13. QED
    BY <1>1, <1>5, <1>6, <1>8, <1>12

LEMMA StartupProvider ==
  ASSUME StartupInv, MakeProvider \/ FinishNode
  PROVE  StartupInv'
  <1> USE DEF StartupInv
  <1>1. /\ {"client", "handler", "addr", "node", "attached"} \subseteq DOMAIN cfg
        /\ {"name", "os", "arch", "daemonPort", "address", "version"} \subseteq DOMAIN cfg.node
    BY DEF StartupTypeOK, NewNodeConfig, NewNodeSpec
  <1>2. /\ UNCHANGED <<in, opts, optsErr, client, applied, opened>>
        /\ at \in {"provider", "controllers"}
    BY DEF MakeProvider, FinishNode
  <1>3. \/ at = "provider" /\ at' = "failed" /\ cfg' = cfg
        \/ /\ at = "provider" /\ at' = "controllers"
           /\ cfg' = [cfg EXCEPT !.node = [ConfigureNode(@) EXCEPT !.version = opts.version]]
        \/ /\ at = "controllers" /\ at' = "tracing"
           /\ cfg' = [cfg EXCEPT !.attached = cfg.attacher, !.handler = Router]
    BY DEF MakeProvider, FinishNode, ContinueIf
  <1>4. /\ ConfigureNode(cfg.node).daemonPort = opts.port
        /\ ConfigureNode(cfg.node).name = cfg.node.name
        /\ DOMAIN ConfigureNode(cfg.node) = DOMAIN cfg.node
    BY <1>1 DEF ConfigureNode
  <1>5. Router.auth = "none" /\ DOMAIN Router = DOMAIN Mux
    BY DEF Router, Mux
  <1>. DEFINE configured == [ConfigureNode(cfg.node) EXCEPT !.version = opts.version]
  <1>6. /\ configured.daemonPort = opts.port /\ configured.name = cfg.node.name
        /\ DOMAIN configured = DOMAIN cfg.node
    BY <1>1, <1>4
  <1>7. at = "provider" /\ at' = "controllers" => cfg' = [cfg EXCEPT !.node = configured]
    BY <1>3
  <1>. HIDE DEF configured
  <1>8. /\ DOMAIN cfg' = DOMAIN cfg /\ DOMAIN cfg'.node = DOMAIN cfg.node
        /\ DOMAIN cfg'.handler = DOMAIN Mux
        /\ cfg'.client = cfg.client /\ cfg'.addr = cfg.addr
        /\ cfg'.node.name = cfg.node.name
        /\ cfg'.handler = cfg.handler \/ cfg'.handler.auth = "none"
    BY <1>1, <1>3, <1>5, <1>6, <1>7 DEF StartupTypeOK
  <1>9. at' \in {"controllers", "tracing"} => cfg'.node.daemonPort = opts.port
    <2>1. at = "controllers" => cfg.node.daemonPort = opts.port
      BY DEF NodeInv, AfterOptions
    <2>2. at = "controllers" => cfg'.node = cfg.node
      BY <1>1, <1>3
    <2>3. QED
      BY <1>1, <1>3, <1>6, <1>7, <2>1, <2>2
  <1>10. StartupTypeOK'
    BY <1>2, <1>3, <1>8 DEF StartupTypeOK, Ended
  <1>11. OptsInv'
    BY <1>2, <1>3 DEF OptsInv, InRoot, InNewNode, AfterOptions, PathAsked, Asked, e, line
  <1>12. ServerAsked' = ServerAsked
    BY <1>2 DEF ServerAsked, Asked, e, line
  <1>13. ClientInv'
    BY <1>2, <1>3, <1>12 DEF ClientInv, InNewNode, AfterOptions
  <1>14. cfg.addr = opts.port /\ cfg.client = client
    BY <1>2 DEF NodeInv, AfterOptions
  <1>15. cfg'.handler.auth = "webhook" =>
           cfg'.handler.api = ServerAsked' /\ cfg'.handler.name = cfg'.node.name
    BY <1>8, <1>12 DEF NodeInv
  <1>16. NodeInv'
    BY <1>2, <1>3, <1>8, <1>9, <1>14, <1>15 DEF NodeInv, InNewNode, AfterOptions, Stages
  <1>17. QED
    BY <1>2, <1>10, <1>11, <1>13, <1>16

LEMMA StartupInvariant == Spec => []StartupInv
  <1>1. StartupInv /\ [Next]_vars => StartupInv'
    <2> SUFFICES ASSUME StartupInv, [Next]_vars PROVE StartupInv'
      OBVIOUS
    <2>1. CASE Next
      BY <2>1, StartupMain, StartupAround, StartupNewNode, StartupOption, StartupProvider
         DEF Next
    <2>2. CASE UNCHANGED vars
      <3>1. UNCHANGED <<in, at, opts, optsErr, client, applied, cfg, opened>>
        BY <2>2 DEF vars
      <3>2. StartupTypeOK'
        BY <3>1 DEF StartupInv, StartupTypeOK
      <3>3. OptsInv'
        BY <3>1 DEF StartupInv, OptsInv, PathAsked, Asked, e, line
      <3>4. ServerAsked' = ServerAsked
        BY <3>1 DEF ServerAsked, Asked, e, line
      <3>5. ClientInv' /\ NodeInv'
        BY <3>1, <3>4 DEF StartupInv, ClientInv, NodeInv
      <3>6. QED
        BY <3>1, <3>2, <3>3, <3>5 DEF StartupInv
    <2>3. QED
      BY <2>1, <2>2
  <1>2. QED
    BY StartupInit, <1>1, PTL DEF Spec

-----------------------------------------------------------------------------
(* The properties, for every environment, command line and width.          *)

\* Every variable has a value of its type; the port keeps that of an int32.
THEOREM StartupTypes == Spec => []StartupTypeOK
  <1>1. StartupInv => StartupTypeOK
    BY DEF StartupInv
  <1>2. QED
    BY <1>1, StartupInvariant, PTL

\* The node advertises the port that the environment names, if it fits an
\* int32, and the server opens it, unless it is 0.
THEOREM StartupPortsAgree == Spec => []PortsAgree
  <1>1. ASSUME StartupInv PROVE PortsAgree
    <2> SUFFICES ASSUME at = "running"
                 PROVE  /\ cfg.node.daemonPort = IF cfg.addr = 0 THEN 0 ELSE opened
                        /\ PortAsked \in (-HalfInt32)..(HalfInt32 - 1)
                             => cfg.node.daemonPort = PortAsked
      BY DEF PortsAgree
    <2>1. cfg.addr = opts.port /\ cfg.node.daemonPort = opts.port /\ opts.port = ListenPort(e)
      BY <1>1 DEF StartupInv, NodeInv, OptsInv, InRoot, InNewNode, AfterOptions
    <2>2. cfg.addr # 0 => opened = cfg.addr
      BY <1>1 DEF StartupInv, NodeInv
    <2>3. PortAsked \in (-HalfInt32)..(HalfInt32 - 1) => ListenPort(e) = PortAsked
      BY Int32Identity DEF PortAsked, ListenPort
    <2>4. QED
      BY <2>1, <2>2, <2>3
  <1>2. QED
    BY <1>1, StartupInvariant, PTL

\* The controllers speak to the API server asked for, and so does the webhook
\* of the handler that the options make.
THEOREM StartupOneAPIServer == Spec => []OneAPIServer
  <1>1. StartupInv => OneAPIServer
    BY DEF StartupInv, NodeInv, ClientInv, OneAPIServer, InNewNode, AfterOptions
  <1>2. QED
    BY <1>1, StartupInvariant, PTL

-----------------------------------------------------------------------------
(* Startup implements the first steps of NodeLifecycle.                    *)

\* How a step of Startup moves between the states that NodeLifecycle knows.
LEMMA LifeStages ==
  ASSUME Next
  PROVE  \/ at \notin {"failed", "listen", "running", "noPort"}
            /\ at' \notin {"listen", "running", "noPort"}
         \/ at \notin {"failed", "listen", "running", "noPort"} /\ at' = "listen"
         \/ at = "listen" /\ at' \in {"running", "noPort"}
  <1>1. CASE SetDefaults \/ ParseLine \/ PersistentPreRun \/ PreRun \/ RunSubcommand
    <2>1. /\ at \in {"main", "line", "persistentPreRun", "preRun", "subcommand"}
          /\ at' \in {"line", "failed", "panicked", "persistentPreRun", "preRun",
                      "subcommand", "checks", "printed"}
      BY <1>1 DEF SetDefaults, ParseLine, PersistentPreRun, PreRun, RunSubcommand, ContinueIf
    <2>2. QED
      BY <2>1
  <1>2. CASE CheckOptions \/ MakeClient \/ StartNewNode \/ MakeProvider \/ FinishNode
    <2>1. /\ at \in {"checks", "client", "newNode", "provider", "controllers"}
          /\ at' \in {"failed", "client", "newNode", "options", "controllers", "tracing"}
      BY <1>2 DEF CheckOptions, MakeClient, StartNewNode, MakeProvider, FinishNode, ContinueIf
    <2>2. QED
      BY <2>1
  <1>3. CASE ApplyOption
    <2> DEFINE next == IF applied + 1 = Len(NodeOptions) THEN "provider" ELSE "options"
    <2>1. at = "options" /\ ContinueIf(~OptionFails(NodeOptions[applied + 1]), next)
      BY <1>3, Zenon DEF ApplyOption
    <2>2. at' \in {next, "failed"}
      BY <2>1, ContinueEither, Zenon
    <2>3. QED
      BY <2>1, <2>2
  <1>4. CASE SetupTracing
    <2>1. /\ at = "tracing"
          /\ ContinueIf(~ReservedTag /\ BadExporters = {} /\ TracingSampler # "error", "listen")
      BY <1>4, Zenon DEF SetupTracing
    <2>2. at' \in {"listen", "failed"}
      BY <2>1, ContinueEither, Zenon
    <2>3. QED
      BY <2>1, <2>2
  <1>5. CASE Listen
    BY <1>5 DEF Listen
  <1>6. QED
    BY <1>1, <1>2, <1>3, <1>4, <1>5 DEF Next

\* From the command line to the port, the program takes the steps that the
\* life cycle takes at once, and fails where it fails.
THEOREM StartupStartsLife == Spec => StartsLife
  <1>1. Init => Life!Init
    BY DEF Init, Life!Init, Life!Controllers
  <1>2. ASSUME [Next]_vars PROVE [Life!Next]_(Life!vars)
    <2> USE DEF Life!vars, Life!command, Life!runner, Life!workers
    <2>1. CASE UNCHANGED vars
      BY <2>1 DEF vars
    <2>2. CASE /\ at \notin {"failed", "listen", "running", "noPort"}
               /\ at' \notin {"failed", "listen", "running", "noPort"}
      BY <2>2
    <2>3. CASE at \notin {"failed", "listen", "running", "noPort"} /\ at' = "failed"
      <3>1. Life!FailConfig
        BY <2>3 DEF Life!FailConfig
      <3>2. QED
        BY <3>1 DEF Life!Next, Life!Command
    <2>4. CASE at \notin {"failed", "listen", "running", "noPort"} /\ at' = "listen"
      <3>1. Life!StartRun
        BY <2>4 DEF Life!StartRun
      <3>2. QED
        BY <3>1 DEF Life!Next, Life!Command
    <2>5. CASE at = "listen" /\ at' \in {"running", "noPort"}
      <3>1. Life!ServeHTTP
        BY <2>5 DEF Life!ServeHTTP
      <3>2. QED
        BY <3>1 DEF Life!Next, Life!Run
    <2>6. QED
      BY <1>2, <2>1, <2>2, <2>3, <2>4, <2>5, LifeStages
  <1>3. QED
    BY <1>1, <1>2, PTL DEF Spec, StartsLife, Life!Spec

-----------------------------------------------------------------------------
(* What the steps have set and checked is what the input asks for.         *)

\* The options that the command line starts from.
LineOpts == [SetDefaultOpts(ZeroOpts, e).opts EXCEPT !.version = "built"]

\* The options o are what the environment and the command line ask for.
OptionsAsAsked(o) ==
  /\ o.os = Asked("os", "linux") /\ o.workers = Asked("workers", 10)
  /\ o.nodename = NodeNameAsked /\ o.version = "built" /\ o.tags = ZeroOpts.tags
  /\ o.taint = Asked("taint", DefaultTaintKey) /\ o.effect = "NoSchedule"
  /\ o.disableTaint = Asked("disableTaint", FALSE)
  /\ o.provider = Asked("provider", "") /\ o.config = Asked("config", "")
  /\ o.exporters = Asked("exporters", <<>>) /\ o.sampleRate = Asked("sampleRate", "")

LEMMA DefaultedFields ==
  ASSUME NEW env
  PROVE  LET set == SetDefaultOpts(ZeroOpts, env) IN
         /\ set.err = BadPort(env) /\ DOMAIN set.opts = DOMAIN ZeroOpts
         /\ set.opts.tags = ZeroOpts.tags
         /\ ~BadPort(env) => \A x \in DOMAIN ZeroOpts : set.opts[x] = Defaults(env)[x]
  <1> DEFINE d == Defaults(env)
             early == FillIn(ZeroOpts, BeforePort, d)
             all == FillIn(early, DOMAIN ZeroOpts, d)
  <1>1. ZeroOpts.port = 0 /\ "tags" \in DOMAIN ZeroOpts /\ "tags" \notin BeforePort
    BY DEF ZeroOpts, BeforePort
  <1>2. d.tags = ZeroOpts.tags
    BY DEF Defaults, ZeroOpts
  <1>. HIDE DEF d
  <1>3. DOMAIN early = DOMAIN ZeroOpts /\ early.tags = ZeroOpts.tags
    BY <1>1, FillInField
  <1>4. \A x \in DOMAIN ZeroOpts : early[x] = d[x] \/ early[x] = ZeroOpts[x]
    BY FillInField
  <1>. HIDE DEF early
  <1>5. /\ DOMAIN all = DOMAIN ZeroOpts /\ all.tags = ZeroOpts.tags
        /\ \A x \in DOMAIN ZeroOpts : all[x] = d[x]
    BY <1>1, <1>2, <1>3, <1>4, FillInField
  <1>. HIDE DEF all
  <1>6. SetDefaultOpts(ZeroOpts, env) =
          IF BadPort(env) THEN [opts |-> early, err |-> TRUE]
          ELSE [opts |-> all, err |-> FALSE]
    BY <1>1 DEF SetDefaultOpts, early, all, d
  <1>7. CASE BadPort(env)
    BY <1>3, <1>6, <1>7
  <1>8. CASE ~BadPort(env)
    BY <1>5, <1>6, <1>8 DEF d, BadPort
  <1>9. QED
    BY <1>7, <1>8

LEMMA LineOptsFields ==
  /\ DOMAIN LineOpts = DOMAIN ZeroOpts /\ LineOpts.tags = ZeroOpts.tags
  /\ ~BadPort(e) => \A x \in DOMAIN ZeroOpts \ {"version"} : LineOpts[x] = Defaults(e)[x]
  /\ LineOpts.version = "built"
  <1> DEFINE set == SetDefaultOpts(ZeroOpts, e).opts
  <1>1. /\ DOMAIN set = DOMAIN ZeroOpts /\ set.tags = ZeroOpts.tags
        /\ ~BadPort(e) => \A x \in DOMAIN ZeroOpts : set[x] = Defaults(e)[x]
    BY DefaultedFields
  <1>2. "version" \in DOMAIN ZeroOpts /\ "tags" \in DOMAIN ZeroOpts
    BY DEF ZeroOpts
  <1>3. LineOpts = [set EXCEPT !.version = "built"]
    BY DEF LineOpts
  <1>. HIDE DEF set
  <1>4. QED
    BY <1>1, <1>2, <1>3

\* The flags that are given, over the defaults, are what is asked for.
LEMMA ParsedOptions ==
  ASSUME in \in Inputs, ~BadPort(e)
  PROVE  OptionsAsAsked(ParseFlags(LineOpts, line.given))
  <1> DEFINE o == ParseFlags(LineOpts, line.given)
  <1>1. DOMAIN ZeroOpts = {"os", "nodename", "resync", "workers", "port", "taint", "effect",
           "kubeconfig", "timeout", "provider", "config", "disableTaint", "exporters",
           "sampleRate", "percent", "version", "tags"}
    BY DEF ZeroOpts
  <1>2. \A x \in DOMAIN ZeroOpts : o[x] = Asked(x, LineOpts[x])
    BY LineOptsFields DEF ParseFlags, Asked
  <1>. HIDE DEF o
  <1>3. "effect" \notin DOMAIN line.given /\ "version" \notin DOMAIN line.given
        /\ "tags" \notin DOMAIN line.given
    BY InputsAssumption DEF line, Flags
  <1>4. /\ o.effect = LineOpts.effect /\ o.version = LineOpts.version /\ o.tags = LineOpts.tags
    BY <1>1, <1>2, <1>3 DEF Asked
  <1>5. /\ Defaults(e).os = "linux" /\ Defaults(e).workers = 10
        /\ Defaults(e).nodename = getEnv(e.nodename, "virtual-kubelet")
        /\ Defaults(e).taint = DefaultTaintKey /\ Defaults(e).effect = "NoSchedule"
    BY DEF Defaults, ZeroOpts
  <1>6. /\ Defaults(e).disableTaint = FALSE /\ Defaults(e).provider = ""
        /\ Defaults(e).config = "" /\ Defaults(e).exporters = <<>>
        /\ Defaults(e).sampleRate = ""
    BY DEF Defaults, ZeroOpts
  <1>7. \A x \in DOMAIN ZeroOpts \ {"version"} : LineOpts[x] = Defaults(e)[x]
    BY LineOptsFields
  <1>8. /\ o.effect = "NoSchedule" /\ o.version = "built" /\ o.tags = ZeroOpts.tags
    BY <1>1, <1>4, <1>5, <1>7, LineOptsFields
  <1>9. o.nodename = NodeNameAsked
    <2>1. getEnv(e.nodename, "virtual-kubelet") = FirstSet(<<e.nodename, "virtual-kubelet">>)
      <3>1. "virtual-kubelet" # Unset
        BY DEF Unset
      <3>2. QED
        BY <3>1, FirstOfTwo DEF getEnv
    <2>2. o.nodename = Asked("nodename", getEnv(e.nodename, "virtual-kubelet"))
      BY <1>1, <1>2, <1>5, <1>7
    <2>3. QED
      BY <2>1, <2>2 DEF NodeNameAsked
  <1>10. /\ o.os = Asked("os", "linux") /\ o.workers = Asked("workers", 10)
         /\ o.taint = Asked("taint", DefaultTaintKey)
    BY <1>1, <1>2, <1>5, <1>7
  <1>11. /\ o.disableTaint = Asked("disableTaint", FALSE)
         /\ o.provider = Asked("provider", "") /\ o.config = Asked("config", "")
         /\ o.exporters = Asked("exporters", <<>>) /\ o.sampleRate = Asked("sampleRate", "")
    <2>1. /\ LineOpts.disableTaint = FALSE /\ LineOpts.provider = ""
          /\ LineOpts.config = "" /\ LineOpts.exporters = <<>> /\ LineOpts.sampleRate = ""
      BY <1>1, <1>6, <1>7
    <2>2. o.disableTaint = Asked("disableTaint", LineOpts.disableTaint)
      BY <1>1, <1>2
    <2>3. /\ o.provider = Asked("provider", LineOpts.provider)
          /\ o.config = Asked("config", LineOpts.config)
          /\ o.exporters = Asked("exporters", LineOpts.exporters)
          /\ o.sampleRate = Asked("sampleRate", LineOpts.sampleRate)
      BY <1>1, <1>2
    <2>4. QED
      BY <2>1, <2>2, <2>3
  <1>12. QED
    BY <1>8, <1>9, <1>10, <1>11 DEF OptionsAsAsked, o

\* The first of three values that is set.
LEMMA FirstOfThree ==
  ASSUME NEW a, NEW b, NEW c, c # Unset
  PROVE  FirstSet(<<a, b, c>>) = IF a # Unset THEN a ELSE IF b # Unset THEN b ELSE c
  <1> DEFINE s == <<a, b, c>>
             First(i) == s[i] # Unset /\ \A j \in 1..(i - 1) : s[j] = Unset
             n == IF a # Unset THEN 1 ELSE IF b # Unset THEN 2 ELSE 3
  <1>1. DOMAIN s = {1, 2, 3} /\ s[1] = a /\ s[2] = b /\ s[3] = c
    OBVIOUS
  <1>. HIDE DEF s
  <1>2. n \in {1, 2, 3} /\ First(n) /\ \A i \in DOMAIN s : First(i) => i = n
    BY <1>1
  <1>3. (CHOOSE i \in DOMAIN s : First(i)) = n
    BY <1>1, <1>2
  <1>4. QED
    BY <1>1, <1>3 DEF FirstSet, s

\* getTaint finds the taint that is asked for.
LEMMA TaintOfOptions ==
  ASSUME in \in Inputs, OptionsAsAsked(opts)
  PROVE  /\ opts.disableTaint => TaintAsked = NoTaint
         /\ ~opts.disableTaint => getTaint(opts, e).taint = TaintAsked
         /\ ~opts.disableTaint => (getTaint(opts, e).err <=> TaintAsked.effect \notin Effects)
  <1>1. CASE opts.disableTaint
    BY <1>1 DEF OptionsAsAsked, TaintAsked
  <1>2. CASE ~opts.disableTaint
    <2>1. DefaultTaintKey # Unset /\ DefaultTaintKey # "" /\ "NoSchedule" # Unset
      BY DEF DefaultTaintKey, Unset
    <2>2. "taint" \in DOMAIN line.given => line.given.taint # Unset
      BY InputsAssumption DEF line
    <2>3. "provider" \in DOMAIN line.given => line.given.provider # Unset
      BY InputsAssumption DEF line
    <2>4. opts.provider # Unset /\ opts.provider = Asked("provider", "")
      BY <2>3 DEF OptionsAsAsked, Asked, Unset
    <2>5. TaintOf(opts, e).key =
            FirstSet(<<e.taintKey, NonEmpty(Asked("taint", "")), DefaultTaintKey>>)
      <3>1. opts.taint = Asked("taint", DefaultTaintKey)
        BY DEF OptionsAsAsked
      <3>2. (IF NonEmpty(Asked("taint", "")) # Unset THEN NonEmpty(Asked("taint", ""))
             ELSE DefaultTaintKey) = IF opts.taint = "" THEN DefaultTaintKey ELSE opts.taint
        BY <2>1, <2>2, <3>1 DEF Asked, NonEmpty
      <3>3. TaintOf(opts, e).key =
              getEnv(e.taintKey, IF opts.taint = "" THEN DefaultTaintKey ELSE opts.taint)
        BY DEF TaintOf
      <3>4. TaintOf(opts, e).key =
              IF e.taintKey # Unset THEN e.taintKey
              ELSE IF opts.taint = "" THEN DefaultTaintKey ELSE opts.taint
        BY <3>3 DEF getEnv
      <3>5. FirstSet(<<e.taintKey, NonEmpty(Asked("taint", "")), DefaultTaintKey>>) =
              IF e.taintKey # Unset THEN e.taintKey
              ELSE IF NonEmpty(Asked("taint", "")) # Unset THEN NonEmpty(Asked("taint", ""))
              ELSE DefaultTaintKey
        BY <2>1, FirstOfThree, Zenon
      <3>6. CASE e.taintKey # Unset
        BY <3>4, <3>5, <3>6, Zenon
      <3>7. CASE e.taintKey = Unset
        <4>1. TaintOf(opts, e).key =
                IF opts.taint = "" THEN DefaultTaintKey ELSE opts.taint
          BY <3>4, <3>7, Zenon
        <4>2. FirstSet(<<e.taintKey, NonEmpty(Asked("taint", "")), DefaultTaintKey>>) =
                IF NonEmpty(Asked("taint", "")) # Unset THEN NonEmpty(Asked("taint", ""))
                ELSE DefaultTaintKey
          BY <3>5, <3>7, Zenon
        <4>3. QED
          BY <3>2, <4>1, <4>2, Zenon
      <3>8. QED
        BY <3>6, <3>7, Zenon
    <2>6. TaintOf(opts, e).value = FirstSet(<<e.taintValue, Asked("provider", "")>>)
      BY <2>4, FirstOfTwo DEF TaintOf, getEnv
    <2>7. TaintOf(opts, e).effect = FirstSet(<<e.taintEffect, "NoSchedule">>)
      <3>1. opts.effect = "NoSchedule"
        BY DEF OptionsAsAsked
      <3>2. QED
        BY <2>1, <3>1, FirstOfTwo DEF TaintOf, getEnv
    <2>8. TaintAsked = TaintOf(opts, e)
      <3>1. ~Asked("disableTaint", FALSE)
        BY <1>2 DEF OptionsAsAsked
      <3>2. TaintAsked = [ key    |-> TaintOf(opts, e).key,
                           value  |-> TaintOf(opts, e).value,
                           effect |-> TaintOf(opts, e).effect ]
        BY <2>5, <2>6, <2>7, <3>1 DEF TaintAsked
      <3>3. QED
        BY <3>2 DEF TaintOf
    <2>9. QED
      BY <1>2, <2>8 DEF getTaint
  <1>3. QED
    BY <1>1, <1>2

-----------------------------------------------------------------------------
(* What the steps have looked at, by the step the program has reached.     *)

LineChecked ==
  /\ line.cmd \in {"", "version", "providers"} /\ line.tag = "none"
  /\ line.cmd # "" => DOMAIN line.given = {}
  /\ line.cmd = "providers" => Len(line.args) <= 2

LevelChecked == line.logLevel # "loud"

ArgsChecked ==
  line.cmd = "providers" => line.args \in {<<>>, <<"mock">>} \/ Len(line.args) = 2

RootChecked ==
  /\ Asked("os", "linux") \in {"linux", "windows"} /\ Asked("workers", 10) # 0
  /\ Asked("disableTaint", FALSE) \/ TaintAsked.effect \in Effects

ServerChecked == ServerAsked # "error"

FilesChecked ==
  /\ IsGood(Getenv(e.cert)) /\ IsGood(Getenv(e.key))
  /\ Getenv(e.ca) # "" => IsGood(e.ca)

ProviderChecked ==
  /\ Asked("provider", "") = "mock"
  /\ \/ Asked("config", "") = ""
     \/ IsGood(Asked("config", "")) /\ NodeNameAsked \in {n \in DOMAIN e.entries : e.entries[n]}

InputValid == LineValid /\ (line.cmd = "" => EnvironmentValid)

Opened == {"listen", "running", "noPort"}
Subcommands == {"subcommand", "printed"}

LineInv ==
  /\ at \in {"persistentPreRun", "preRun"} \cup Subcommands \cup InRoot => LineChecked
  /\ at \in {"preRun"} \cup Subcommands \cup InRoot => LevelChecked
  /\ at \in Subcommands => line.cmd # ""
  /\ at = "printed" => ArgsChecked

OptionsInv ==
  /\ at = "line" => opts = LineOpts
  /\ at # "main" => (optsErr <=> BadPort(e))
  /\ at \in {"persistentPreRun", "preRun"} \cup InRoot /\ line.cmd = "" /\ ~optsErr =>
       OptionsAsAsked(opts)

CheckedInv ==
  /\ at \in InRoot \ {"checks"} => RootChecked
  /\ at \in {"newNode"} \cup InNewNode => ServerChecked
  /\ at = "options" /\ applied > 3 => FilesChecked
  /\ at \in AfterOptions => FilesChecked
  /\ at \in AfterOptions \ {"provider"} => ProviderChecked
  /\ at \in Opened => TracingValid
  /\ at = "failed" => ~InputValid

\* The node as it is put together, as far as the options are applied.
NodeIsNamed == cfg.node.name = NodeNameAsked
BaseIsSet == cfg.node.taint = TaintAsked /\ cfg.workers = Asked("workers", 10)
StatusIsSet ==
  /\ cfg.node.os = Asked("os", "linux") /\ cfg.node.version = "built"
  /\ cfg.node.address = Getenv(e.podIP)

MadeInv ==
  /\ at \in {"main", "line", "persistentPreRun", "preRun", "checks"} => taint = NoTaint
  /\ at \in InRoot \ {"checks"} => taint = TaintAsked
  /\ at \in InNewNode => NodeIsNamed
  /\ at = "options" /\ applied > 0 => BaseIsSet
  /\ at \in AfterOptions => BaseIsSet
  /\ at \in AfterOptions \ {"provider"} => StatusIsSet

AskedInv == LineInv /\ OptionsInv /\ CheckedInv /\ MadeInv

-----------------------------------------------------------------------------
(* The checks of the steps are those of the input, each for its part.      *)

\* What is said of the input stays, as the input does.
LEMMA SameWishes ==
  ASSUME in' = in
  PROVE  /\ NodeNameAsked' = NodeNameAsked /\ TaintAsked' = TaintAsked
         /\ Asked("os", "linux")' = Asked("os", "linux")
         /\ Asked("workers", 10)' = Asked("workers", 10)
         /\ ServerAsked' = ServerAsked /\ e' = e /\ line' = line /\ LineOpts' = LineOpts
  BY DEF NodeNameAsked, TaintAsked, ServerAsked, Asked, LineOpts, e, line

LEMMA SameChecks ==
  ASSUME in' = in
  PROVE  /\ LineChecked' <=> LineChecked
         /\ LevelChecked' <=> LevelChecked
         /\ ArgsChecked' <=> ArgsChecked
         /\ RootChecked' <=> RootChecked
         /\ ServerChecked' <=> ServerChecked
         /\ FilesChecked' <=> FilesChecked
         /\ ProviderChecked' <=> ProviderChecked
         /\ TracingValid' <=> TracingValid
         /\ InputValid' <=> InputValid
  <1>1. e' = e /\ line' = line /\ ServerAsked' = ServerAsked /\ NodeNameAsked' = NodeNameAsked
        /\ TaintAsked' = TaintAsked
    BY SameWishes
  <1>2. /\ LineChecked' <=> LineChecked
        /\ LevelChecked' <=> LevelChecked
        /\ ArgsChecked' <=> ArgsChecked
        /\ LineValid' <=> LineValid
    BY <1>1 DEF LineChecked, LevelChecked, ArgsChecked, LineValid
  <1>3. RootChecked' <=> RootChecked
    BY <1>1 DEF RootChecked, Asked
  <1>4. ServerChecked' <=> ServerChecked
    BY <1>1 DEF ServerChecked
  <1>5. FilesChecked' <=> FilesChecked
    BY <1>1 DEF FilesChecked, IsGood
  <1>6. ProviderChecked' <=> ProviderChecked
    BY <1>1 DEF ProviderChecked, IsGood, Asked
  <1>7. TracingValid' <=> TracingValid
    BY <1>1 DEF TracingValid, Asked
  <1>8. EnvironmentValid' <=> EnvironmentValid
    <2>1. PortAsked' = PortAsked
      BY <1>1 DEF PortAsked
    <2>2. QED
      BY <1>1, <1>3, <1>4, <1>5, <1>6, <1>7, <2>1
         DEF EnvironmentValid, RootChecked, ServerChecked, FilesChecked, ProviderChecked
  <1>9. QED
    BY <1>1, <1>2, <1>3, <1>4, <1>5, <1>6, <1>7, <1>8 DEF InputValid

LEMMA SameOptions ==
  ASSUME in' = in, NEW o, opts' = o
  PROVE  OptionsAsAsked(opts)' <=> OptionsAsAsked(o)
  <1>1. line' = line /\ NodeNameAsked' = NodeNameAsked
    BY SameWishes
  <1>2. QED
    BY <1>1 DEF OptionsAsAsked, Asked

\* What is valid is what the steps look at, each for its part.
LEMMA LineParts ==
  ASSUME in \in Inputs
  PROVE  LineValid <=> LineChecked /\ LevelChecked /\ ArgsChecked
  <1>1. line.args \in Seq(STRING)
    BY InputsAssumption DEF line
  <1>2. line.args = <<>> => Len(line.args) = 0
    OBVIOUS
  <1>3. line.args = <<"mock">> => Len(line.args) = 1
    OBVIOUS
  <1>. DEFINE n == Len(line.args)
             few == line.args \in {<<>>, <<"mock">>}
  <1>4. few \/ n = 2 => n <= 2
    <2>1. few => n \in {0, 1}
      BY <1>2, <1>3, Zenon
    <2>. HIDE DEF n, few
    <2>2. QED
      BY <2>1
  <1>5. LineValid <=>
          /\ LevelChecked /\ line.cmd \in {"", "version", "providers"} /\ line.tag = "none"
          /\ line.cmd # "" => DOMAIN line.given = {}
          /\ line.cmd = "providers" => few \/ n = 2
    BY Zenon DEF LineValid, LevelChecked
  <1>6. LineChecked <=>
          /\ line.cmd \in {"", "version", "providers"} /\ line.tag = "none"
          /\ line.cmd # "" => DOMAIN line.given = {}
          /\ line.cmd = "providers" => n <= 2
    BY Zenon DEF LineChecked
  <1>7. ArgsChecked <=> (line.cmd = "providers" => few \/ n = 2)
    BY Zenon DEF ArgsChecked
  <1>. HIDE DEF n, few
  <1>8. QED
    BY <1>4, <1>5, <1>6, <1>7, Zenon

LEMMA PortParts ==
  ASSUME in \in Inputs
  PROVE  ~BadPort(e) <=> e.portText # "word" /\ PortAsked < HalfInt32
  <1>1. e.portText \in {"", "number", "word"} /\ e.port \in Int
    BY InputsAssumption DEF e
  <1>2. CASE e.portText = ""
    <2>1. PortAsked = DefaultListenPort /\ ~BadPort(e) /\ e.portText # "word"
      BY <1>2 DEF BadPort, PortAsked
    <2>2. DefaultListenPort < HalfInt32
      BY WidthAssumption DEF DefaultListenPort, MaxPort
    <2>3. QED
      BY <2>1, <2>2
  <1>3. CASE e.portText = "number"
    <2>1. PortAsked = e.port /\ (BadPort(e) <=> e.port > HalfInt32 - 1)
      BY <1>3 DEF BadPort, PortAsked
    <2>2. QED
      BY <1>1, <1>3, <2>1, WidthAssumption
  <1>4. CASE e.portText = "word"
    BY <1>4 DEF BadPort
  <1>5. QED
    BY <1>1, <1>2, <1>3, <1>4

LEMMA EnvironmentParts ==
  ASSUME in \in Inputs
  PROVE  EnvironmentValid <=>
           /\ ~BadPort(e) /\ RootChecked /\ ServerChecked
           /\ ProviderChecked /\ FilesChecked /\ TracingValid
  <1>1. ~BadPort(e) <=> e.portText # "word" /\ PortAsked < HalfInt32
    BY PortParts
  <1>2. QED
    BY <1>1, Zenon DEF EnvironmentValid, RootChecked, ServerChecked, ProviderChecked, FilesChecked

\* The checks of runRootCommand.
LEMMA ChecksOfRoot ==
  ASSUME in \in Inputs, OptionsAsAsked(opts)
  PROVE  LET ok == /\ opts.os \in ValidOperatingSystems /\ opts.workers # 0
                   /\ opts.disableTaint \/ ~getTaint(opts, e).err
         IN  /\ ok <=> RootChecked
             /\ opts.disableTaint => TaintAsked = NoTaint
             /\ ~opts.disableTaint => getTaint(opts, e).taint = TaintAsked
  <1>1. opts.os = Asked("os", "linux") /\ opts.workers = Asked("workers", 10)
    BY DEF OptionsAsAsked
  <1>2. opts.disableTaint = Asked("disableTaint", FALSE)
    BY DEF OptionsAsAsked
  <1>3. /\ opts.disableTaint => TaintAsked = NoTaint
        /\ ~opts.disableTaint => getTaint(opts, e).taint = TaintAsked
        /\ ~opts.disableTaint => (getTaint(opts, e).err <=> TaintAsked.effect \notin Effects)
    BY TaintOfOptions
  <1>4. (opts.disableTaint \/ ~getTaint(opts, e).err)
          <=> (Asked("disableTaint", FALSE) \/ TaintAsked.effect \in Effects)
    BY <1>2, <1>3, Zenon
  <1>5. (opts.os \in ValidOperatingSystems /\ opts.workers # 0)
          <=> (Asked("os", "linux") \in {"linux", "windows"} /\ Asked("workers", 10) # 0)
    BY <1>1 DEF ValidOperatingSystems
  <1>6. QED
    BY <1>3, <1>4, <1>5, Zenon DEF RootChecked

\* The files that the last of NewNode's options that read one need.
LEMMA ChecksOfFiles ==
  ASSUME in \in Inputs
  PROVE  /\ OptionFails("auth") => ~FilesChecked
         /\ OptionFails("tls") <=> ~FilesChecked
         /\ ~OptionFails("base") /\ ~OptionFails("client") /\ ~OptionFails("routes")
  <1> DEFINE api == getAPIConfig(opts, e)
  <1>1. api.cert = Getenv(e.cert) /\ api.key = Getenv(e.key) /\ api.ca = Getenv(e.ca)
    BY DEF getAPIConfig
  <1>2. ASSUME NEW path PROVE IsGood(path) <=> FileAt(e, path) = "good"
    BY DEF IsGood, FileAt
  <1>3. Getenv(e.ca) # "" => Getenv(e.ca) = e.ca
    BY DEF Getenv
  <1>. HIDE DEF api
  <1>4. FilesChecked <=>
          /\ FileAt(e, api.cert) = "good" /\ FileAt(e, api.key) = "good"
          /\ ~(api.ca # "" /\ FileAt(e, api.ca) # "good")
    BY <1>1, <1>2, <1>3 DEF FilesChecked
  <1>5. ASSUME NEW o
        PROVE OptionFails(o) <=>
                \/ o = "auth" /\ api.ca # "" /\ FileAt(e, api.ca) # "good"
                \/ o = "tls" /\ \/ FileAt(e, api.cert) # "good" \/ FileAt(e, api.key) # "good"
                                \/ api.ca # "" /\ FileAt(e, api.ca) # "good"
    BY DEF OptionFails, api
  <1>6. QED
    BY <1>4, <1>5

LEMMA ChecksOfProvider ==
  ASSUME OptionsAsAsked(opts)
  PROVE  (opts.provider \in Registered /\ loadConfig(opts.config, opts.nodename))
           <=> ProviderChecked
  <1>1. opts.provider = Asked("provider", "") /\ opts.config = Asked("config", "")
        /\ opts.nodename = NodeNameAsked
    BY DEF OptionsAsAsked
  <1>2. ASSUME NEW path PROVE IsGood(path) <=> path # "" /\ FileAt(e, path) = "good"
    BY DEF IsGood, FileAt
  <1>3. QED
    BY <1>1, <1>2 DEF ProviderChecked, loadConfig, Registered

\* setupTracing.
LEMMA ChecksOfTracing ==
  ASSUME in \in Inputs, OptionsAsAsked(opts)
  PROVE  (~ReservedTag /\ BadExporters = {} /\ TracingSampler # "error") <=> TracingValid
  <1> DEFINE asked == Asked("exporters", <<>>)
  <1>1. opts.exporters = asked /\ opts.sampleRate = Asked("sampleRate", "")
    BY DEF OptionsAsAsked
  <1>2. asked \in Seq(STRING)
    <2>1. CASE "exporters" \in DOMAIN line.given
      <3>1. line.given.exporters \in Seq(STRING)
        BY <2>1, InputsAssumption DEF line
      <3>2. QED
        BY <2>1, <3>1, Zenon DEF Asked
    <2>2. CASE "exporters" \notin DOMAIN line.given
      <3>1. <<>> \in Seq(STRING)
        OBVIOUS
      <3>2. QED
        BY <2>2, <3>1, Zenon DEF Asked
    <2>3. QED
      BY <2>1, <2>2
  <1>3. ~ReservedTag
    <2>1. opts.tags = ZeroOpts.tags
      BY DEF OptionsAsAsked
    <2>2. ZeroOpts.tags.keys = {}
      BY DEF ZeroOpts
    <2>3. QED
      BY <2>1, <2>2, Zenon DEF ReservedTag
  <1>4. e.insecure \in {"", "off", "on", "perhaps"}
    BY InputsAssumption DEF e
  <1>5. ASSUME NEW x
        PROVE  GetTracingExporter(x) <=>
                 /\ x \in {"zpages", "jaeger", "ocagent"} /\ (x = "jaeger" => e.jaeger)
                 /\ x = "ocagent" => e.ocagent /\ e.insecure # "perhaps"
    <2>1. NewOCAgentExporter <=> e.ocagent /\ e.insecure # "perhaps"
      BY <1>4, Zenon DEF NewOCAgentExporter
    <2>2. CASE x = "zpages"
      BY <2>2 DEF GetTracingExporter
    <2>3. CASE x = "jaeger"
      BY <2>3 DEF GetTracingExporter, NewJaegerExporter
    <2>4. CASE x = "ocagent"
      BY <2>1, <2>4 DEF GetTracingExporter
    <2>5. CASE x \notin {"zpages", "jaeger", "ocagent"}
      BY <2>5 DEF GetTracingExporter
    <2>6. QED
      BY <2>2, <2>3, <2>4, <2>5
  <1>6. TracingSampler = "error" <=> opts.exporters # <<>> /\ opts.sampleRate = "word"
    <2>1. ASSUME NEW rate, NEW percent
          PROVE  Sampler(rate, percent) = "error" <=> rate = "word"
      <3>1. CASE rate = "word"
        BY <3>1 DEF Sampler
      <3>2. CASE rate \in {"always", "never"}
        BY <3>2 DEF Sampler
      <3>3. CASE rate \notin {"always", "never", "word"}
        <4>1. CASE rate = "number" /\ 0 <= percent /\ percent <= 100
          BY <3>3, <4>1 DEF Sampler
        <4>2. CASE ~(rate = "number" /\ 0 <= percent /\ percent <= 100)
          BY <3>3, <4>2, Zenon DEF Sampler
        <4>3. QED
          BY <4>1, <4>2
      <3>4. QED
        BY <3>1, <3>2, <3>3
    <2>2. CASE opts.exporters = <<>>
      BY <2>2 DEF TracingSampler
    <2>3. CASE opts.exporters # <<>>
      BY <2>1, <2>3, Zenon DEF TracingSampler
    <2>4. QED
      BY <2>2, <2>3
  <1>7. asked # <<>> <=> \E i \in DOMAIN asked : TRUE
    BY <1>2
  <1>8. BadExporters = {} <=>
          \A i \in DOMAIN asked :
             /\ asked[i] \in {"zpages", "jaeger", "ocagent"}
             /\ asked[i] = "jaeger" => e.jaeger
             /\ asked[i] = "ocagent" => e.ocagent /\ e.insecure # "perhaps"
    <2>1. BadExporters = {} <=> \A i \in DOMAIN asked : GetTracingExporter(asked[i])
      BY <1>1, Zenon DEF BadExporters
    <2>2. QED
      BY <1>5, <2>1, Zenon
  <1>. HIDE DEF asked
  <1>9. QED
    BY <1>1, <1>3, <1>6, <1>7, <1>8 DEF TracingValid, asked

-----------------------------------------------------------------------------
(* Every step keeps what is checked, set and made.                         *)

LEMMA AskedInit == Init => AskedInv
  <1> SUFFICES ASSUME Init PROVE AskedInv
    OBVIOUS
  <1>1. at = "main" /\ taint = NoTaint /\ cfg = NewNodeConfig("", "none")
    BY DEF Init
  <1>2. cfg.handler.auth = "none"
    BY <1>1, NewConfig
  <1>3. LineInv /\ OptionsInv
    BY <1>1 DEF LineInv, OptionsInv, Subcommands, InRoot, InNewNode, AfterOptions
  <1>4. CheckedInv
    BY <1>1 DEF CheckedInv, Opened, InRoot, InNewNode, AfterOptions
  <1>5. MadeInv
    BY <1>1, <1>2 DEF MadeInv, InRoot, InNewNode, AfterOptions
  <1>6. QED
    BY <1>3, <1>4, <1>5 DEF AskedInv

LEMMA AskedDefaults ==
  ASSUME StartupInv, AskedInv, SetDefaults
  PROVE  AskedInv'
  <1>1. /\ at = "main" /\ at' = "line" /\ opts = ZeroOpts /\ taint = NoTaint
        /\ UNCHANGED <<in, taint, cfg>>
        /\ opts' = [SetDefaultOpts(opts, e).opts EXCEPT !.version = "built"]
        /\ optsErr' = SetDefaultOpts(opts, e).err
    BY DEF SetDefaults, StartupInv, OptsInv, AskedInv, MadeInv
  <1>2. e' = e /\ LineOpts' = LineOpts /\ NodeNameAsked' = NodeNameAsked
    BY <1>1, SameWishes
  <1>3. opts' = LineOpts
    BY <1>1 DEF LineOpts
  <1>4. optsErr' <=> BadPort(e)
    <2>1. SetDefaultOpts(ZeroOpts, e).err = BadPort(e)
      BY DefaultedFields
    <2>2. QED
      BY <1>1, <2>1, Zenon
  <1>5. LineInv' /\ OptionsInv'
    BY <1>1, <1>2, <1>3, <1>4
       DEF LineInv, OptionsInv, Subcommands, InRoot, InNewNode, AfterOptions
  <1>6. CheckedInv'
    BY <1>1 DEF CheckedInv, Opened, InRoot, InNewNode, AfterOptions
  <1>7. MadeInv'
    BY <1>1, <1>2 DEF AskedInv, MadeInv, InRoot, InNewNode, AfterOptions
  <1>8. QED
    BY <1>5, <1>6, <1>7 DEF AskedInv

LEMMA UpToTwo ==
  ASSUME NEW n \in Nat
  PROVE  (n > 2 <=> ~(n <= 2)) /\ (n <= 2 => n \in {0, 1, 2})
  OBVIOUS

LEMMA AskedLine ==
  ASSUME StartupInv, AskedInv, ParseLine
  PROVE  AskedInv'
  <1>1. /\ at = "line" /\ UNCHANGED <<in, optsErr, taint, cfg>>
        /\ opts = LineOpts /\ (optsErr <=> BadPort(e)) /\ in \in Inputs /\ taint = NoTaint
    BY DEF ParseLine, AskedInv, OptionsInv, MadeInv, StartupInv
  <1>2. opts' = IF line.cmd = "" THEN ParseFlags(opts, line.given) ELSE opts
    BY DEF ParseLine
  <1>3. e' = e /\ line' = line /\ NodeNameAsked' = NodeNameAsked
    BY <1>1, SameWishes
  <1>4. /\ LineChecked' <=> LineChecked
        /\ InputValid' <=> InputValid
    BY <1>1, SameChecks
  \* The map of the tags is nil: no tag is set.
  <1>5. line.tag # "none" => SetTag(opts.tags, line.tag) \in {"error", "panic"}
    <2>1. opts.tags = ZeroOpts.tags
      BY <1>1, LineOptsFields
    <2>2. ZeroOpts.tags.nil = TRUE
      BY DEF ZeroOpts
    <2>3. QED
      BY <2>1, <2>2 DEF SetTag
  <1>6. Len(line.args) \in Nat
    <2>1. line.args \in Seq(STRING)
      BY <1>1, InputsAssumption DEF line
    <2>2. QED
      BY <2>1
  <1>7. ~LineIsWrong /\ ~LinePanics => LineChecked
    <2>1. SUFFICES ASSUME ~LineIsWrong, ~LinePanics PROVE LineChecked
      OBVIOUS
    <2>2. CASE line.cmd = ""
      BY <1>5, <2>1, <2>2 DEF LineIsWrong, LinePanics, LineChecked
    <2>3. CASE line.cmd = "version"
      BY <2>1, <2>3 DEF LineIsWrong, LineChecked
    <2>4. CASE line.cmd = "providers"
      <3>1. Len(line.args) \in Nat
        BY <1>6
      <3>2. line.tag = "none" /\ DOMAIN line.given = {} /\ ~(Len(line.args) > 2)
        BY <2>1, <2>4 DEF LineIsWrong
      <3>3. Len(line.args) <= 2
        BY <3>1, <3>2, UpToTwo, Zenon
      <3>4. QED
        BY <2>4, <3>2, <3>3, Zenon DEF LineChecked
    <2>5. CASE line.cmd \notin {"", "version", "providers"}
      BY <2>1, <2>5 DEF LineIsWrong
    <2>6. QED
      BY <2>2, <2>3, <2>4, <2>5
  <1>8. LineIsWrong => ~LineChecked
    <2>1. CASE line.cmd = ""
      BY <2>1 DEF LineIsWrong, LineChecked
    <2>2. CASE line.cmd = "version"
      BY <2>2 DEF LineIsWrong, LineChecked
    <2>3. CASE line.cmd = "providers"
      <3>1. Len(line.args) \in Nat
        BY <1>6
      <3>2. LineIsWrong => line.tag # "none" \/ DOMAIN line.given # {} \/ Len(line.args) > 2
        BY <2>3 DEF LineIsWrong
      <3>3. Len(line.args) > 2 => ~(Len(line.args) <= 2)
        BY <3>1, UpToTwo, Zenon
      <3>4. line.cmd # ""
        BY <2>3
      <3>5. QED
        BY <2>3, <3>2, <3>3, <3>4, Zenon DEF LineChecked
    <2>4. CASE line.cmd \notin {"", "version", "providers"}
      BY <2>4 DEF LineChecked
    <2>5. QED
      BY <2>1, <2>2, <2>3, <2>4
  <1>9. ~LineChecked => ~InputValid
    BY <1>1, LineParts, Zenon DEF InputValid
  <1>10. \/ at' = "failed" /\ ~InputValid
         \/ at' = "panicked"
         \/ at' = "persistentPreRun" /\ LineChecked
    <2>1. at' = IF LineIsWrong THEN "failed" ELSE IF LinePanics THEN "panicked" ELSE "persistentPreRun"
      BY Zenon DEF ParseLine
    <2>2. CASE LineIsWrong
      BY <1>8, <1>9, <2>1, <2>2, Zenon
    <2>3. CASE ~LineIsWrong /\ LinePanics
      BY <2>1, <2>3, Zenon
    <2>4. CASE ~LineIsWrong /\ ~LinePanics
      BY <1>7, <2>1, <2>4, Zenon
    <2>5. QED
      BY <2>2, <2>3, <2>4, Zenon
  <1>11. line.cmd = "" /\ ~optsErr => OptionsAsAsked(opts)'
    <2> SUFFICES ASSUME line.cmd = "", ~optsErr PROVE OptionsAsAsked(opts)'
      OBVIOUS
    <2>1. opts' = ParseFlags(LineOpts, line.given)
      BY <1>1, <1>2
    <2>2. OptionsAsAsked(ParseFlags(LineOpts, line.given))
      BY <1>1, ParsedOptions
    <2>3. QED
      BY <1>1, <2>1, <2>2, SameOptions
  <1>12. LineInv'
    BY <1>1, <1>4, <1>10 DEF LineInv, Subcommands, InRoot, InNewNode, AfterOptions
  <1>13. OptionsInv'
    BY <1>1, <1>3, <1>10, <1>11 DEF OptionsInv, InRoot, InNewNode, AfterOptions
  <1>14. CheckedInv'
    BY <1>4, <1>10 DEF CheckedInv, Opened, InRoot, InNewNode, AfterOptions
  <1>15. MadeInv'
    BY <1>1, <1>3, <1>10 DEF AskedInv, MadeInv, InRoot, InNewNode, AfterOptions
  <1>16. QED
    BY <1>12, <1>13, <1>14, <1>15 DEF AskedInv

LEMMA AskedPreRun ==
  ASSUME StartupInv, AskedInv, PersistentPreRun \/ PreRun \/ RunSubcommand
  PROVE  AskedInv'
  <1>1. /\ UNCHANGED <<in, opts, optsErr, taint, cfg>> /\ in \in Inputs /\ optsErr \in BOOLEAN
        /\ at \in {"persistentPreRun", "preRun", "subcommand"}
    BY DEF PersistentPreRun, PreRun, RunSubcommand, StartupInv, StartupTypeOK
  <1>2. LineChecked /\ (at # "persistentPreRun" => LevelChecked)
        /\ (at = "subcommand" => line.cmd # "") /\ (optsErr <=> BadPort(e))
        /\ (at = "preRun" => line.cmd = "")
    BY <1>1 DEF AskedInv, LineInv, OptionsInv, Subcommands, StartupInv, OptsInv
  <1>3. /\ LineValid <=> LineChecked /\ LevelChecked /\ ArgsChecked
        /\ BadPort(e) => ~EnvironmentValid
    BY <1>1, LineParts, EnvironmentParts
  <1>4. line.logLevel \in {"", "info"} <=> LevelChecked
    BY <1>1, InputsAssumption DEF LevelChecked, line
  <1>5. (line.cmd = "providers" /\ Len(line.args) = 1 /\ line.args[1] \notin Registered)
          <=> ~ArgsChecked
    <2>1. line.args \in Seq(STRING)
      BY <1>1, InputsAssumption DEF line
    <2>2. line.cmd = "providers" => Len(line.args) \in {0, 1, 2}
      <3>1. line.cmd = "providers" => Len(line.args) <= 2
        BY <1>2 DEF LineChecked
      <3>2. Len(line.args) \in Nat
        BY <2>1
      <3>3. QED
        BY <3>1, <3>2, UpToTwo, Zenon
    <2>3. line.args = <<>> <=> Len(line.args) = 0
      BY <2>1
    <2>4. line.args = <<"mock">> <=> Len(line.args) = 1 /\ line.args[1] = "mock"
      <3>1. ASSUME NEW args \in Seq(STRING), Len(args) = 1, args[1] = "mock"
            PROVE  args = <<"mock">>
        <4>1. DOMAIN args = {1} /\ args = [i \in DOMAIN args |-> args[i]]
          BY <3>1
        <4>2. DOMAIN <<"mock">> = {1} /\ <<"mock">> = [i \in {1} |-> "mock"]
          OBVIOUS
        <4>3. QED
          BY <3>1, <4>1, <4>2
      <3>2. Len(<<"mock">>) = 1 /\ <<"mock">>[1] = "mock"
        OBVIOUS
      <3>3. QED
        BY <2>1, <3>1, <3>2, Zenon
    <2>. DEFINE n == Len(line.args)
    <2>5. line.cmd = "providers" => (ArgsChecked <=> n = 0 \/ n = 2 \/ (n = 1 /\ line.args[1] = "mock"))
      BY <2>3, <2>4, Zenon DEF ArgsChecked
    <2>6. line.cmd # "providers" => ArgsChecked
      BY Zenon DEF ArgsChecked
    <2>. HIDE DEF n
    <2>7. line.args[1] \notin Registered <=> line.args[1] # "mock"
      BY DEF Registered
    <2>8. line.cmd = "providers" => n \in {0, 1, 2}
      BY <2>2 DEF n
    <2>9. (line.cmd = "providers" /\ n = 1 /\ line.args[1] # "mock") <=> ~ArgsChecked
      BY <2>5, <2>6, <2>8
    <2>10. QED
      BY <2>7, <2>9, Zenon DEF n
  <1>6. \/ at = "persistentPreRun" /\ at' = "preRun" /\ line.cmd = "" /\ LevelChecked
        \/ at = "persistentPreRun" /\ at' = "subcommand" /\ line.cmd # "" /\ LevelChecked
        \/ at = "preRun" /\ at' = "checks" /\ LevelChecked
        \/ at = "subcommand" /\ at' = "printed" /\ line.cmd # "" /\ ArgsChecked /\ LevelChecked
        \/ at' = "failed" /\ ~InputValid
    <2>1. CASE PersistentPreRun
      <3>1. at = "persistentPreRun"
            /\ at' = IF line.logLevel \in {"", "info"}
                     THEN IF line.cmd = "" THEN "preRun" ELSE "subcommand" ELSE "failed"
        BY <2>1 DEF PersistentPreRun, ContinueIf
      <3>2. ~LevelChecked => ~InputValid
        BY <1>3, Zenon DEF InputValid
      <3>3. QED
        BY <1>4, <3>1, <3>2
    <2>2. CASE PreRun
      <3>1. at = "preRun" /\ at' = IF ~optsErr THEN "checks" ELSE "failed"
        BY <2>2 DEF PreRun, ContinueIf
      <3>2. optsErr => ~InputValid
        BY <1>2, <1>3, <3>1, Zenon DEF InputValid
      <3>3. LevelChecked
        BY <1>2, <3>1
      <3>4. QED
        BY <3>1, <3>2, <3>3
    <2>3. CASE RunSubcommand
      <3>1. at = "subcommand"
        BY <2>3 DEF RunSubcommand
      <3>2. at' = IF ~ArgsChecked THEN "failed" ELSE "printed"
        BY <1>5, <2>3, Zenon DEF RunSubcommand
      <3>3. ~ArgsChecked => ~InputValid
        BY <1>3, Zenon DEF InputValid
      <3>4. LevelChecked /\ line.cmd # ""
        BY <1>2, <3>1
      <3>5. QED
        BY <3>1, <3>2, <3>3, <3>4
    <2>4. QED
      BY <2>1, <2>2, <2>3
  <1>7. e' = e /\ line' = line /\ NodeNameAsked' = NodeNameAsked
    BY <1>1, SameWishes
  <1>8. /\ LineChecked' <=> LineChecked
        /\ LevelChecked' <=> LevelChecked
        /\ ArgsChecked' <=> ArgsChecked
        /\ InputValid' <=> InputValid
        /\ OptionsAsAsked(opts)' <=> OptionsAsAsked(opts)
    BY <1>1, SameChecks, SameOptions
  <1>9. LineInv'
    BY <1>2, <1>6, <1>7, <1>8 DEF LineInv, Subcommands, InRoot, InNewNode, AfterOptions
  <1>10. OptionsInv'
    BY <1>1, <1>2, <1>6, <1>7, <1>8 DEF AskedInv, OptionsInv, InRoot, InNewNode, AfterOptions
  <1>11. CheckedInv'
    BY <1>6, <1>8 DEF CheckedInv, Opened, InRoot, InNewNode, AfterOptions
  <1>12. MadeInv'
    BY <1>1, <1>6, <1>7 DEF AskedInv, MadeInv, InRoot, InNewNode, AfterOptions
  <1>13. QED
    BY <1>9, <1>10, <1>11, <1>12 DEF AskedInv

-----------------------------------------------------------------------------
(* The steps of runRootCommand.                                            *)

LEMMA RootOptions ==
  ASSUME StartupInv, AskedInv, at \in InRoot
  PROVE  /\ in \in Inputs /\ OptionsAsAsked(opts) /\ ~BadPort(e) /\ line.cmd = ""
         /\ ~(RootChecked /\ ServerChecked /\ FilesChecked /\ ProviderChecked /\ TracingValid)
              => ~InputValid
  <1>1. in \in Inputs /\ line.cmd = "" /\ ~optsErr /\ at # "main"
    BY DEF StartupInv, OptsInv, InRoot, InNewNode, AfterOptions
  <1>2. OptionsAsAsked(opts) /\ ~BadPort(e)
    BY <1>1 DEF AskedInv, OptionsInv
  <1>3. InputValid => EnvironmentValid
    BY <1>1, Zenon DEF InputValid
  <1>4. QED
    BY <1>1, <1>2, <1>3, EnvironmentParts, Zenon

\* None of them changes the options.
LEMMA RootStep ==
  ASSUME StartupInv, AskedInv, UNCHANGED <<in, opts, optsErr>>,
         at \in InRoot, at' \in InRoot \cup {"failed"}
  PROVE  LineInv' /\ OptionsInv'
  <1>1. OptionsAsAsked(opts) /\ at # "main" /\ (optsErr <=> BadPort(e)) /\ LineChecked /\ LevelChecked
    BY RootOptions DEF AskedInv, OptionsInv, LineInv, InRoot, InNewNode, AfterOptions
  <1>2. e' = e
    BY SameWishes
  <1>3. /\ LineChecked' <=> LineChecked
        /\ LevelChecked' <=> LevelChecked
        /\ OptionsAsAsked(opts)' <=> OptionsAsAsked(opts)
    BY SameChecks, SameOptions
  <1>4. LineInv'
    BY <1>1, <1>3 DEF LineInv, Subcommands, InRoot, InNewNode, AfterOptions
  <1>5. OptionsInv'
    BY <1>1, <1>2, <1>3 DEF OptionsInv, InRoot, InNewNode, AfterOptions
  <1>6. QED
    BY <1>4, <1>5

LEMMA AskedChecks ==
  ASSUME StartupInv, AskedInv, CheckOptions \/ MakeClient
  PROVE  AskedInv'
  <1>1. /\ UNCHANGED <<in, opts, optsErr, cfg>> /\ at \in {"checks", "client"}
        /\ in \in Inputs /\ OptionsAsAsked(opts)
        /\ ~(RootChecked /\ ServerChecked /\ FilesChecked /\ ProviderChecked /\ TracingValid)
             => ~InputValid
    <2>1. UNCHANGED <<in, opts, optsErr, cfg>> /\ at \in {"checks", "client"}
      BY DEF CheckOptions, MakeClient
    <2>2. at \in InRoot
      BY <2>1 DEF InRoot
    <2>3. QED
      BY <2>1, <2>2, RootOptions
  <1>2. at = "checks" => taint = NoTaint
    BY DEF AskedInv, MadeInv
  <1>3. at = "client" => taint = TaintAsked /\ RootChecked
    BY DEF AskedInv, MadeInv, CheckedInv, InRoot
  <1>4. \/ at' = "failed" /\ ~InputValid
        \/ at = "checks" /\ at' = "client" /\ RootChecked /\ taint' = TaintAsked
        \/ at = "client" /\ at' = "newNode" /\ ServerChecked /\ RootChecked /\ taint' = TaintAsked
    <2>1. CASE CheckOptions
      <3> DEFINE ok == /\ opts.os \in ValidOperatingSystems /\ opts.workers # 0
                       /\ opts.disableTaint \/ ~getTaint(opts, e).err
      <3>1. at = "checks" /\ ContinueIf(ok, "client")
            /\ taint' = IF ok /\ ~opts.disableTaint THEN getTaint(opts, e).taint ELSE taint
        BY <2>1, Zenon DEF CheckOptions
      <3>2. /\ ok <=> RootChecked
            /\ opts.disableTaint => TaintAsked = NoTaint
            /\ ~opts.disableTaint => getTaint(opts, e).taint = TaintAsked
        BY <1>1, ChecksOfRoot
      <3>. HIDE DEF ok
      <3>3. CASE ok
        BY <1>2, <3>1, <3>2, <3>3 DEF ContinueIf
      <3>4. CASE ~ok
        BY <1>1, <3>1, <3>2, <3>4, Zenon DEF ContinueIf
      <3>5. QED
        BY <3>3, <3>4
    <2>2. CASE MakeClient
      <3>1. at = "client" /\ taint' = taint /\ client' = ClientsetFromEnv(opts.kubeconfig, e)
            /\ at' = IF client' # "error" THEN "newNode" ELSE "failed"
        BY <2>2 DEF MakeClient, ContinueIf
      <3>2. opts.kubeconfig = PathAsked
        BY <3>1 DEF StartupInv, OptsInv, InRoot
      <3>3. client' = ServerAsked
        BY <1>1, <3>1, <3>2, ServerOfPath DEF PathAsked
      <3>4. CASE ServerChecked
        BY <1>3, <3>1, <3>3, <3>4 DEF ServerChecked
      <3>5. CASE ~ServerChecked
        BY <1>1, <3>1, <3>3, <3>5, Zenon DEF ServerChecked
      <3>6. QED
        BY <3>4, <3>5
    <2>3. QED
      BY <2>1, <2>2
  <1>5. LineInv' /\ OptionsInv'
    BY <1>1, <1>4, RootStep DEF InRoot
  <1>6. /\ RootChecked' <=> RootChecked
        /\ ServerChecked' <=> ServerChecked
        /\ InputValid' <=> InputValid
        /\ TaintAsked' = TaintAsked /\ NodeNameAsked' = NodeNameAsked
    BY <1>1, SameChecks, SameWishes
  <1>7. CheckedInv'
    BY <1>4, <1>6 DEF CheckedInv, Opened, InRoot, InNewNode, AfterOptions
  <1>8. MadeInv'
    BY <1>1, <1>4, <1>6 DEF AskedInv, MadeInv, InRoot, InNewNode, AfterOptions
  <1>9. QED
    BY <1>5, <1>7, <1>8 DEF AskedInv

LEMMA AskedNewNode ==
  ASSUME StartupInv, AskedInv, StartNewNode
  PROVE  AskedInv'
  <1>1. /\ UNCHANGED <<in, opts, optsErr, taint, applied>> /\ at = "newNode" /\ at' = "options"
        /\ cfg' = NewNodeConfig(opts.nodename, DefaultClientFromEnv(e))
    BY DEF StartNewNode
  <1>2. OptionsAsAsked(opts) /\ RootChecked /\ ServerChecked /\ taint = TaintAsked /\ applied = 0
    BY <1>1, RootOptions
       DEF AskedInv, CheckedInv, MadeInv, StartupInv, NodeInv, Stages, InRoot, InNewNode, AfterOptions
  <1>3. cfg'.node.name = NodeNameAsked /\ cfg'.handler.auth = "none"
    <2>1. opts.nodename = NodeNameAsked
      BY <1>2 DEF OptionsAsAsked
    <2>2. QED
      BY <1>1, <2>1, NewConfig
  <1>4. LineInv' /\ OptionsInv'
    BY <1>1, RootStep DEF InRoot, InNewNode
  <1>5. /\ RootChecked' <=> RootChecked
        /\ ServerChecked' <=> ServerChecked
        /\ TaintAsked' = TaintAsked /\ NodeNameAsked' = NodeNameAsked
    BY <1>1, SameChecks, SameWishes
  <1>6. CheckedInv'
    BY <1>1, <1>2, <1>5 DEF CheckedInv, Opened, InRoot, InNewNode, AfterOptions
  <1>7. MadeInv'
    BY <1>1, <1>2, <1>3, <1>5 DEF MadeInv, NodeIsNamed, InRoot, InNewNode, AfterOptions
  <1>8. QED
    BY <1>4, <1>6, <1>7 DEF AskedInv

\* What the options set that is asked for, and what they leave.
LEMMA OptionWishes ==
  ASSUME StartupTypeOK
  PROVE  /\ setBase(cfg).node.taint = taint /\ setBase(cfg).workers = opts.workers
         /\ \A c \in {WithClient(cfg), setAuth(cfg), WithTLSConfig(cfg), AttachProviderRoutes(cfg)} :
              c.node = cfg.node /\ c.workers = cfg.workers
  <1>1. /\ {"client", "handler", "addr", "tls", "attacher", "node", "timeout", "workers"}
             \subseteq DOMAIN cfg
        /\ {"name", "taint", "os", "arch"} \subseteq DOMAIN cfg.node
    BY DEF StartupTypeOK, NewNodeConfig, NewNodeSpec
  <1>2. setBase(cfg).node.taint = taint /\ setBase(cfg).workers = opts.workers
    BY <1>1 DEF setBase
  <1>3. setAuth(cfg).node = cfg.node /\ setAuth(cfg).workers = cfg.workers
    BY <1>1 DEF setAuth
  <1>4. QED
    BY <1>1, <1>2, <1>3 DEF WithClient, WithTLSConfig, AttachProviderRoutes

LEMMA AskedOption ==
  ASSUME StartupInv, AskedInv, ApplyOption
  PROVE  AskedInv'
  <1> DEFINE o == NodeOptions[applied + 1]
  <1>1. /\ NodeOptions[1] = "base" /\ NodeOptions[2] = "client" /\ NodeOptions[3] = "auth"
        /\ NodeOptions[4] = "tls" /\ NodeOptions[5] = "routes" /\ Len(NodeOptions) = 5
    BY DEF NodeOptions
  <1>2. /\ at = "options" /\ applied \in 0..4 /\ applied' = applied + 1
        /\ UNCHANGED <<in, opts, optsErr, taint>>
    <2>1. applied \in 0..5 /\ applied < 5
      BY <1>1 DEF ApplyOption, StartupInv, StartupTypeOK
    <2>2. QED
      BY <2>1 DEF ApplyOption
  <1>3. /\ in \in Inputs /\ OptionsAsAsked(opts) /\ RootChecked /\ ServerChecked
        /\ taint = TaintAsked
        /\ ~(RootChecked /\ ServerChecked /\ FilesChecked /\ ProviderChecked /\ TracingValid)
             => ~InputValid
    BY <1>2, RootOptions DEF AskedInv, CheckedInv, MadeInv, InRoot, InNewNode, AfterOptions
  <1>4. \/ applied = 0 /\ o = "base"
        \/ applied = 1 /\ o = "client"
        \/ applied = 2 /\ o = "auth"
        \/ applied = 3 /\ o = "tls"
        \/ applied = 4 /\ o = "routes"
    BY <1>1, <1>2
  <1>5. /\ at' = IF OptionFails(o) THEN "failed"
                 ELSE IF applied + 1 = Len(NodeOptions) THEN "provider" ELSE "options"
        /\ OptionFails(o) => cfg' = cfg
        /\ ~OptionFails(o) =>
             cfg' = CASE o = "base"   -> setBase(cfg)
                      [] o = "client" -> WithClient(cfg)
                      [] o = "auth"   -> setAuth(cfg)
                      [] o = "tls"    -> WithTLSConfig(cfg)
                      [] o = "routes" -> AttachProviderRoutes(cfg)
    BY Zenon DEF ApplyOption, ContinueIf
  <1>6. /\ OptionFails(o) => ~FilesChecked
        /\ o = "tls" /\ ~OptionFails(o) => FilesChecked
    BY <1>3, <1>4, ChecksOfFiles
  <1>7. applied > 3 => FilesChecked
    BY <1>2 DEF AskedInv, CheckedInv
  <1>8. /\ cfg.node.name = NodeNameAsked /\ (applied > 0 => BaseIsSet)
        /\ opts.nodename = NodeNameAsked /\ opts.workers = Asked("workers", 10)
    BY <1>2, <1>3
       DEF AskedInv, MadeInv, NodeIsNamed, OptionsAsAsked, InRoot, InNewNode, AfterOptions
  <1>. HIDE DEF o
  <1>9. \/ at' = "failed" /\ cfg' = cfg /\ ~FilesChecked
        \/ /\ at' = IF applied = 4 THEN "provider" ELSE "options"
           /\ applied >= 3 => FilesChecked
           /\ \/ applied = 0 /\ cfg' = setBase(cfg)
              \/ applied = 1 /\ cfg' = WithClient(cfg)
              \/ applied = 2 /\ cfg' = setAuth(cfg)
              \/ applied = 3 /\ cfg' = WithTLSConfig(cfg)
              \/ applied = 4 /\ cfg' = AttachProviderRoutes(cfg)
    <2>1. CASE OptionFails(o)
      BY <1>5, <1>6, <2>1
    <2>2. CASE ~OptionFails(o)
      <3>1. at' = IF applied = 4 THEN "provider" ELSE "options"
        BY <1>1, <1>2, <1>5, <2>2
      <3>2. applied >= 3 => FilesChecked
        BY <1>2, <1>4, <1>6, <1>7, <2>2
      <3>3. QED
        BY <1>4, <1>5, <2>2, <3>1, <3>2
    <2>3. QED
      BY <2>1, <2>2
  <1>10. StartupTypeOK
    BY DEF StartupInv
  <1>11. cfg'.node.name = NodeNameAsked
    BY <1>8, <1>9, <1>10, OptionFields
  <1>13. at' # "failed" => cfg'.node.taint = TaintAsked /\ cfg'.workers = Asked("workers", 10)
    BY <1>2, <1>3, <1>8, <1>9, <1>10, OptionWishes DEF BaseIsSet
  <1>14. LineInv' /\ OptionsInv'
    BY <1>2, <1>9, RootStep DEF InRoot, InNewNode, AfterOptions
  <1>15. /\ RootChecked' <=> RootChecked
         /\ ServerChecked' <=> ServerChecked
         /\ FilesChecked' <=> FilesChecked
         /\ InputValid' <=> InputValid
         /\ TaintAsked' = TaintAsked /\ NodeNameAsked' = NodeNameAsked
         /\ Asked("workers", 10)' = Asked("workers", 10)
    BY <1>2, SameChecks, SameWishes
  <1>16. CheckedInv'
    BY <1>2, <1>3, <1>9, <1>15 DEF CheckedInv, Opened, InRoot, InNewNode, AfterOptions
  <1>17. at' # "failed" => BaseIsSet'
    BY <1>13, <1>15 DEF BaseIsSet
  <1>18. MadeInv'
    BY <1>2, <1>3, <1>9, <1>11, <1>15, <1>17
       DEF MadeInv, NodeIsNamed, InRoot, InNewNode, AfterOptions
  <1>19. QED
    BY <1>14, <1>16, <1>18 DEF AskedInv

LEMMA AskedProvider ==
  ASSUME StartupInv, AskedInv, MakeProvider \/ FinishNode
  PROVE  AskedInv'
  <1>1. /\ UNCHANGED <<in, opts, optsErr, taint>> /\ at \in {"provider", "controllers"}
    BY DEF MakeProvider, FinishNode
  <1>2. /\ in \in Inputs /\ OptionsAsAsked(opts)
        /\ ~(RootChecked /\ ServerChecked /\ FilesChecked /\ ProviderChecked /\ TracingValid)
             => ~InputValid
    BY <1>1, RootOptions DEF InRoot, InNewNode, AfterOptions
  <1>3. /\ RootChecked /\ ServerChecked /\ FilesChecked /\ taint = TaintAsked
        /\ NodeIsNamed /\ BaseIsSet
        /\ at = "controllers" => ProviderChecked /\ StatusIsSet
    BY <1>1 DEF AskedInv, CheckedInv, MadeInv, InRoot, InNewNode, AfterOptions
  <1>4. /\ {"handler", "workers", "node", "attached"} \subseteq DOMAIN cfg
        /\ {"name", "taint", "os", "arch", "daemonPort", "address", "version"}
             \subseteq DOMAIN cfg.node
    BY DEF StartupInv, StartupTypeOK, NewNodeConfig, NewNodeSpec
  <1>. DEFINE configured == [ConfigureNode(cfg.node) EXCEPT !.version = opts.version]
  <1>5. \/ at = "provider" /\ at' = "failed" /\ cfg' = cfg /\ ~ProviderChecked
        \/ /\ at = "provider" /\ at' = "controllers" /\ ProviderChecked
           /\ cfg' = [cfg EXCEPT !.node = configured]
        \/ /\ at = "controllers" /\ at' = "tracing" /\ ProviderChecked
           /\ cfg' = [cfg EXCEPT !.attached = cfg.attacher, !.handler = Router]
    <2>1. CASE MakeProvider
      <3> DEFINE ok == opts.provider \in Registered /\ loadConfig(opts.config, opts.nodename)
      <3>1. /\ at = "provider" /\ at' = IF ok THEN "controllers" ELSE "failed"
            /\ ok => cfg' = [cfg EXCEPT !.node = [ConfigureNode(@) EXCEPT !.version = opts.version]]
            /\ ~ok => cfg' = cfg
        BY <2>1, Zenon DEF MakeProvider, ContinueIf
      <3>2. ok <=> ProviderChecked
        BY <1>2, ChecksOfProvider
      <3>3. [cfg EXCEPT !.node = [ConfigureNode(@) EXCEPT !.version = opts.version]]
              = [cfg EXCEPT !.node = configured]
        OBVIOUS
      <3>. HIDE DEF ok, configured
      <3>4. QED
        BY <3>1, <3>2, <3>3, Zenon
    <2>2. CASE FinishNode
      BY <1>3, <2>2 DEF FinishNode
    <2>3. QED
      BY <2>1, <2>2
  <1>6. /\ configured.name = cfg.node.name /\ configured.taint = cfg.node.taint
        /\ configured.version = opts.version /\ configured.address = Getenv(e.podIP)
        /\ configured.os = IF opts.os = "" THEN "linux" ELSE opts.os
    <2>1. /\ DOMAIN ConfigureNode(cfg.node) = DOMAIN cfg.node
          /\ ConfigureNode(cfg.node).name = cfg.node.name
          /\ ConfigureNode(cfg.node).taint = cfg.node.taint
          /\ ConfigureNode(cfg.node).address = Getenv(e.podIP)
          /\ ConfigureNode(cfg.node).os = IF opts.os = "" THEN "linux" ELSE opts.os
      BY <1>4 DEF ConfigureNode
    <2>2. QED
      BY <1>4, <2>1
  <1>7. configured.os = Asked("os", "linux") /\ configured.version = "built"
    <2>1. opts.os = Asked("os", "linux") /\ opts.version = "built"
      BY <1>2 DEF OptionsAsAsked
    <2>2. opts.os # ""
      BY <1>3, <2>1 DEF RootChecked
    <2>3. QED
      BY <1>6, <2>1, <2>2
  <1>. HIDE DEF configured
  <1>8. /\ cfg'.node.name = cfg.node.name /\ cfg'.node.taint = cfg.node.taint
        /\ cfg'.workers = cfg.workers
        /\ cfg'.handler = cfg.handler \/ cfg'.handler.auth = "none"
    <2>1. Router.auth = "none"
      BY DEF Router, Mux
    <2>2. QED
      BY <1>4, <1>5, <1>6, <2>1
  <1>9. at' = "controllers" => cfg'.node = configured
    BY <1>4, <1>5
  <1>10. at' = "tracing" => at = "controllers" /\ cfg'.node = cfg.node
    BY <1>4, <1>5
  <1>11. LineInv' /\ OptionsInv'
    BY <1>1, <1>5, RootStep DEF InRoot, InNewNode, AfterOptions
  <1>12. /\ RootChecked' <=> RootChecked
         /\ ServerChecked' <=> ServerChecked
         /\ FilesChecked' <=> FilesChecked
         /\ ProviderChecked' <=> ProviderChecked
         /\ InputValid' <=> InputValid
    BY <1>1, SameChecks
  <1>13. /\ TaintAsked' = TaintAsked /\ NodeNameAsked' = NodeNameAsked /\ e' = e
         /\ Asked("os", "linux")' = Asked("os", "linux")
         /\ Asked("workers", 10)' = Asked("workers", 10)
    BY <1>1, SameWishes
  <1>14. CheckedInv'
    BY <1>2, <1>3, <1>5, <1>12 DEF CheckedInv, Opened, InRoot, InNewNode, AfterOptions
  <1>15. NodeIsNamed' /\ BaseIsSet'
    BY <1>3, <1>8, <1>13 DEF NodeIsNamed, BaseIsSet
  <1>16. at' \in {"controllers", "tracing"} => StatusIsSet'
    BY <1>3, <1>6, <1>7, <1>9, <1>10, <1>13 DEF StatusIsSet
  <1>18. MadeInv'
    BY <1>1, <1>3, <1>5, <1>13, <1>15, <1>16
       DEF MadeInv, InRoot, InNewNode, AfterOptions
  <1>19. QED
    BY <1>11, <1>14, <1>18 DEF AskedInv

LEMMA AskedEnd ==
  ASSUME StartupInv, AskedInv, SetupTracing \/ Listen
  PROVE  AskedInv'
  <1>1. /\ UNCHANGED <<in, opts, optsErr, taint, cfg>> /\ at \in {"tracing", "listen"}
    <2>1. CASE SetupTracing
      BY <2>1, Zenon DEF SetupTracing
    <2>2. CASE Listen
      BY <2>2, Zenon DEF Listen
    <2>3. QED
      BY <2>1, <2>2
  <1>2. /\ in \in Inputs /\ OptionsAsAsked(opts)
        /\ ~(RootChecked /\ ServerChecked /\ FilesChecked /\ ProviderChecked /\ TracingValid)
             => ~InputValid
    BY <1>1, RootOptions DEF InRoot, InNewNode, AfterOptions
  <1>3. /\ RootChecked /\ ServerChecked /\ FilesChecked /\ ProviderChecked
        /\ at = "listen" => TracingValid
        /\ taint = TaintAsked /\ NodeIsNamed /\ BaseIsSet /\ StatusIsSet
    BY <1>1 DEF AskedInv, CheckedInv, MadeInv, InRoot, InNewNode, AfterOptions, Opened
  <1>4. \/ at' = "failed" /\ ~TracingValid
        \/ at' \in Opened /\ TracingValid
    <2>1. CASE SetupTracing
      <3>1. ContinueIf(~ReservedTag /\ BadExporters = {} /\ TracingSampler # "error", "listen")
        BY <2>1, Zenon DEF SetupTracing
      <3>2. (~ReservedTag /\ BadExporters = {} /\ TracingSampler # "error") <=> TracingValid
        BY <1>2, ChecksOfTracing
      <3>3. at' = IF TracingValid THEN "listen" ELSE "failed"
        BY <3>1, <3>2, Zenon DEF ContinueIf
      <3>4. QED
        BY <3>3 DEF Opened
    <2>2. CASE Listen
      <3>1. at = "listen" /\ at' \in {"running", "noPort"}
        BY <2>2 DEF Listen
      <3>2. QED
        BY <1>3, <3>1 DEF Opened
    <2>3. QED
      BY <2>1, <2>2
  <1>5. LineInv' /\ OptionsInv'
    BY <1>1, <1>4, RootStep DEF InRoot, InNewNode, AfterOptions, Opened
  <1>6. /\ RootChecked' <=> RootChecked
        /\ ServerChecked' <=> ServerChecked
        /\ FilesChecked' <=> FilesChecked
        /\ ProviderChecked' <=> ProviderChecked
        /\ TracingValid' <=> TracingValid
        /\ InputValid' <=> InputValid
    BY <1>1, SameChecks
  <1>7. /\ TaintAsked' = TaintAsked /\ NodeNameAsked' = NodeNameAsked /\ e' = e
        /\ Asked("os", "linux")' = Asked("os", "linux")
        /\ Asked("workers", 10)' = Asked("workers", 10)
    BY <1>1, SameWishes
  <1>8. CheckedInv'
    BY <1>2, <1>3, <1>4, <1>6 DEF CheckedInv, Opened, InRoot, InNewNode, AfterOptions
  <1>9. NodeIsNamed' /\ BaseIsSet' /\ StatusIsSet'
    BY <1>1, <1>3, <1>7 DEF NodeIsNamed, BaseIsSet, StatusIsSet
  <1>10. MadeInv'
    BY <1>1, <1>3, <1>4, <1>7, <1>9 DEF MadeInv, InRoot, InNewNode, AfterOptions, Opened
  <1>11. QED
    BY <1>5, <1>8, <1>10 DEF AskedInv

LEMMA AskedSame ==
  ASSUME AskedInv, UNCHANGED vars
  PROVE  AskedInv'
  <1>1. UNCHANGED <<in, at, opts, optsErr, taint, applied, cfg>>
    BY DEF vars
  <1>2. /\ LineChecked' <=> LineChecked
        /\ LevelChecked' <=> LevelChecked
        /\ ArgsChecked' <=> ArgsChecked
        /\ RootChecked' <=> RootChecked
        /\ ServerChecked' <=> ServerChecked
        /\ FilesChecked' <=> FilesChecked
        /\ ProviderChecked' <=> ProviderChecked
        /\ TracingValid' <=> TracingValid
        /\ InputValid' <=> InputValid
        /\ OptionsAsAsked(opts)' <=> OptionsAsAsked(opts)
    BY <1>1, SameChecks, SameOptions
  <1>3. /\ NodeNameAsked' = NodeNameAsked /\ TaintAsked' = TaintAsked
        /\ Asked("os", "linux")' = Asked("os", "linux")
        /\ Asked("workers", 10)' = Asked("workers", 10)
        /\ e' = e /\ line' = line /\ LineOpts' = LineOpts
    BY <1>1, SameWishes
  <1>4. LineInv'
    BY <1>1, <1>2, <1>3 DEF AskedInv, LineInv
  <1>5. OptionsInv'
    BY <1>1, <1>2, <1>3 DEF AskedInv, OptionsInv
  <1>6. CheckedInv'
    BY <1>1, <1>2 DEF AskedInv, CheckedInv
  <1>7. /\ NodeIsNamed' <=> NodeIsNamed
        /\ BaseIsSet' <=> BaseIsSet
        /\ StatusIsSet' <=> StatusIsSet
    BY <1>1, <1>3 DEF NodeIsNamed, BaseIsSet, StatusIsSet
  <1>8. MadeInv'
    BY <1>1, <1>3, <1>7 DEF AskedInv, MadeInv
  <1>9. QED
    BY <1>4, <1>5, <1>6, <1>8 DEF AskedInv

LEMMA AskedInvariant == Spec => [](StartupInv /\ AskedInv)
  <1>1. StartupInv /\ AskedInv /\ [Next]_vars => AskedInv'
    BY AskedDefaults, AskedLine, AskedPreRun, AskedChecks, AskedNewNode, AskedOption,
       AskedProvider, AskedEnd, AskedSame DEF Next
  <1>2. QED
    BY AskedInit, <1>1, StartupInvariant, PTL DEF Spec

-----------------------------------------------------------------------------
(* What the input asks for is checked, and made.                           *)

\* Whatever the environment, the files and the command line: the program gets
\* to Run only with an input that is valid for every step that looks at it,
\* a subcommand prints only on a valid line, and nothing valid fails.
THEOREM StartupStartsIffValid == Spec => []StartsIffValid
  <1>1. ASSUME StartupInv, AskedInv PROVE StartsIffValid
    <2>1. in \in Inputs /\ (at \in Opened => line.cmd = "")
      BY <1>1 DEF StartupInv, OptsInv, Opened, InRoot, InNewNode, AfterOptions
    <2>2. LineChecked /\ LevelChecked /\ (line.cmd = "" \/ ArgsChecked) => LineValid
      <3>1. line.cmd = "" => ArgsChecked
        BY DEF ArgsChecked
      <3>2. QED
        BY <2>1, <3>1, LineParts, Zenon
    <2>3. at \in Opened => LineValid /\ EnvironmentValid
      <3> SUFFICES ASSUME at \in Opened PROVE LineValid /\ EnvironmentValid
        OBVIOUS
      <3>1. at \in InRoot /\ line.cmd = "" /\ LineChecked /\ LevelChecked
        BY <1>1, <2>1 DEF AskedInv, LineInv, Opened, InRoot, InNewNode, AfterOptions
      <3>2. RootChecked /\ ServerChecked /\ FilesChecked /\ ProviderChecked /\ TracingValid
        BY <1>1 DEF AskedInv, CheckedInv, Opened, InRoot, InNewNode, AfterOptions
      <3>3. ~BadPort(e)
        BY <1>1, <3>1, RootOptions
      <3>4. QED
        BY <2>1, <2>2, <3>1, <3>2, <3>3, EnvironmentParts, Zenon
    <2>4. at = "printed" => line.cmd # "" /\ LineChecked /\ LevelChecked /\ ArgsChecked
      BY <1>1 DEF AskedInv, LineInv, Subcommands
    <2>5. at = "failed" => ~(LineValid /\ (line.cmd = "" => EnvironmentValid))
      BY <1>1, Zenon DEF AskedInv, CheckedInv, InputValid
    <2>6. at = "printed" => line.cmd # "" /\ LineValid
      BY <2>2, <2>4, Zenon
    <2>7. at \in {"listen", "running", "noPort"} => line.cmd = "" /\ LineValid /\ EnvironmentValid
      BY <2>1, <2>3 DEF Opened
    <2>8. QED
      BY <2>5, <2>6, <2>7, Zenon DEF StartsIffValid
  <1>2. QED
    BY <1>1, AskedInvariant, PTL

\* Whatever the environment and the flags say, the node that is registered is
\* the one asked for: its name, taint, system, version and address.
THEOREM StartupNodeAsAsked == Spec => []NodeAsAsked
  <1>1. AskedInv => NodeAsAsked
    BY DEF AskedInv, MadeInv, NodeIsNamed, BaseIsSet, StatusIsSet, NodeAsAsked,
           InNewNode, AfterOptions
  <1>2. QED
    BY <1>1, AskedInvariant, PTL
=============================================================================
