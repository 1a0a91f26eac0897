------------------------------ MODULE MCStartup ------------------------------
(* Inputs for TLC: a usual input, and families that vary what one or two *)
(* steps look at and leave the rest as it is.                              *)
EXTENDS Startup, TLC

Files == [home |-> "good", envFile |-> "good", flagFile |-> "good",
          providerFile |-> "good", pem |-> "good", pemTwo |-> "good"]

UsualEnv ==
  [ nodename |-> Unset, portText |-> "", port |-> 0, taintKey |-> Unset,
    taintValue |-> Unset, taintEffect |-> Unset, kubeconfig |-> Unset,
    home |-> "home", cert |-> "pem", key |-> "pem", ca |-> Unset,
    files |-> Files, entries |-> [vk |-> TRUE, old |-> FALSE], inCluster |-> FALSE,
    podIP |-> "ip", jaeger |-> FALSE, ocagent |-> FALSE, insecure |-> "" ]

\* As the README starts the program.
UsualFlags == [nodename |-> "vk", provider |-> "mock"]

UsualLine ==
  [cmd |-> "", args |-> <<>>, given |-> UsualFlags, tag |-> "none", logLevel |-> "info"]

Usual == [env |-> UsualEnv, line |-> UsualLine]

WithFlags(i, given) == [i EXCEPT !.line.given = given @@ @]

Ports ==
  LET H == HalfInt32 IN
  { [Usual EXCEPT !.env.portText = "number", !.env.port = p] :
      p \in {-2 * H + 8080, -H - 1, -H, -1, 0, 80, 8080, 65535, 65536, H - 1, H} }
  \cup { [Usual EXCEPT !.env.portText = "word", !.env.inCluster = c] : c \in BOOLEAN }

Keys ==
  LET flagged == {Usual} \cup {WithFlags(Usual, [taint |-> t]) : t \in {"", "flagKey"}}
                 \cup {WithFlags(Usual, [disableTaint |-> TRUE])} IN
  UNION { { [i EXCEPT !.env.taintKey = k, !.env.taintValue = v, !.env.taintEffect = f] :
              k \in {Unset, "", "envKey"}, v \in {Unset, "", "envValue"},
              f \in {Unset, "", "NoExecute", "Sometimes"} } : i \in flagged }

Servers ==
  LET named == {Usual} \cup {WithFlags(Usual, [kubeconfig |-> k]) : k \in {"", "flagFile"}} IN
  UNION { { [i EXCEPT !.env.kubeconfig = k, !.env.home = h, !.env.ca = a, !.env.inCluster = c,
                      !.env.files.envFile = f, !.env.files.flagFile = g] :
              k \in {Unset, "", "envFile"}, h \in {"", "home"}, a \in {Unset, "pemTwo"},
              c \in BOOLEAN, f \in {"good", "bad", "absent"},
              g \in {"good", "unreadable", "absent"} } : i \in named }

Certificates ==
  { [Usual EXCEPT !.env.cert = c, !.env.key = "pemTwo", !.env.ca = a, !.env.files.pem = f,
                  !.env.files.pemTwo = g] :
      c \in {Unset, "pem"}, a \in {Unset, "", "pem"}, f \in {"good", "bad"},
      g \in {"good", "absent"} }

Providers ==
  { [WithFlags(Usual, [nodename |-> n, provider |-> p, config |-> c])
       EXCEPT !.env.files.providerFile = f] :
      n \in {"vk", "old", "new"}, p \in {"mock", "azure"}, c \in {"", "providerFile"},
      f \in {"good", "bad", "absent"} }

Traced ==
  { [WithFlags(Usual, [exporters |-> x, sampleRate |-> r[1], percent |-> r[2]])
       EXCEPT !.env.jaeger = j, !.env.ocagent = o, !.env.insecure = s] :
      x \in {<<>>, <<"zpages">>, <<"jaeger", "ocagent">>, <<"zpages", "zipkin">>},
      r \in {<<"", 0>>, <<"always", 0>>, <<"word", 0>>, <<"number", -1>>, <<"number", 0>>,
             <<"number", 100>>, <<"number", 101>>},
      j \in BOOLEAN, o \in BOOLEAN, s \in {"", "on", "perhaps"} }

Lines ==
  { [env |-> [UsualEnv EXCEPT !.portText = t],
     line |-> [cmd |-> c, args |-> a, given |-> g, tag |-> tag, logLevel |-> l]] :
      t \in {"", "word"}, c \in {"", "version", "providers", "start"},
      a \in {<<>>, <<"mock">>, <<"azure">>, <<"mock", "azure">>, <<"mock", "azure", "mock">>},
      g \in {<<>>, UsualFlags}, tag \in {"none", "malformed", "k"}, l \in {"", "info", "loud"} }

Nodes ==
  { [env |-> [UsualEnv EXCEPT !.nodename = n, !.podIP = ip],
     line |-> [UsualLine EXCEPT !.given = [provider |-> "mock"] @@ g]] :
      n \in {Unset, "", "other"}, ip \in {Unset, "ip"},
      g \in {<<>>, [nodename |-> "vk"], [os |-> "windows"], [os |-> "plan9"],
             [workers |-> 0], [workers |-> -1]} }

MCInputs ==
  Ports \cup Keys \cup Servers \cup Certificates \cup Providers \cup Traced \cup Lines \cup Nodes
=============================================================================
