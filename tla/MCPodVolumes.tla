----------------------------- MODULE MCPodVolumes -----------------------------
\* Instances of PodVolumes: the volumes pods are created with.
EXTENDS PodVolumes

From(kind, object, optional, items) ==
  [kind |-> kind, object |-> object, optional |-> optional, items |-> items]
Volume(name, kind, sources) == [name |-> name, kind |-> kind, sources |-> sources]

Secret(optional) == Volume("v", "secret", <<From("secret", "s", optional, {})>>)
ConfigMap(optional) == Volume("w", "configMap", <<From("configMap", "c", optional, {})>>)
Projected(sources) == Volume("x", "projected", sources)
Token == From("token", "s", "unset", {})

\* Every kind of volume; one is that of a service account, a token and a
\* config map.
AllSpecs ==
  { <<Secret("unset"), ConfigMap("no")>>, <<ConfigMap("yes"), Secret("no")>>,
    <<Projected(<<From("configMap", "c", "no", {"k1"}),
                  From("configMap", "c", "unset", {"k2"})>>)>>,
    <<Projected(<<Token>>), Volume("y", "emptyDir", <<>>)>>,
    <<Projected(<<Token, From("configMap", "c", "unset", {"k1"})>>)>>,
    <<Projected(<<From("secret", "s", "yes", {"k1"})>>)>>,
    <<Volume("z", "hostPath", <<>>), Volume("u", "other", <<>>)>> }
=============================================================================
