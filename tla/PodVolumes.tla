------------------------------ MODULE PodVolumes ------------------------------
(***************************************************************************)
(* The volumes of a pod on disk: volumes, writeFile and setupPaths         *)
(* (internal/provider/mock/volumes.go), and the removal of the pod's       *)
(* directory by deletePod (mock.go).                                       *)
(*                                                                         *)
(* One namespace and name, under which pods are created and deleted one    *)
(* after the other: the directory $HOME/<namespace>/<name> is the same for *)
(* all of them.  Secrets and config maps may change at any time.           *)
(***************************************************************************)
EXTENDS Naturals, Sequences

CONSTANTS
  Specs,      \* the lists of volumes that pods are created with
  Objects,    \* secrets, config maps and service account secrets
  Keys,       \* keys of their data
  MaxPods,    \* bound: the pods that are created
  MaxLate     \* bound: the goroutines a deletePod that failed leaves behind

SourceType == [kind : {"secret", "configMap", "token"}, object : Objects,
               optional : {"no", "yes", "unset"}, items : SUBSET Keys]
VolumeType ==
  [name : STRING, sources : Seq(SourceType),
   kind : {"hostPath", "emptyDir", "secret", "configMap", "projected", "other"}]

\* What the API server accepts: no two volumes of a pod have one name.  Only
\* volumes made from objects have sources, and a token has no field Optional.
ASSUME VolumesAssumption ==
  /\ MaxPods \in Nat /\ MaxLate \in Nat
  /\ Specs \subseteq Seq(VolumeType)
  /\ \A s \in Specs : \A i \in DOMAIN s :
       /\ \A j \in DOMAIN s : s[i].name = s[j].name => i = j
       /\ s[i].kind \in {"hostPath", "emptyDir", "other"} => s[i].sources = <<>>
       /\ \A j \in DOMAIN s[i].sources :
            s[i].sources[j].kind = "token" => s[i].sources[j].optional # "no"

VARIABLES
  objects,  \* [Objects -> [there : BOOLEAN, keys : their data]]
  made,     \* the number of pods created
  spec,     \* the volumes of the pod
  pc,       \* progress of CreatePod in volumes
  at,       \* <<the volume, the source of it>> it has come to
  todo,     \* the keys of that source it has still to write
  vol,      \* the mapping that volumes returns
  wanted,   \* history: the <<volume, key>> of the sources it has read
  dirs,     \* the directories that exist
  files,    \* <<directory, key>> of the files that exist
  dirty,    \* history: has an earlier pod left its directory behind
  cleaners  \* goroutines of an earlier deletePod before os.RemoveAll

disk == <<dirs, files>>
past == <<dirty, cleaners>>
vars == <<objects, made, spec, pc, at, todo, vol, wanted, disk, past>>

NoDir == <<"", "">>             \* the empty string as a directory
Temp == "vk.tmp"                \* a file that is not renamed

V == spec[at[1]]
Source == V.sources[at[2]]
HasSource == pc = "preparing" /\ at[1] <= Len(spec) /\ at[2] <= Len(V.sources)
Object == objects[Source.object]

Init ==
  /\ objects \in [Objects -> {[there |-> FALSE, keys |-> {}],
                              [there |-> TRUE, keys |-> Keys]}]
  /\ made = 0 /\ spec = <<>> /\ pc = "none" /\ at = <<1, 1>>
  /\ todo = {} /\ vol = <<>> /\ wanted = {}
  /\ dirs = {} /\ files = {}
  /\ dirty = FALSE /\ cleaners = 0

-----------------------------------------------------------------------------
\* A user edits, creates or deletes a secret or a config map.
Change(o) ==
  /\ \E there \in BOOLEAN, keys \in SUBSET Keys :
       objects' = [objects EXCEPT ![o] =
         [there |-> there, keys |-> IF there THEN keys ELSE {}]]
  /\ UNCHANGED <<made, spec, pc, at, todo, vol, wanted, disk, past>>

\* CreatePod comes to p.volumes.
CreatePod ==
  /\ pc = "none" /\ made < MaxPods
  /\ made' = made + 1
  /\ spec' \in Specs /\ pc' = "preparing" /\ at' = <<1, 1>>
  /\ todo' = {} /\ vol' = <<>> /\ wanted' = {}
  /\ UNCHANGED <<objects, disk, past>>

\* volumes returns an error: an operation on a file failed, for one.
Fail ==
  /\ pc' = "failed"
  /\ UNCHANGED <<objects, made, spec, at, todo, vol, wanted, past>>

\* setupPaths; mkdirAllChown makes what is not there.
SetupPaths(d) == dirs' = dirs \cup {d} /\ UNCHANGED files

NextVolume == at' = <<at[1] + 1, 1>> /\ UNCHANGED <<objects, made, spec, todo, past>>
NextSource == at' = <<at[1], at[2] + 1>> /\ UNCHANGED <<objects, made, spec, past>>

\* vol[v.Name] = dir, whatever an earlier source has put there.
MapTo(d) == vol' = [name \in DOMAIN vol \cup {V.name} |->
                      IF name = V.name THEN d ELSE vol[name]]

\* The path of the host is not looked at.
MapHostPath ==
  /\ pc = "preparing" /\ at[1] <= Len(spec) /\ V.kind = "hostPath"
  /\ MapTo(NoDir)
  /\ NextVolume
  /\ UNCHANGED <<pc, wanted, disk>>

MapEmptyDir ==
  /\ pc = "preparing" /\ at[1] <= Len(spec) /\ V.kind = "emptyDir"
  /\ \/ /\ SetupPaths(<<"emptydirs", V.name>>)
        /\ MapTo(<<"emptydirs", V.name>>)
        /\ NextVolume
        /\ UNCHANGED <<pc, wanted>>
     \/ Fail /\ UNCHANGED disk

\* The default of the switch.
Unsupported ==
  /\ pc = "preparing" /\ at[1] <= Len(spec) /\ V.kind = "other"
  /\ Fail /\ UNCHANGED disk

-----------------------------------------------------------------------------
(* Volumes made from secrets and config maps, of which one that is not     *)
(* projected has one source.                                               *)

\* Mutant of MustExist: whatever is not marked as required is optional.
MustExist_Never(s) == FALSE

\* s.Optional != nil && !*s.Optional; a token has no such field.
MustExist(s) == s.kind # "token" /\ s.optional = "no"

\* Mutant of SourceDir: the directory has not the name of the volume.
SourceDir_Shared(v, s) ==
  <<IF s.kind = "configMap" THEN "configmaps" ELSE "secrets", "">>

\* The directory of setupPaths.
SourceDir(v, s) ==
  <<IF s.kind = "configMap" THEN "configmaps" ELSE "secrets", v.name>>

\* The keys of a projected config map are the ones its items name.
KeysOf(v, s) ==
  IF v.kind = "projected" /\ s.kind = "configMap" THEN Object.keys \cap s.items
  ELSE Object.keys

MissSource ==
  /\ HasSource /\ ~Object.there
  /\ IF MustExist(Source) THEN Fail
     ELSE NextSource /\ UNCHANGED <<pc, todo, vol, wanted>>
  /\ UNCHANGED disk

\* The items of a projected secret are read from source.ConfigMap, which is
\* nil: the program ends.
Panic ==
  /\ HasSource /\ Object.there
  /\ V.kind = "projected" /\ Source.kind = "secret"
  /\ SetupPaths(SourceDir(V, Source))
  /\ pc' = "panicked"
  /\ UNCHANGED <<objects, made, spec, at, todo, vol, wanted, past>>

OpenSource ==
  /\ HasSource /\ Object.there
  /\ \/ /\ ~(V.kind = "projected" /\ Source.kind = "secret")
        /\ SetupPaths(SourceDir(V, Source))
        /\ pc' = "writing" /\ todo' = KeysOf(V, Source)
        /\ wanted' = wanted \cup {<<V.name, k>> : k \in KeysOf(V, Source)}
        /\ UNCHANGED <<objects, made, spec, at, vol, past>>
     \/ Fail /\ UNCHANGED disk

\* writeFile: the temporary file is made in the directory and renamed.
WriteFile ==
  LET d == SourceDir(V, Source) IN
  /\ pc = "writing" /\ d \in dirs
  /\ \E k \in todo : /\ files' = files \cup {<<d, k>>}
                     /\ todo' = todo \ {k}
  /\ UNCHANGED <<objects, made, spec, pc, at, vol, wanted, dirs, past>>

\* An operation of it fails, before or after the temporary file was made.
FailWrite ==
  LET d == SourceDir(V, Source) IN
  /\ pc = "writing" /\ todo # {}
  /\ \/ UNCHANGED files
     \/ d \in dirs /\ files' = files \cup {<<d, Temp>>}
  /\ Fail
  /\ UNCHANGED dirs

MapSource ==
  /\ pc = "writing" /\ todo = {}
  /\ MapTo(SourceDir(V, Source))
  /\ pc' = "preparing"
  /\ NextSource
  /\ UNCHANGED <<todo, wanted, disk>>

EndVolume ==
  /\ pc = "preparing" /\ at[1] <= Len(spec)
  /\ V.kind \in {"secret", "configMap", "projected"} /\ at[2] > Len(V.sources)
  /\ NextVolume
  /\ UNCHANGED <<pc, vol, wanted, disk>>

ReturnVolumes ==
  /\ pc = "preparing" /\ at[1] > Len(spec)
  /\ pc' = "ready"
  /\ UNCHANGED <<objects, made, spec, at, todo, vol, wanted, disk, past>>

-----------------------------------------------------------------------------
(* Deletion.                                                               *)

\* Mutant of RemoveAll: the directories of the volumes stay.
RemoveAll_Files == dirs' = dirs /\ files' = files

\* os.RemoveAll of the pod's directory.
RemoveAll == dirs' = {} /\ files' = {}

\* A goroutine of deletePod per container status has removed the directory.
DeletePod ==
  /\ pc = "ready"
  /\ RemoveAll
  /\ pc' = "none"
  /\ UNCHANGED <<objects, made, spec, at, todo, vol, wanted, past>>

\* deletePod returns at the first error, or there was no status: goroutines
\* that have yet to remove the directory may go on, and none may have.
DeletePodEarly ==
  /\ pc \in {"ready", "failed"}
  /\ cleaners' \in IF pc = "failed" THEN {cleaners} ELSE cleaners .. MaxLate
  /\ dirty' = TRUE /\ pc' = "none"
  /\ UNCHANGED <<objects, made, spec, at, todo, vol, wanted, disk>>

LateRemove ==
  /\ cleaners > 0
  /\ RemoveAll
  /\ cleaners' = cleaners - 1
  /\ UNCHANGED <<objects, made, spec, pc, at, todo, vol, wanted, dirty>>

Volumes ==
  \/ MapHostPath \/ MapEmptyDir \/ Unsupported
  \/ MissSource \/ Panic \/ OpenSource \/ WriteFile \/ FailWrite \/ MapSource
  \/ EndVolume \/ ReturnVolumes

Next ==
  \/ \E o \in Objects : Change(o)
  \/ CreatePod \/ Volumes
  \/ DeletePod \/ DeletePodEarly \/ LateRemove

Spec == Init /\ [][Next]_vars

-----------------------------------------------------------------------------
(* Properties.                                                             *)

FilesOf(d) == {k \in Keys \cup {Temp} : <<d, k>> \in files}
OneKind(v) == \A i, j \in DOMAIN v.sources :
  v.sources[i].kind = "configMap" <=> v.sources[j].kind = "configMap"
WantedOf(name) == {k \in Keys : <<name, k>> \in wanted}

\* Every variable has its type, every volume has a directory of its own, and
\* no file is outside a directory.
TypeOK ==
  /\ objects \in [Objects -> [there : BOOLEAN, keys : SUBSET Keys]]
  /\ made \in 0 .. MaxPods /\ spec \in Specs \cup {<<>>}
  /\ pc \in {"none", "preparing", "writing", "ready", "failed", "panicked"}
  /\ at \in Nat \X Nat /\ todo \subseteq Keys
  /\ \A name \in DOMAIN vol : vol[name] = NoDir \/ vol[name][2] = name
  /\ \A f \in files : f[1] \in dirs
  /\ dirty \in BOOLEAN /\ cleaners \in 0 .. MaxLate

\* Unless an earlier pod of the same name has left its directory behind, a
\* volume that is made from one kind of object holds exactly the keys its
\* objects had, and no temporary file, when its containers are started.  Of a
\* projected volume made from both kinds, only the directory of the last
\* source is mapped.
ExactFiles ==
  pc = "ready" /\ ~dirty =>
    \A i \in DOMAIN spec : LET name == spec[i].name IN
      name \in DOMAIN vol /\ OneKind(spec[i]) /\ vol[name] # NoDir
        => FilesOf(vol[name]) = WantedOf(name)

\* A pod is not started without an object that is marked as not optional:
\* either the volume of it is mapped or volumes fails (volumes.go:90, 129).
RequiredIsMapped ==
  pc = "ready" =>
    \A i \in DOMAIN spec :
      (\E j \in DOMAIN spec[i].sources : spec[i].sources[j].optional = "no")
        => spec[i].name \in DOMAIN vol
=============================================================================
