--------------------------- MODULE PodVolumes_proofs ---------------------------
(***************************************************************************)
(* Proofs about PodVolumes, for any pods, objects, keys and bounds.        *)
(*                                                                         *)
(* CreatePod walks the sources of the volumes in order.  What it has read  *)
(* of one is in the files of the volume or still to be written, and a      *)
(* source it has passed without an error is mapped or was optional.        *)
(***************************************************************************)
EXTENDS PodVolumes, TLAPS

Made == {"secret", "configMap", "projected"}

\* Where CreatePod is.
Active == pc \in {"preparing", "writing", "ready"}

PlaceInv ==
  /\ at[1] # 0 /\ at[2] # 0
  /\ pc = "writing" => at[1] <= Len(spec) /\ at[2] <= Len(V.sources)
  /\ pc = "ready" => at[1] > Len(spec)

TypeInv == TypeOK /\ PlaceInv

\* The volumes of a pod, and the one that CreatePod is at.
LEMMA SpecFacts ==
  ASSUME spec \in Specs \cup {<<>>}
  PROVE  /\ spec \in Seq(VolumeType) /\ Len(spec) \in Nat /\ DOMAIN spec = 1 .. Len(spec)
         /\ \A i \in DOMAIN spec :
              /\ \A j \in DOMAIN spec : spec[i].name = spec[j].name => i = j
              /\ spec[i].kind \notin Made => DOMAIN spec[i].sources = {}
              /\ \A j \in DOMAIN spec[i].sources :
                   spec[i].sources[j].kind = "token" => spec[i].sources[j].optional # "no"
<1>1. spec \in Seq(VolumeType)
  <2>1. <<>> \in Seq(VolumeType)
    OBVIOUS
  <2>2. Specs \subseteq Seq(VolumeType)
    BY VolumesAssumption
  <2> HIDE DEF VolumeType
  <2> QED
    BY <2>1, <2>2
<1>2. ASSUME NEW i \in DOMAIN spec
      PROVE  /\ \A j \in DOMAIN spec : spec[i].name = spec[j].name => i = j
             /\ spec[i].kind \notin Made => DOMAIN spec[i].sources = {}
             /\ \A j \in DOMAIN spec[i].sources :
                  spec[i].sources[j].kind = "token" => spec[i].sources[j].optional # "no"
  <2>1. spec \in Specs
    BY <1>2
  <2>2. spec[i] \in VolumeType
    BY <1>1
  <2>3. spec[i].kind \notin Made => spec[i].kind \in {"hostPath", "emptyDir", "other"}
    BY <2>2 DEF VolumeType, Made
  <2>4. DOMAIN <<>> = {}
    OBVIOUS
  <2> QED
    BY <2>1, <2>3, <2>4, VolumesAssumption
<1> QED
  BY <1>1, <1>2

LEMMA VolumeFacts ==
  ASSUME TypeInv, at[1] <= Len(spec)
  PROVE  /\ at[1] \in DOMAIN spec /\ V \in VolumeType /\ V = spec[at[1]]
         /\ V.sources \in Seq(SourceType) /\ Len(V.sources) \in Nat
         /\ DOMAIN V.sources = 1 .. Len(V.sources)
<1>1. at[1] \in Nat \ {0}
  BY DEF TypeInv, TypeOK, PlaceInv
<1>2. spec \in Seq(VolumeType) /\ at[1] \in DOMAIN spec
  BY <1>1, SpecFacts DEF TypeInv, TypeOK
<1>3. V \in VolumeType
  BY <1>2 DEF V
<1>4. V.sources \in Seq(SourceType)
  BY <1>3 DEF VolumeType
<1> QED
  BY <1>2, <1>3, <1>4 DEF V

LEMMA SourceFacts ==
  ASSUME TypeInv, HasSource \/ pc = "writing"
  PROVE  /\ at[1] <= Len(spec) /\ at[2] \in DOMAIN V.sources
         /\ Source = V.sources[at[2]] /\ Source \in SourceType
         /\ V.kind \in Made /\ KeysOf(V, Source) \subseteq Keys
         /\ SourceDir(V, Source)[2] = V.name /\ SourceDir(V, Source) # NoDir
<1>1. at[1] <= Len(spec) /\ at[2] <= Len(V.sources) /\ at[2] \in Nat \ {0}
  BY DEF HasSource, TypeInv, TypeOK, PlaceInv
<1>2. at[1] \in DOMAIN spec /\ V = spec[at[1]] /\ at[2] \in DOMAIN V.sources
  BY <1>1, VolumeFacts
<1>3. Source = V.sources[at[2]] /\ Source \in SourceType
  BY <1>1, <1>2, VolumeFacts DEF Source
<1>4. V.kind \in Made
  BY <1>2, SpecFacts DEF TypeInv, TypeOK
<1>5. KeysOf(V, Source) \subseteq Keys
  <2>1. Source.object \in Objects
    BY <1>3 DEF SourceType
  <2>2. Object \in [there : BOOLEAN, keys : SUBSET Keys]
    BY <2>1 DEF Object, TypeInv, TypeOK
  <2> QED
    BY <2>2 DEF KeysOf
<1>6. SourceDir(V, Source)[2] = V.name /\ SourceDir(V, Source) # NoDir
  BY DEF SourceDir, NoDir
<1> QED
  BY <1>1, <1>2, <1>3, <1>4, <1>5, <1>6

\* What a step that maps the volume does to the mapping.
LEMMA Mapped ==
  ASSUME NEW d, MapTo(d)
  PROVE  /\ DOMAIN vol' = DOMAIN vol \cup {V.name} /\ vol'[V.name] = d
         /\ \A name \in DOMAIN vol : name # V.name => vol'[name] = vol[name]
  BY DEF MapTo

-----------------------------------------------------------------------------
(* Types.                                                                  *)

LEMMA TypeInit == Init => TypeInv
<1> SUFFICES ASSUME Init PROVE TypeInv
  OBVIOUS
<1>1. objects \in [Objects -> [there : BOOLEAN, keys : SUBSET Keys]]
  <2> DEFINE O == {[there |-> FALSE, keys |-> {}], [there |-> TRUE, keys |-> Keys]}
  <2>1. O \subseteq [there : BOOLEAN, keys : SUBSET Keys]
    OBVIOUS
  <2>2. objects \in [Objects -> O]
    BY DEF Init
  <2> HIDE DEF O
  <2> QED
    BY <2>1, <2>2
<1>2. made \in 0 .. MaxPods /\ cleaners \in 0 .. MaxLate /\ at = <<1, 1>>
  BY VolumesAssumption DEF Init
<1>3. at \in Nat \X Nat /\ at[1] # 0 /\ at[2] # 0
  BY <1>2
<1>4. DOMAIN vol = {} /\ files = {} /\ todo = {} /\ spec = <<>> /\ pc = "none" /\ dirty = FALSE
  BY DEF Init
<1> QED
  BY <1>1, <1>2, <1>3, <1>4 DEF TypeInv, TypeOK, PlaceInv

LEMMA TypeStep == TypeInv /\ [Next]_vars => TypeInv'
<1> SUFFICES ASSUME TypeInv, [Next]_vars PROVE TypeInv'
  OBVIOUS
<1> USE VolumesAssumption
<1>1. ASSUME NEW o \in Objects, Change(o) PROVE TypeInv'
  <2>1. PICK there \in BOOLEAN, keys \in SUBSET Keys :
          objects' = [objects EXCEPT ![o] = [there |-> there,
                                             keys |-> IF there THEN keys ELSE {}]]
    BY <1>1 DEF Change
  <2>2. UNCHANGED <<made, spec, pc, at, todo, vol, wanted, disk, past>>
    BY <1>1 DEF Change
  <2>3. objects' \in [Objects -> [there : BOOLEAN, keys : SUBSET Keys]]
    BY <2>1 DEF TypeInv, TypeOK
  <2> QED
    BY <2>2, <2>3 DEF TypeInv, TypeOK, PlaceInv, disk, past, V
<1>2. CASE CreatePod
  <2>1. /\ made < MaxPods /\ made' = made + 1 /\ spec' \in Specs /\ pc' = "preparing"
        /\ at' = <<1, 1>> /\ todo' = {} /\ DOMAIN vol' = {}
        /\ UNCHANGED <<objects, dirs, files, dirty, cleaners>>
    BY <1>2 DEF CreatePod, disk, past
  <2>2. made' \in 0 .. MaxPods
    BY <2>1 DEF TypeInv, TypeOK
  <2> QED
    BY <2>1, <2>2 DEF TypeInv, TypeOK, PlaceInv
<1>3. CASE MapHostPath \/ MapEmptyDir
  <2>1. CASE \E d \in {NoDir, <<"emptydirs", V.name>>} : MapTo(d) /\ NextVolume
             /\ pc' = pc /\ pc = "preparing" /\ dirs \subseteq dirs' /\ files' = files
    <3>1. PICK d \in {NoDir, <<"emptydirs", V.name>>} : MapTo(d)
      BY <2>1
    <3>2. d = NoDir \/ d[2] = V.name
      BY <3>1
    <3>3. \A name \in DOMAIN vol' : vol'[name] = NoDir \/ vol'[name][2] = name
      BY <3>1, <3>2, Mapped DEF TypeInv, TypeOK
    <3>4. at[1] \in Nat /\ at' = <<at[1] + 1, 1>>
      BY <2>1 DEF NextVolume, TypeInv, TypeOK
    <3>5. at' \in Nat \X Nat /\ at'[1] # 0 /\ at'[2] # 0
      BY <3>4
    <3>6. UNCHANGED <<objects, made, spec, todo, dirty, cleaners>>
      BY <2>1 DEF NextVolume, past
    <3> QED
      BY <2>1, <3>3, <3>5, <3>6 DEF TypeInv, TypeOK, PlaceInv
  <2>2. CASE Fail /\ UNCHANGED disk
    BY <2>2 DEF Fail, TypeInv, TypeOK, PlaceInv, disk, past
  <2> QED
    BY <1>3, <2>1, <2>2 DEF MapHostPath, MapEmptyDir, SetupPaths, disk
<1>4. CASE Unsupported
  BY <1>4 DEF Unsupported, Fail, TypeInv, TypeOK, PlaceInv, disk, past
<1>5. CASE MissSource
  <2>1. CASE Fail
    BY <1>5, <2>1 DEF MissSource, Fail, TypeInv, TypeOK, PlaceInv, disk, past
  <2>2. CASE NextSource
    <3>1. /\ at' = <<at[1], at[2] + 1>> /\ at \in Nat \X Nat /\ at[1] # 0 /\ at[2] # 0
          /\ pc = "preparing" /\ pc' = pc
          /\ UNCHANGED <<objects, made, spec, todo, vol, disk, past>>
      BY <1>5, <2>2 DEF MissSource, HasSource, NextSource, Fail, TypeInv, TypeOK, PlaceInv
    <3>2. at' \in Nat \X Nat /\ at'[1] # 0 /\ at'[2] # 0
      BY <3>1
    <3> QED
      BY <3>1, <3>2 DEF TypeInv, TypeOK, PlaceInv, disk, past
  <2> QED
    BY <1>5, <2>1, <2>2 DEF MissSource
<1>6. CASE Panic
  BY <1>6 DEF Panic, SetupPaths, TypeInv, TypeOK, PlaceInv, disk, past
<1>7. CASE OpenSource
  <2>1. CASE Fail /\ UNCHANGED disk
    BY <2>1 DEF Fail, TypeInv, TypeOK, PlaceInv, disk, past
  <2>2. CASE ~(Fail /\ UNCHANGED disk)
    <3>1. /\ HasSource /\ pc' = "writing" /\ todo' = KeysOf(V, Source)
          /\ dirs \subseteq dirs' /\ files' = files
          /\ UNCHANGED <<objects, made, spec, at, vol, dirty, cleaners>>
      BY <1>7, <2>2 DEF OpenSource, SetupPaths, past
    <3>2. todo' \subseteq Keys
      BY <3>1, SourceFacts
    <3>3. PlaceInv'
      BY <3>1 DEF PlaceInv, HasSource, TypeInv, V
    <3> QED
      BY <3>1, <3>2, <3>3 DEF TypeInv, TypeOK
  <2> QED
    BY <2>1, <2>2
<1>8. CASE WriteFile
  <2>1. /\ todo' \subseteq todo /\ UNCHANGED <<objects, made, spec, pc, at, vol, dirs, past>>
        /\ \A f \in files' : f \in files \/ f[1] \in dirs
    BY <1>8 DEF WriteFile
  <2> QED
    BY <2>1 DEF TypeInv, TypeOK, PlaceInv, past, V
<1>9. CASE FailWrite
  <2>1. /\ pc' = "failed" /\ UNCHANGED <<objects, made, spec, at, todo, vol, dirs, past>>
        /\ \A f \in files' : f \in files \/ f[1] \in dirs
    BY <1>9 DEF FailWrite, Fail
  <2> QED
    BY <2>1 DEF TypeInv, TypeOK, PlaceInv, past
<1>10. CASE MapSource
  <2>1. /\ MapTo(SourceDir(V, Source)) /\ pc = "writing" /\ pc' = "preparing"
        /\ at' = <<at[1], at[2] + 1>> /\ at \in Nat \X Nat /\ at[1] # 0 /\ at[2] # 0
        /\ UNCHANGED <<objects, made, spec, todo, disk, past>>
    BY <1>10 DEF MapSource, NextSource, TypeInv, TypeOK, PlaceInv
  <2>2. \A name \in DOMAIN vol' : vol'[name] = NoDir \/ vol'[name][2] = name
    BY <2>1, SourceFacts, Mapped DEF TypeInv, TypeOK
  <2>3. at' \in Nat \X Nat /\ at'[1] # 0 /\ at'[2] # 0
    BY <2>1
  <2> QED
    BY <2>1, <2>2, <2>3 DEF TypeInv, TypeOK, PlaceInv, disk, past
<1>11. CASE EndVolume
  <2>1. /\ at' = <<at[1] + 1, 1>> /\ at \in Nat \X Nat /\ pc = "preparing"
        /\ UNCHANGED <<objects, made, spec, pc, todo, vol, disk, past>>
    BY <1>11 DEF EndVolume, NextVolume, TypeInv, TypeOK
  <2>2. at' \in Nat \X Nat /\ at'[1] # 0 /\ at'[2] # 0
    BY <2>1
  <2> QED
    BY <2>1, <2>2 DEF TypeInv, TypeOK, PlaceInv, disk, past
<1>12. CASE ReturnVolumes
  BY <1>12 DEF ReturnVolumes, TypeInv, TypeOK, PlaceInv, disk, past
<1>13. CASE DeletePod
  BY <1>13 DEF DeletePod, RemoveAll, TypeInv, TypeOK, PlaceInv, past
<1>14. CASE DeletePodEarly
  <2>1. cleaners' \in 0 .. MaxLate
    BY <1>14 DEF DeletePodEarly, TypeInv, TypeOK
  <2> QED
    BY <1>14, <2>1 DEF DeletePodEarly, TypeInv, TypeOK, PlaceInv, disk
<1>15. CASE LateRemove
  <2>1. cleaners' \in 0 .. MaxLate
    BY <1>15 DEF LateRemove, TypeInv, TypeOK
  <2> QED
    BY <1>15, <2>1 DEF LateRemove, RemoveAll, TypeInv, TypeOK, PlaceInv, V
<1>16. CASE UNCHANGED vars
  BY <1>16 DEF vars, disk, past, TypeInv, TypeOK, PlaceInv, V
<1> QED
  BY <1>1, <1>2, <1>3, <1>4, <1>5, <1>6, <1>7, <1>8, <1>9, <1>10, <1>11, <1>12,
     <1>13, <1>14, <1>15, <1>16 DEF Next, Volumes

\* Every variable keeps its type, every volume has a directory of its own, and
\* no file is outside a directory (volumes.go, setupPaths and writeFile).
THEOREM VolumesTypes == Spec => []TypeOK
<1>1. TypeInv => TypeOK
  BY DEF TypeInv
<1> QED
  BY <1>1, TypeInit, TypeStep, PTL DEF Spec

-----------------------------------------------------------------------------
(* Objects that must exist.                                                *)

\* CreatePod has come past source j of volume i.
Passed(i, j) == i < at[1] \/ (i = at[1] /\ j < at[2])

\* A source that must exist and that CreatePod has passed is mapped.
RequiredInv ==
  Active =>
    \A i \in DOMAIN spec : \A j \in DOMAIN spec[i].sources :
      spec[i].sources[j].optional = "no" /\ Passed(i, j) => spec[i].name \in DOMAIN vol

LEMMA SourceIndex ==
  ASSUME spec \in Specs \cup {<<>>}, NEW i \in DOMAIN spec, NEW j \in DOMAIN spec[i].sources
  PROVE  i \in Nat \ {0} /\ j \in Nat \ {0} /\ j <= Len(spec[i].sources)
<1>1. i \in Nat \ {0} /\ spec[i] \in VolumeType
  BY SpecFacts
<1>2. spec[i].sources \in Seq(SourceType)
  BY <1>1 DEF VolumeType
<1> QED
  BY <1>1, <1>2

\* The end of a volume, of which every source has been passed.
LEMMA RequiredVolume ==
  ASSUME TypeInv, RequiredInv, pc = "preparing", at[1] <= Len(spec), NextVolume,
         DOMAIN vol \subseteq DOMAIN vol', V.kind \notin Made \/ at[2] > Len(V.sources)
  PROVE  RequiredInv'
<1>1. spec' = spec /\ at' = <<at[1] + 1, 1>> /\ at \in Nat \X Nat
  BY DEF NextVolume, TypeInv, TypeOK
<1>2. ASSUME NEW i \in DOMAIN spec, NEW j \in DOMAIN spec[i].sources, Passed(i, j)'
      PROVE  Passed(i, j)
  <2>1. i \in Nat \ {0} /\ j \in Nat \ {0} /\ j <= Len(spec[i].sources)
    BY SourceIndex DEF TypeInv, TypeOK
  <2>2. i < at[1] \/ i = at[1]
    BY <1>1, <1>2, <2>1 DEF Passed
  <2>3. i = at[1] => j < at[2]
    <3>1. i = at[1] => V = spec[i] /\ Len(V.sources) \in Nat
      BY VolumeFacts
    <3>2. i = at[1] => V.kind \in Made
      BY <3>1, SpecFacts DEF TypeInv, TypeOK
    <3> QED
      BY <1>1, <2>1, <3>1, <3>2
  <2> QED
    BY <2>2, <2>3 DEF Passed
<1> QED
  BY <1>1, <1>2 DEF RequiredInv, Active

\* The end of a source, that is mapped or need not exist.
LEMMA RequiredSource ==
  ASSUME TypeInv, RequiredInv, HasSource \/ pc = "writing", NextSource,
         DOMAIN vol \subseteq DOMAIN vol',
         Source.optional = "no" => V.name \in DOMAIN vol'
  PROVE  RequiredInv'
<1>1. spec' = spec /\ at' = <<at[1], at[2] + 1>> /\ at \in Nat \X Nat
  BY DEF NextSource, TypeInv, TypeOK
<1>2. Source = V.sources[at[2]] /\ V = spec[at[1]]
  BY SourceFacts, VolumeFacts
<1>3. ASSUME NEW i \in DOMAIN spec, NEW j \in DOMAIN spec[i].sources, Passed(i, j)'
      PROVE  Passed(i, j) \/ (i = at[1] /\ j = at[2])
  <2>1. i \in Nat \ {0} /\ j \in Nat \ {0}
    BY SourceIndex DEF TypeInv, TypeOK
  <2> QED
    BY <1>1, <1>3, <2>1 DEF Passed
<1> QED
  BY <1>1, <1>2, <1>3 DEF RequiredInv, Active, HasSource

LEMMA RequiredInit == Init => RequiredInv
  BY DEF Init, RequiredInv, Active

LEMMA RequiredStep == TypeInv /\ RequiredInv /\ [Next]_vars => RequiredInv'
<1> SUFFICES ASSUME TypeInv, RequiredInv, [Next]_vars PROVE RequiredInv'
  OBVIOUS
<1>1. CASE (Active' => Active) /\ UNCHANGED <<spec, at, vol>>
  BY <1>1 DEF RequiredInv, Passed
<1>2. CASE \E o \in Objects : Change(o)
  BY <1>1, <1>2 DEF Change, Active
<1>3. CASE CreatePod
  <2>1. spec' \in Specs /\ at' = <<1, 1>>
    BY <1>3 DEF CreatePod
  <2>2. ASSUME NEW i \in DOMAIN spec', NEW j \in DOMAIN spec'[i].sources
        PROVE  ~Passed(i, j)'
    <3>1. spec' \in Seq(VolumeType)
      BY <2>1, VolumesAssumption
    <3>2. i \in Nat \ {0} /\ spec'[i] \in VolumeType
      BY <3>1
    <3>3. spec'[i].sources \in Seq(SourceType)
      BY <3>2 DEF VolumeType
    <3>4. j \in Nat \ {0}
      BY <3>3
    <3> QED
      BY <2>1, <3>2, <3>4 DEF Passed
  <2> QED
    BY <2>2 DEF RequiredInv
<1>4. CASE Fail
  BY <1>4 DEF Fail, RequiredInv, Active
<1>5. CASE MapHostPath \/ MapEmptyDir
  <2>1. CASE NextVolume /\ \E d \in {NoDir, <<"emptydirs", V.name>>} : MapTo(d)
    <3>1. DOMAIN vol \subseteq DOMAIN vol'
      BY <2>1, Mapped
    <3>2. pc = "preparing" /\ at[1] <= Len(spec) /\ V.kind \notin Made
      BY <1>5 DEF MapHostPath, MapEmptyDir, Made
    <3> QED
      BY <2>1, <3>1, <3>2, RequiredVolume
  <2> QED
    BY <1>4, <1>5, <2>1 DEF MapHostPath, MapEmptyDir
<1>6. CASE MissSource /\ ~Fail
  <2>1. HasSource /\ NextSource /\ ~MustExist(Source) /\ vol' = vol
    BY <1>6 DEF MissSource
  <2>2. Source.optional # "no"
    <3>1. Source = spec[at[1]].sources[at[2]] /\ at[1] \in DOMAIN spec
          /\ at[2] \in DOMAIN spec[at[1]].sources
      BY <2>1, SourceFacts, VolumeFacts
    <3>2. Source.kind = "token" => Source.optional # "no"
      BY <3>1, SpecFacts DEF TypeInv, TypeOK
    <3> QED
      BY <2>1, <3>2 DEF MustExist
  <2> QED
    BY <2>1, <2>2, RequiredSource
<1>7. CASE OpenSource
  BY <1>1, <1>4, <1>7 DEF OpenSource, HasSource, Active
<1>8. CASE MapSource
  <2>1. pc = "writing" /\ NextSource /\ MapTo(SourceDir(V, Source))
    BY <1>8 DEF MapSource
  <2>2. DOMAIN vol \subseteq DOMAIN vol' /\ V.name \in DOMAIN vol'
    BY <2>1, Mapped
  <2> QED
    BY <2>1, <2>2, RequiredSource
<1>9. CASE EndVolume
  <2>1. /\ pc = "preparing" /\ at[1] <= Len(spec) /\ NextVolume /\ vol' = vol
        /\ at[2] > Len(V.sources)
    BY <1>9 DEF EndVolume
  <2> QED
    BY <2>1, RequiredVolume
<1>10. CASE Panic \/ WriteFile \/ ReturnVolumes \/ DeletePod \/ DeletePodEarly
            \/ LateRemove \/ UNCHANGED vars
  BY <1>1, <1>10 DEF Panic, WriteFile, ReturnVolumes, DeletePod, DeletePodEarly,
                     LateRemove, vars, Active
<1> QED
  BY <1>2, <1>3, <1>4, <1>5, <1>6, <1>7, <1>8, <1>9, <1>10
     DEF Next, Volumes, Unsupported, FailWrite

\* CreatePod starts no container without a mapping for every object that the
\* pod says must exist (volumes.go:90, 129).
THEOREM VolumesRequiredIsMapped == Spec => []RequiredIsMapped
<1>1. TypeInv /\ RequiredInv => RequiredIsMapped
  <2> SUFFICES ASSUME TypeInv, RequiredInv, pc = "ready", NEW i \in DOMAIN spec,
                      NEW j \in DOMAIN spec[i].sources, spec[i].sources[j].optional = "no"
               PROVE  spec[i].name \in DOMAIN vol
    BY DEF RequiredIsMapped
  <2>1. i < at[1]
    <3>1. i \in Nat /\ i <= Len(spec) /\ Len(spec) \in Nat
      BY SpecFacts DEF TypeInv, TypeOK
    <3>2. at[1] \in Nat /\ at[1] > Len(spec)
      BY DEF TypeInv, TypeOK, PlaceInv
    <3> QED
      BY <3>1, <3>2
  <2> QED
    BY <2>1 DEF RequiredInv, Active, Passed
<1>2. TypeInv /\ RequiredInv /\ [Next]_vars => (TypeInv /\ RequiredInv)'
  BY TypeStep, RequiredStep
<1> QED
  BY <1>1, <1>2, TypeInit, RequiredInit, PTL DEF Spec

-----------------------------------------------------------------------------
(* The files of the volumes.                                               *)

\* The file of key k of volume i is in the directory of a source of it.
Written(i, k) == \E j \in DOMAIN spec[i].sources :
  <<SourceDir(spec[i], spec[i].sources[j]), k>> \in files

\* CreatePod still has to write key k of volume i.
Pending(i, k) == pc = "writing" /\ i = at[1] /\ k \in todo

\* Every file is of what has been read for the volume; what has been read is
\* written or pending; and a volume made from objects has the directory of a
\* source of it.
FilesRead == \A f \in files : f[2] \in Keys /\ <<f[1][2], f[2]>> \in wanted
ReadWritten == \A i \in DOMAIN spec, k \in Keys :
  <<spec[i].name, k>> \in wanted => Written(i, k) \/ Pending(i, k)
TodoRead == pc = "writing" => \A k \in todo : <<V.name, k>> \in wanted
MappedToSource == \A i \in DOMAIN spec :
  LET name == spec[i].name IN
  name \in DOMAIN vol /\ spec[i].kind \in Made =>
    \E j \in DOMAIN spec[i].sources : vol[name] = SourceDir(spec[i], spec[i].sources[j])

ContentInv == FilesRead /\ ReadWritten /\ TodoRead /\ MappedToSource

\* As long as no pod has left its directory behind, a pod begins without files
\* and nothing removes those it has.
ExactInv ==
  ~dirty => /\ cleaners = 0
            /\ pc = "none" => files = {}
            /\ Active => ContentInv

LEMMA ExactInit == Init => ExactInv
  BY DEF Init, ExactInv, Active

\* A step that ends a volume or a source, and may map it.
LEMMA ContentMapped ==
  ASSUME TypeInv, ContentInv, at[1] <= Len(spec), pc' = "preparing",
         UNCHANGED <<spec, files, wanted>>, NEW d, MapTo(d),
         V.kind \in Made => \E j \in DOMAIN V.sources : d = SourceDir(V, V.sources[j]),
         pc # "writing" \/ todo = {}
  PROVE  ContentInv'
<1>1. FilesRead' /\ TodoRead'
  BY DEF ContentInv, FilesRead, TodoRead
<1>2. ReadWritten'
  <2>1. \A i \in DOMAIN spec, k \in Keys : ~Pending(i, k) /\ Written(i, k)' = Written(i, k)
    BY DEF Pending, Written
  <2> QED
    BY <2>1 DEF ContentInv, ReadWritten
<1>3. MappedToSource'
  <2> SUFFICES ASSUME NEW i \in DOMAIN spec, spec[i].name \in DOMAIN vol',
                      spec[i].kind \in Made
               PROVE  \E j \in DOMAIN spec[i].sources :
                        vol'[spec[i].name] = SourceDir(spec[i], spec[i].sources[j])
    BY DEF MappedToSource
  <2>1. at[1] \in DOMAIN spec /\ V = spec[at[1]]
    BY VolumeFacts
  <2>2. CASE spec[i].name = V.name
    <3>1. i = at[1]
      BY <2>1, <2>2, SpecFacts DEF TypeInv, TypeOK
    <3> QED
      BY <2>1, <3>1, Mapped
  <2>3. CASE spec[i].name # V.name
    <3>1. spec[i].name \in DOMAIN vol /\ vol'[spec[i].name] = vol[spec[i].name]
      BY <2>3, Mapped
    <3> QED
      BY <3>1 DEF ContentInv, MappedToSource
  <2> QED
    BY <2>2, <2>3
<1> QED
  BY <1>1, <1>2, <1>3 DEF ContentInv

\* A step that leaves the volumes and the files as they are.
LEMMA ContentStays ==
  ASSUME ContentInv, pc # "writing", pc' # "writing",
         UNCHANGED <<spec, vol, files, wanted>>
  PROVE  ContentInv'
<1>1. \A i \in DOMAIN spec, k \in Keys : ~Pending(i, k) /\ Written(i, k)' = Written(i, k)
  BY DEF Pending, Written
<1>2. ReadWritten'
  BY <1>1 DEF ContentInv, ReadWritten
<1> QED
  BY <1>2 DEF ContentInv, FilesRead, TodoRead, MappedToSource

LEMMA ContentOpened ==
  ASSUME TypeInv, ContentInv, HasSource, pc' = "writing", todo' = KeysOf(V, Source),
         wanted' = wanted \cup {<<V.name, k>> : k \in KeysOf(V, Source)},
         UNCHANGED <<spec, at, vol, files>>
  PROVE  ContentInv'
<1>1. at[1] \in DOMAIN spec /\ V = spec[at[1]]
  BY SourceFacts, VolumeFacts
<1>2. FilesRead' /\ MappedToSource'
  BY DEF ContentInv, FilesRead, MappedToSource
<1>3. TodoRead'
  BY DEF TodoRead, V
<1>4. ReadWritten'
  <2> SUFFICES ASSUME NEW i \in DOMAIN spec, NEW k \in Keys, <<spec[i].name, k>> \in wanted'
               PROVE  Written(i, k)' \/ Pending(i, k)'
    BY DEF ReadWritten
  <2>1. CASE <<spec[i].name, k>> \in wanted
    <3>1. Written(i, k)
      BY <2>1 DEF ContentInv, ReadWritten, Pending, HasSource
    <3> QED
      BY <3>1 DEF Written
  <2>2. CASE <<spec[i].name, k>> \notin wanted
    <3>1. spec[i].name = V.name /\ k \in KeysOf(V, Source)
      BY <2>2
    <3>2. i = at[1]
      BY <1>1, <3>1, SpecFacts DEF TypeInv, TypeOK
    <3> QED
      BY <3>1, <3>2 DEF Pending
  <2> QED
    BY <2>1, <2>2
<1> QED
  BY <1>2, <1>3, <1>4 DEF ContentInv

LEMMA ContentWritten ==
  ASSUME TypeInv, ContentInv, WriteFile
  PROVE  ContentInv'
<1> DEFINE d == SourceDir(V, Source)
<1>1. PICK key \in todo : files' = files \cup {<<d, key>>} /\ todo' = todo \ {key}
  BY DEF WriteFile
<1>2. pc = "writing" /\ UNCHANGED <<spec, pc, at, vol, wanted>>
  BY DEF WriteFile
<1>3. /\ d[2] = V.name /\ V = spec[at[1]] /\ at[1] \in DOMAIN spec
      /\ at[2] \in DOMAIN V.sources /\ d = SourceDir(V, V.sources[at[2]])
  BY <1>2, SourceFacts, VolumeFacts
<1>4. key \in Keys /\ <<V.name, key>> \in wanted
  BY <1>1, <1>2 DEF ContentInv, TodoRead, TypeInv, TypeOK
<1> HIDE DEF d
<1>5. FilesRead'
  <2> SUFFICES ASSUME NEW f \in files'
               PROVE  f[2] \in Keys /\ <<f[1][2], f[2]>> \in wanted
    BY <1>2 DEF FilesRead
  <2>1. f \in files \/ (f[1] = d /\ f[2] = key)
    BY <1>1
  <2> QED
    BY <1>3, <1>4, <2>1 DEF ContentInv, FilesRead
<1>6. ReadWritten'
  <2> SUFFICES ASSUME NEW i \in DOMAIN spec, NEW k \in Keys, <<spec[i].name, k>> \in wanted
               PROVE  Written(i, k)' \/ Pending(i, k)'
    BY <1>2 DEF ReadWritten
  <2>1. CASE Written(i, k)
    BY <1>1, <1>2, <2>1 DEF Written
  <2>2. CASE Pending(i, k) /\ k # key
    BY <1>1, <1>2, <2>2 DEF Pending
  <2>3. CASE Pending(i, k) /\ k = key
    <3>1. i = at[1]
      BY <2>3 DEF Pending
    <3> QED
      BY <1>1, <1>2, <1>3, <2>3, <3>1 DEF Written
  <2> QED
    BY <2>1, <2>2, <2>3 DEF ContentInv, ReadWritten
<1>7. TodoRead'
  BY <1>1, <1>2 DEF ContentInv, TodoRead, V
<1>8. MappedToSource'
  BY <1>2 DEF ContentInv, MappedToSource
<1> QED
  BY <1>5, <1>6, <1>7, <1>8 DEF ContentInv

LEMMA ExactStep == TypeInv /\ ExactInv /\ [Next]_vars => ExactInv'
<1> SUFFICES ASSUME TypeInv, ExactInv, [Next]_vars PROVE ExactInv'
  OBVIOUS
<1>1. CASE dirty
  <2>1. dirty'
    BY <1>1 DEF Next, Volumes, Change, CreatePod, MapHostPath, MapEmptyDir, Unsupported,
                MissSource, Panic, OpenSource, WriteFile, FailWrite, MapSource, EndVolume,
                ReturnVolumes, DeletePod, DeletePodEarly, LateRemove, Fail, NextVolume,
                NextSource, past, vars
  <2> QED
    BY <2>1 DEF ExactInv
<1>2. CASE ~dirty
  <2>1. cleaners = 0 /\ (pc = "none" => files = {}) /\ (Active => ContentInv)
    BY <1>2 DEF ExactInv
  <2>2. CASE Fail
    BY <2>1, <2>2 DEF Fail, past, ExactInv, Active
  <2>3. CASE Panic
    BY <2>1, <2>3 DEF Panic, past, ExactInv, Active
  <2>4. CASE UNCHANGED <<spec, pc, at, todo, vol, wanted, disk, past>>
    <3>1. ContentInv' = ContentInv
      BY <2>4 DEF disk, ContentInv, FilesRead, ReadWritten, TodoRead, MappedToSource,
                  Written, Pending, V
    <3> QED
      BY <2>1, <2>4, <3>1 DEF disk, past, ExactInv, Active
  <2>5. CASE CreatePod
    <3>1. /\ pc' = "preparing" /\ files' = {} /\ wanted' = {} /\ DOMAIN vol' = {}
          /\ cleaners' = cleaners
      BY <2>1, <2>5 DEF CreatePod, disk, past
    <3>2. ContentInv'
      BY <3>1 DEF ContentInv, FilesRead, ReadWritten, TodoRead, MappedToSource
    <3> QED
      BY <2>1, <3>1, <3>2 DEF ExactInv
  <2>6. CASE MapHostPath \/ MapEmptyDir
    <3>1. CASE \E d \in {NoDir, <<"emptydirs", V.name>>} : MapTo(d) /\ NextVolume
               /\ UNCHANGED <<pc, wanted, files>>
      <4>1. /\ pc = "preparing" /\ at[1] <= Len(spec) /\ V.kind \notin Made
            /\ UNCHANGED <<spec, cleaners>>
        BY <2>6, <3>1 DEF MapHostPath, MapEmptyDir, Made, NextVolume, past
      <4>2. ContentInv'
        BY <2>1, <3>1, <4>1, ContentMapped DEF Active
      <4> QED
        BY <2>1, <3>1, <4>1, <4>2 DEF ExactInv
    <3> QED
      BY <2>2, <2>6, <3>1 DEF MapHostPath, MapEmptyDir, SetupPaths, disk
  <2>7. CASE (MissSource /\ ~Fail) \/ EndVolume \/ ReturnVolumes
    <3>1. /\ pc = "preparing" /\ pc' \in {"preparing", "ready"}
          /\ UNCHANGED <<spec, vol, files, wanted, cleaners>>
      BY <2>7 DEF MissSource, HasSource, EndVolume, ReturnVolumes, NextSource, NextVolume,
                  disk, past
    <3>2. ContentInv'
      BY <2>1, <3>1, ContentStays DEF Active
    <3> QED
      BY <2>1, <3>1, <3>2 DEF ExactInv
  <2>8. CASE OpenSource /\ ~Fail
    <3>1. /\ HasSource /\ pc' = "writing" /\ todo' = KeysOf(V, Source)
          /\ wanted' = wanted \cup {<<V.name, k>> : k \in KeysOf(V, Source)}
          /\ UNCHANGED <<spec, at, vol, files, cleaners>>
      BY <2>8 DEF OpenSource, SetupPaths, past
    <3>2. ContentInv'
      BY <2>1, <3>1, ContentOpened DEF Active, HasSource
    <3> QED
      BY <2>1, <3>1, <3>2 DEF ExactInv
  <2>9. CASE WriteFile
    <3>1. ContentInv'
      BY <2>1, <2>9, ContentWritten DEF Active, WriteFile
    <3> QED
      BY <2>1, <2>9, <3>1 DEF WriteFile, past, ExactInv
  <2>10. CASE MapSource
    <3>1. /\ pc = "writing" /\ todo = {} /\ pc' = "preparing" /\ MapTo(SourceDir(V, Source))
          /\ UNCHANGED <<spec, files, wanted, cleaners>>
      BY <2>10 DEF MapSource, NextSource, disk, past
    <3>2. /\ at[1] <= Len(spec) /\ at[2] \in DOMAIN V.sources
          /\ Source = V.sources[at[2]]
      BY <3>1, SourceFacts
    <3>3. ContentInv'
      BY <2>1, <3>1, <3>2, ContentMapped DEF Active
    <3> QED
      BY <2>1, <3>1, <3>3 DEF ExactInv
  <2>11. CASE DeletePod
    BY <2>1, <2>11 DEF DeletePod, RemoveAll, past, ExactInv, Active
  <2>12. CASE DeletePodEarly
    BY <2>12 DEF DeletePodEarly, ExactInv
  <2>13. CASE LateRemove
    BY <2>1, <2>13 DEF LateRemove
  <2> QED
    BY <2>2, <2>3, <2>4, <2>5, <2>6, <2>7, <2>8, <2>9, <2>10, <2>11, <2>12, <2>13
       DEF Next, Volumes, Change, Unsupported, FailWrite, OpenSource, MissSource, vars
<1> QED
  BY <1>1, <1>2

\* Unless an earlier pod of the name has left its directory, a started pod's
\* volumes hold exactly what its objects had when they were read, and no
\* temporary file (volumes.go, writeFile; mock.go, os.RemoveAll).
THEOREM VolumesExactFiles == Spec => []ExactFiles
<1>1. TypeInv /\ ExactInv => ExactFiles
  <2> SUFFICES ASSUME TypeInv, ExactInv, pc = "ready", ~dirty, NEW i \in DOMAIN spec,
                      spec[i].name \in DOMAIN vol, OneKind(spec[i]),
                      vol[spec[i].name] # NoDir
               PROVE  FilesOf(vol[spec[i].name]) = WantedOf(spec[i].name)
    BY DEF ExactFiles
  <2> DEFINE name == spec[i].name
             d == vol[name]
  <2>1. ContentInv /\ d[2] = name
    BY DEF ExactInv, Active, TypeInv, TypeOK
  <2>2. ASSUME NEW k \in FilesOf(d) PROVE k \in WantedOf(name)
    <3>1. <<d, k>> \in files
      BY <2>2 DEF FilesOf
    <3>2. k \in Keys /\ <<d[2], k>> \in wanted
      BY <2>1, <3>1 DEF ContentInv, FilesRead
    <3> QED
      BY <2>1, <3>2 DEF WantedOf
  <2>3. ASSUME NEW k \in WantedOf(name) PROVE k \in FilesOf(d)
    <3>1. k \in Keys /\ <<name, k>> \in wanted
      BY <2>3 DEF WantedOf
    <3>2. PICK j \in DOMAIN spec[i].sources :
            <<SourceDir(spec[i], spec[i].sources[j]), k>> \in files
      BY <2>1, <3>1 DEF ContentInv, ReadWritten, Written, Pending
    <3>3. spec[i].kind \in Made
      BY <3>2, SpecFacts DEF TypeInv, TypeOK
    <3>4. PICK l \in DOMAIN spec[i].sources : d = SourceDir(spec[i], spec[i].sources[l])
      BY <2>1, <3>3 DEF ContentInv, MappedToSource
    <3>5. SourceDir(spec[i], spec[i].sources[j]) = d
      BY <3>4 DEF SourceDir, OneKind
    <3> QED
      BY <3>1, <3>2, <3>5 DEF FilesOf
  <2> QED
    BY <2>2, <2>3
<1>2. TypeInv /\ ExactInv /\ [Next]_vars => (TypeInv /\ ExactInv)'
  BY TypeStep, ExactStep
<1> QED
  BY <1>1, <1>2, TypeInit, ExactInit, PTL DEF Spec
=============================================================================
