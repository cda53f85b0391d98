--------------------------- MODULE PerconaDefaults ---------------------------
(***************************************************************************)
(* Defaulting of a PerconaXtraDB spec (SetDefaults, setDefaultProbes) and  *)
(* IsCluster.  The defaults are a pure function of the spec; every write   *)
(* of the object is stored defaulted.  Users create the object, scale it,  *)
(* set or clear its readiness probe and delete it.  The probe command and  *)
(* other field values are abstracted to names.                              *)
(***************************************************************************)
EXTENDS Integers

CONSTANTS
  Nil,          \* a nil pointer
  MaxReplicas   \* bound: replicas a user asks for

\* The values a user may write in each field ("" is the unset string).
ReplicaValues   == {Nil} \cup (-1 .. MaxReplicas)
StorageTypes    == {"", "Durable", "Ephemeral"}
UpdateTypes     == {"", "RollingUpdate", "OnDelete"}
Policies        == {"", "Pause", "Delete", "WipeOut", "DoNotTerminate"}
\* A user gives no probe or one of their own; the default probe runs
\* /cluster-check.sh or a mysqladmin ping.
UserProbes      == {Nil, "userProbe"}
Probes          == UserProbes \cup {"clusterCheck", "ping"}

Specs == [replicas : ReplicaValues, storageType : StorageTypes,
          updateStrategy : UpdateTypes, terminationPolicy : Policies,
          readinessProbe : UserProbes]

\* types.Int32: the value of an *int32, 0 for nil.
Int32(p) == IF p = Nil THEN 0 ELSE p

IsCluster(s) == Int32(s.replicas) > 1

\* Mutant: the default probe replaces the one given.
SetDefaultProbesAlways(s) ==
  [s EXCEPT !.readinessProbe = IF Int32(s.replicas) > 1 THEN "clusterCheck" ELSE "ping"]

\* setDefaultProbes: the probe command by the replica count, set only when
\* no probe is given.
SetDefaultProbes(s) ==
  IF s.readinessProbe = Nil
    THEN [s EXCEPT !.readinessProbe = IF Int32(s.replicas) > 1 THEN "clusterCheck" ELSE "ping"]
    ELSE s

\* Mutant: the termination policy is not defaulted.
SpecSetDefaultsNoPolicy(s) ==
  SetDefaultProbes(
    [s EXCEPT !.replicas          = IF @ = Nil THEN 1 ELSE @,
              !.storageType       = IF @ = "" THEN "Durable" ELSE @,
              !.updateStrategy    = IF @ = "" THEN "RollingUpdate" ELSE @])

\* PerconaXtraDBSpec.SetDefaults: each unset field gets its default, then
\* the probes.
SpecSetDefaults(s) ==
  SetDefaultProbes(
    [s EXCEPT !.replicas          = IF @ = Nil THEN 1 ELSE @,
              !.storageType       = IF @ = "" THEN "Durable" ELSE @,
              !.updateStrategy    = IF @ = "" THEN "RollingUpdate" ELSE @,
              !.terminationPolicy = IF @ = "" THEN "Delete" ELSE @])

\* PerconaXtraDB.SetDefaults: nothing for a nil object.
SetDefaults(p) == IF p = Nil THEN Nil ELSE SpecSetDefaults(p)

VARIABLES
  obj,   \* the stored object, defaulted, or Nil
  input  \* the spec last written, before defaulting

vars == <<obj, input>>

\* A write: the object is stored defaulted.
Store(s) == obj' = SetDefaults(s) /\ input' = s

Create(s) ==
  /\ obj = Nil
  /\ Store(s)

\* A user changes the replica count of the stored object.
Scale(r) ==
  /\ obj # Nil
  /\ r # obj.replicas
  /\ Store([obj EXCEPT !.replicas = r])

\* A user sets a probe of their own, or clears the probe.
SetProbe(p) ==
  /\ obj # Nil
  /\ p \in UserProbes
  /\ p # obj.readinessProbe
  /\ Store([obj EXCEPT !.readinessProbe = p])

Delete ==
  /\ obj # Nil
  /\ obj' = Nil /\ UNCHANGED input

Init == obj = Nil /\ input = Nil

Next ==
  \/ \E s \in Specs : Create(s)
  \/ \E r \in ReplicaValues : Scale(r)
  \/ \E p \in UserProbes : SetProbe(p)
  \/ Delete

Spec == Init /\ [][Next]_vars

-----------------------------------------------------------------------------
\* A defaulted spec: no field left unset.
Defaulted == [replicas : -1 .. MaxReplicas, storageType : StorageTypes \ {""},
              updateStrategy : UpdateTypes \ {""}, terminationPolicy : Policies \ {""},
              readinessProbe : Probes \ {Nil}]

TypeOK == obj \in Defaulted \cup {Nil} /\ input \in [replicas : ReplicaValues,
            storageType : StorageTypes, updateStrategy : UpdateTypes,
            terminationPolicy : Policies, readinessProbe : Probes] \cup {Nil}

(* The defaulting, checked against its definition on every write (Create *)
(* writes every spec a user can write): d is the defaulting of s when     *)
(* every field s sets is kept, every unset one gets its default, and an   *)
(* unset probe is the cluster check exactly for a cluster (IsCluster of   *)
(* the defaulted spec, so a nil replica count counts as one); and         *)
(* defaulting the stored object again changes nothing.                    *)
IsDefaultOf(s, d) ==
  /\ d.replicas = IF s.replicas = Nil THEN 1 ELSE s.replicas
  /\ \A f \in {"storageType", "updateStrategy", "terminationPolicy"} :
        s[f] # "" => d[f] = s[f]
  /\ s.storageType = "" => d.storageType = "Durable"
  /\ s.updateStrategy = "" => d.updateStrategy = "RollingUpdate"
  /\ s.terminationPolicy = "" => d.terminationPolicy = "Delete"
  /\ d.readinessProbe = IF s.readinessProbe # Nil THEN s.readinessProbe
                        ELSE IF IsCluster(d) THEN "clusterCheck" ELSE "ping"

DefaultsCorrect ==
  obj # Nil => IsDefaultOf(input, obj) /\ SetDefaults(obj) = obj

====
