---------------------------- MODULE AtomicUpdate ----------------------------
(***************************************************************************)
(* What the write helpers promise (spec section 5: read the current       *)
(* version, apply the transform, write; on a version conflict re-read and *)
(* reapply): each helper call either applies its transform, in one step,  *)
(* to the object as it is at that moment, or ends without changing it.    *)
(* A transform adds the caller's key to the spec or, for a status update, *)
(* to the status.  Other clients update, delete and recreate the object.  *)
(* UpdateHelpers is shown to implement this specification.                *)
(***************************************************************************)
CONSTANTS
  Callers,     \* helper invocations
  Kind,        \* Kind[c] \in {"tryUpdate", "updateStatus", "createOrPatch"}
  Elem,        \* Elem[c]: the key c's transform adds
  OtherElems   \* spec keys other clients add

VARIABLES
  obj,     \* the object's spec and status
  exists,  \* whether it exists
  result   \* per caller: "none" while running, then "ok" or "failed"

vars == <<obj, exists, result>>

\* The part of the object a caller's transform changes.
Field(c) == IF Kind[c] = "updateStatus" THEN "status" ELSE "spec"

Empty == [spec |-> {}, status |-> {}]

Init ==
  /\ obj = Empty
  /\ exists = TRUE
  /\ result = [c \in Callers |-> "none"]

\* The transform applied to the current object.
Apply(c) ==
  /\ result[c] = "none" /\ exists
  /\ obj' = [obj EXCEPT ![Field(c)] = @ \cup {Elem[c]}]
  /\ result' = [result EXCEPT ![c] = "ok"]
  /\ UNCHANGED exists

\* CreateOrPatch of an absent object creates it from the transform.
CreateNew(c) ==
  /\ result[c] = "none" /\ ~exists /\ Kind[c] = "createOrPatch"
  /\ obj' = [Empty EXCEPT !.spec = {Elem[c]}]
  /\ exists' = TRUE
  /\ result' = [result EXCEPT ![c] = "ok"]

\* The call ends with an error, or finds nothing to do, and writes nothing.
Fail(c) ==
  /\ result[c] = "none"
  /\ result' = [result EXCEPT ![c] = "failed"]
  /\ UNCHANGED <<obj, exists>>

OtherUpdate(e) ==
  /\ exists
  /\ obj' = [obj EXCEPT !.spec = @ \cup {e}]
  /\ UNCHANGED <<exists, result>>

OtherDelete ==
  /\ exists
  /\ exists' = FALSE
  /\ UNCHANGED <<obj, result>>

OtherCreate ==
  /\ ~exists
  /\ exists' = TRUE
  /\ obj' = Empty
  /\ UNCHANGED result

Next ==
  \/ \E c \in Callers : Apply(c) \/ CreateNew(c) \/ Fail(c)
  \/ \E e \in OtherElems : OtherUpdate(e)
  \/ OtherDelete
  \/ OtherCreate

Spec == Init /\ [][Next]_vars

====
