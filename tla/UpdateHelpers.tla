---------------------------- MODULE UpdateHelpers ----------------------------
(***************************************************************************)
(* The conflict-retrying write helpers of the generated util package      *)
(* (TryUpdateEtcd, UpdateEtcdStatus; the Memcached and Postgres helpers   *)
(* are the same code).  Each runs a wait.PollImmediate loop of at most    *)
(* MaxAttempts attempts against one object of the API server, whose       *)
(* Update and UpdateStatus refuse a stale resourceVersion (Conflict).     *)
(* Other clients change the spec or delete the object meanwhile.          *)
(***************************************************************************)
EXTENDS Naturals, FiniteSets

CONSTANTS
  Callers,      \* helper invocations running concurrently
  Kind,         \* Kind[c] \in {"tryUpdate", "updateStatus", "createOrPatch"}
  Elem,         \* Elem[c]: the key c's transform adds to a map of the spec
                \* (or of the status)
  OtherElems,   \* spec values other clients add
  MaxAttempts,  \* bound: RetryTimeout / RetryInterval
  MaxFailures,  \* bound: transient (retryable) API errors per behaviour
  MaxVersion    \* bound: other clients write only below this resourceVersion

Elems == {Elem[c] : c \in Callers} \cup OtherElems
\* An object as the API server holds it or a client copy of it.
Object == [rv : Nat, spec : SUBSET Elems, status : SUBSET Elems]

VARIABLES
  obj,       \* the stored object
  exists,    \* whether it exists
  hc,        \* per caller: pc, cur, in, attempt, result, lastErr, nf
  written,   \* history: spec keys some write made durable in this incarnation
  failures   \* transient errors so far

vars == <<obj, exists, hc, written, failures>>

\* nf counts the NotFound answers the caller has had in a row.
NF(c, err) == IF err = "notfound" THEN hc[c].nf + 1 ELSE 0

Done(c, res, err) ==
  hc' = [hc EXCEPT ![c].pc = "done", ![c].result = res, ![c].lastErr = err,
                   ![c].nf = NF(c, err)]

\* (mutant) the poll loop without its timeout.
RepollUnbounded(c, next, err) ==
  hc' = [hc EXCEPT ![c].pc = next, ![c].attempt = @ + 1, ![c].lastErr = err,
                   ![c].nf = NF(c, err)]

\* wait.PollImmediate: the condition returned (false, nil); poll again, or
\* give up with ErrWaitTimeout when the attempts are used up.
Repoll(c, next, err) ==
  IF hc[c].attempt < MaxAttempts
  THEN hc' = [hc EXCEPT ![c].pc = next, ![c].attempt = @ + 1, ![c].lastErr = err,
                        ![c].nf = NF(c, err)]
  ELSE Done(c, "timeout", err)

\* The stored object after a successful write.
Stored(spec, status) == [rv |-> obj.rv + 1, spec |-> spec, status |-> status]

-----------------------------------------------------------------------------
(* TryUpdateEtcd: Get; NotFound ends the loop with the error, another Get *)
(* error polls again; then Update(transform(cur.DeepCopy())), any Update  *)
(* error polls again.                                                     *)
\* (mutant) NotFound from the Get taken for a retryable error.
TryUpdateGetNotFoundRetried(c) ==
  /\ hc[c].pc = "get"
  /\ \/ /\ ~exists
        /\ Repoll(c, "get", "notfound")
     \/ /\ exists
        /\ hc' = [hc EXCEPT ![c].pc = "update", ![c].cur = obj, ![c].nf = 0]
  /\ UNCHANGED <<obj, exists, written, failures>>

TryUpdateGet(c) ==
  /\ hc[c].pc = "get"
  /\ \/ /\ ~exists
        /\ Done(c, "error", "notfound")
     \/ /\ exists
        /\ hc' = [hc EXCEPT ![c].pc = "update", ![c].cur = obj, ![c].nf = 0]
  /\ UNCHANGED <<obj, exists, written, failures>>

\* (mutant) the transform is applied to the caller's first copy, and only
\* the resourceVersion is taken from the fresh read.
TryUpdateUpdateStaleBase(c) ==
  /\ hc[c].pc = "update"
  /\ \/ /\ exists /\ hc[c].cur.rv = obj.rv
        /\ obj' = Stored(hc[c].in.spec \cup {Elem[c]}, obj.status)
        /\ written' = written \cup {Elem[c]}
        /\ Done(c, "ok", "none")
     \/ /\ ~(exists /\ hc[c].cur.rv = obj.rv)
        /\ Repoll(c, "get", IF exists THEN "conflict" ELSE "notfound")
        /\ UNCHANGED <<obj, written>>
  /\ UNCHANGED <<exists, failures>>

\* (mutant) the transform is applied to a deep copy but the copy that was
\* read is sent: the Update succeeds without the caller's change.
TryUpdateUpdateUntransformed(c) ==
  /\ hc[c].pc = "update"
  /\ \/ /\ exists /\ hc[c].cur.rv = obj.rv
        /\ obj' = Stored(hc[c].cur.spec, obj.status)
        /\ Done(c, "ok", "none")
        /\ UNCHANGED written
     \/ /\ ~(exists /\ hc[c].cur.rv = obj.rv)
        /\ Repoll(c, "get", IF exists THEN "conflict" ELSE "notfound")
        /\ UNCHANGED <<obj, written>>
  /\ UNCHANGED <<exists, failures>>

TryUpdateUpdate(c) ==
  /\ hc[c].pc = "update"
  /\ \/ /\ exists /\ hc[c].cur.rv = obj.rv
        /\ obj' = Stored(hc[c].cur.spec \cup {Elem[c]}, obj.status)
        /\ written' = written \cup {Elem[c]}
        /\ Done(c, "ok", "none")
     \/ /\ ~(exists /\ hc[c].cur.rv = obj.rv)
        /\ Repoll(c, "get", IF exists THEN "conflict" ELSE "notfound")
        /\ UNCHANGED <<obj, written>>
  /\ UNCHANGED <<exists, failures>>

-----------------------------------------------------------------------------
(* CreateOrPatchEtcd: Get; NotFound creates transform(new object), any    *)
(* other Get error is returned; an existing object goes to PatchEtcd.     *)
(* Nothing is retried: a Create that lost a race returns AlreadyExists.   *)
CreateOrPatchGet(c) ==
  /\ hc[c].pc = "copGet"
  /\ \/ /\ ~exists
        /\ hc' = [hc EXCEPT ![c].pc = "copCreate"]
     \/ /\ exists
        /\ hc' = [hc EXCEPT ![c].pc = "copPatch", ![c].cur = obj]
     \/ /\ failures < MaxFailures
        /\ Done(c, "error", "unavailable")
  /\ UNCHANGED <<obj, exists, written, failures>>

CreateOrPatchCreate(c) ==
  /\ hc[c].pc = "copCreate"
  /\ \/ /\ exists
        /\ Done(c, "error", "alreadyexists")
        /\ UNCHANGED <<obj, exists, written>>
     \/ /\ ~exists
        /\ exists' = TRUE
        /\ obj' = Stored({Elem[c]}, {})
        /\ written' = {Elem[c]}
        /\ Done(c, "ok", "none")
  /\ UNCHANGED failures

\* (mutant) a two-way patch that sends the whole transformed map, as a
\* replace of a list field does.
PatchObjectReplace(c) ==
  /\ hc[c].pc = "copPatch"
  /\ \/ /\ Elem[c] \in hc[c].cur.spec
        /\ Done(c, "ok", "none")
        /\ UNCHANGED <<obj, written>>
     \/ /\ Elem[c] \notin hc[c].cur.spec /\ ~exists
        /\ Done(c, "error", "notfound")
        /\ UNCHANGED <<obj, written>>
     \/ /\ Elem[c] \notin hc[c].cur.spec /\ exists
        /\ obj' = Stored(hc[c].cur.spec \cup {Elem[c]}, obj.status)
        /\ written' = written \cup {Elem[c]}
        /\ Done(c, "ok", "none")
  /\ UNCHANGED <<exists, failures>>

(* PatchEtcdObject: the three-way JSON merge patch of cur and             *)
(* transform(cur) holds only the added key; an empty patch makes no call  *)
(* and returns cur.  The patch carries no resourceVersion: it is applied  *)
(* to whatever the object now is, and merges into its map.                *)
PatchObject(c) ==
  /\ hc[c].pc = "copPatch"
  /\ \/ /\ Elem[c] \in hc[c].cur.spec
        /\ Done(c, "ok", "none")
        /\ UNCHANGED <<obj, written>>
     \/ /\ Elem[c] \notin hc[c].cur.spec /\ ~exists
        /\ Done(c, "error", "notfound")
        /\ UNCHANGED <<obj, written>>
     \/ /\ Elem[c] \notin hc[c].cur.spec /\ exists
        /\ obj' = Stored(obj.spec \cup {Elem[c]}, obj.status)
        /\ written' = written \cup {Elem[c]}
        /\ Done(c, "ok", "none")
  /\ UNCHANGED <<exists, failures>>

-----------------------------------------------------------------------------
(* UpdateEtcdStatus: UpdateStatus(apply(cur)), where apply keeps cur's    *)
(* metadata and spec and sets the status to transform(in.Status).  A      *)
(* Conflict re-reads cur; any other error is tested with `err != nil`,    *)
(* err being the helper's still-nil result, so it always polls again.    *)
UpdateStatusCall(c) ==
  /\ hc[c].pc = "updateStatus"
  /\ \/ /\ exists /\ hc[c].cur.rv = obj.rv
        /\ obj' = Stored(obj.spec, hc[c].in.status \cup {Elem[c]})
        /\ Done(c, "ok", "none")
     \/ /\ exists /\ hc[c].cur.rv # obj.rv
        /\ hc' = [hc EXCEPT ![c].pc = "reread", ![c].nf = 0]
        /\ UNCHANGED obj
     \/ /\ ~exists
        /\ Repoll(c, "updateStatus", "notfound")
        /\ UNCHANGED obj
  /\ UNCHANGED <<exists, written, failures>>

\* After a Conflict: Get the latest; success polls again with it, NotFound
\* (not retryable) ends the loop with that error.
UpdateStatusReread(c) ==
  /\ hc[c].pc = "reread"
  /\ \/ /\ exists /\ hc[c].attempt < MaxAttempts
        /\ hc' = [hc EXCEPT ![c].pc = "updateStatus", ![c].cur = obj,
                             ![c].attempt = @ + 1, ![c].lastErr = "conflict",
                             ![c].nf = 0]
     \/ /\ exists /\ hc[c].attempt = MaxAttempts
        /\ Done(c, "timeout", "conflict")
     \/ /\ ~exists
        /\ Done(c, "error", "notfound")
  /\ UNCHANGED <<obj, exists, written, failures>>

\* A retryable error (unavailable, timeout, too many requests) from any of
\* the calls: the condition returns (false, nil) and the poll goes on; a
\* failed Update restarts TryUpdate from its Get, a failed re-read keeps
\* the old cur.
AfterRetryable == [get |-> "get", update |-> "get",
                   updateStatus |-> "updateStatus", reread |-> "updateStatus"]

RetryableError(c) ==
  /\ hc[c].pc \in DOMAIN AfterRetryable
  /\ failures < MaxFailures
  /\ failures' = failures + 1
  /\ Repoll(c, AfterRetryable[hc[c].pc], "unavailable")
  /\ UNCHANGED <<obj, exists, written>>

-----------------------------------------------------------------------------
(* Other clients: a spec change by read-modify-write, and a deletion.     *)
OtherUpdate(e) ==
  /\ exists /\ obj.rv < MaxVersion
  /\ e \notin obj.spec
  /\ obj' = Stored(obj.spec \cup {e}, obj.status)
  /\ written' = written \cup {e}
  /\ UNCHANGED <<exists, hc, failures>>

OtherDelete ==
  /\ exists
  /\ exists' = FALSE
  /\ written' = {}
  /\ UNCHANGED <<obj, hc, failures>>

\* Another client creates the object again (resourceVersions keep growing).
OtherCreate ==
  /\ ~exists /\ obj.rv < MaxVersion
  /\ exists' = TRUE
  /\ obj' = Stored({}, {})
  /\ UNCHANGED <<hc, written, failures>>

Obj0 == [rv |-> 1, spec |-> {}, status |-> {}]

\* Every caller starts from the object it was given (TryUpdate: its meta;
\* UpdateStatus: in, and cur := in.DeepCopy()).
Init ==
  /\ obj = Obj0
  /\ exists = TRUE
  /\ hc = [c \in Callers |->
             [pc |-> CASE Kind[c] = "tryUpdate"    -> "get"
                       [] Kind[c] = "updateStatus" -> "updateStatus"
                       [] OTHER                    -> "copGet",
              cur |-> Obj0, in |-> Obj0, attempt |-> 1,
              result |-> "none", lastErr |-> "none", nf |-> 0]]
  /\ written = {}
  /\ failures = 0

Caller(c) ==
  \/ TryUpdateGet(c)
  \/ TryUpdateUpdate(c)
  \/ UpdateStatusCall(c)
  \/ UpdateStatusReread(c)
  \/ RetryableError(c)
  \/ CreateOrPatchGet(c)
  \/ CreateOrPatchCreate(c)
  \/ PatchObject(c)

Next ==
  \/ \E c \in Callers : Caller(c)
  \/ \E e \in OtherElems : OtherUpdate(e)
  \/ OtherDelete
  \/ OtherCreate

Spec == Init /\ [][Next]_vars

-----------------------------------------------------------------------------
TypeOK ==
  /\ obj \in Object
  /\ exists \in BOOLEAN
  /\ written \subseteq Elems
  /\ failures \in 0..MaxFailures
  /\ \A c \in Callers :
       /\ hc[c].pc \in {"get", "update", "updateStatus", "reread",
                        "copGet", "copCreate", "copPatch", "done"}
       /\ hc[c].cur \in Object /\ hc[c].in \in Object
       /\ hc[c].attempt \in 1..MaxAttempts
       /\ hc[c].result \in {"none", "ok", "error", "timeout"}
       /\ hc[c].lastErr \in {"none", "conflict", "notfound", "unavailable",
                             "alreadyexists"}
       /\ hc[c].nf \in 0..MaxAttempts

\* No lost update: every spec key a write made durable in the object's
\* current incarnation (a TryUpdateEtcd transform, a CreateOrPatchEtcd
\* create or merge patch, another client's change) is still in the stored
\* spec, however the helpers' reads and writes interleave with the other
\* writers and the UpdateStatus calls.
NoLostSpecWrite == exists => written \subseteq obj.spec

\* A helper that meets NotFound stops: TryUpdateEtcd may poll once more
\* after a failed Update, but the Get of that poll answers NotFound too and
\* ends the poll with the error, so no helper has three NotFound answers
\* in a row; it never polls on until RetryTimeout on a deleted object.
NotFoundEnds(kind) ==
  \A c \in Callers : Kind[c] = kind => hc[c].nf <= 2

NotFoundEndsTryUpdate == NotFoundEnds("tryUpdate")

\* Spec section 7: an unrecoverable error is surfaced at once.  For
\* UpdateEtcdStatus the NotFound of a deleted object should end the poll,
\* but the test at line 116 reads err, not e2.
NotFoundEndsUpdateStatus == NotFoundEnds("updateStatus")

\* The abstract object is the stored one without its resourceVersion; a
\* call's result is ok, or failed for an error or a timeout.
AU == INSTANCE AtomicUpdate
        WITH obj <- [spec |-> obj.spec, status |-> obj.status],
             result <- [c \in Callers |->
                          IF hc[c].result \in {"none", "ok"} THEN hc[c].result
                          ELSE "failed"]

(* Spec section 5: every write is a read-modify-write with conflict retry. *)
(* Every step of the helpers is a step of AtomicUpdate: each TryUpdateEtcd, *)
(* CreateOrPatchEtcd and UpdateEtcdStatus call that succeeds has applied   *)
(* its transform to the object as it was when the write landed (the spec   *)
(* and status of other writers kept), and one that fails wrote nothing.    *)
(* UpdateEtcdStatus applies it to in.Status, not to the re-read status     *)
(* (etcd.go:95), so this holds only while no other client writes the      *)
(* status between the caller's read of in and its write.                  *)
UpdatesAtomic == AU!Spec

====
