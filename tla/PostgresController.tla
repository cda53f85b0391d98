------------------------- MODULE PostgresController -------------------------
(***************************************************************************)
(* The Postgres controller of pkg/controller against a model of the API   *)
(* server.  initWatcher (workqueue.go) wires an informer, whose cache may *)
(* lag the store, to a work queue drained by NumThreads workers that run  *)
(* runPostgres.  runPostgres either adds the kubedb finalizer and runs    *)
(* create (whose first step is deleteMatchingDormantDatabase), or, for a  *)
(* deleting object still carrying the finalizer, runs terminate (which   *)
(* archives it with createDormantDatabase) and then removes the          *)
(* finalizer.  The dormant-database controller then pauses the record:   *)
(* WaitUntilPaused awaits the dependents, which the garbage collector    *)
(* removes once their owner is gone.  Every API call is one step; between *)
(* two steps the informer, the collector, users and other controllers    *)
(* move.                                                                  *)
(***************************************************************************)
EXTENDS Naturals, Sequences, FiniteSets, SequencesExt

CONSTANTS
  Names,             \* keys namespace/name of Postgres objects
  Workers,           \* the c.NumThreads queue workers
  KubedbFinalizer,   \* api.GenericKey
  ForeignFinalizers, \* finalizers other controllers put on the object
  WaitOrder,         \* the classes WaitUntilPaused polls, in its order
  LeaderLock,        \* the leader-lock ConfigMap, deleted, not awaited
  MaxUid,            \* bound: incarnations (create, recreate) per name
  MaxNumRequeues,    \* c.MaxNumRequeues
  MaxFailures        \* bound: API errors, poll timeouts and operator restarts
                     \* per behaviour

ASSUME MaxUid \in Nat \ {0} /\ MaxNumRequeues \in Nat /\ MaxFailures \in Nat

Finalizers == {KubedbFinalizer} \cup ForeignFinalizers
DepClasses == ToSet(WaitOrder) \cup {LeaderLock}
Uids       == 1 .. MaxUid
\* A Postgres object: its uid, whether DeletionTimestamp is set, finalizers.
Obj        == [uid : Uids, deleting : BOOLEAN, fin : SUBSET Finalizers]
Absent     == [uid |-> 0, deleting |-> FALSE, fin |-> {}]
Exists(o)  == o.uid # 0
NoKey      == "none"
Idle       == [pc |-> "idle", key |-> NoKey, obj |-> Absent, ok |-> TRUE]
\* No WaitUntilPaused call in flight for a name.
NoPause    == [uid |-> 0, i |-> 1]

VARIABLES
  pg,          \* API server: Postgres object per name (or Absent)
  dormant,     \* API server: origin uid of the DormantDatabase per name, 0 = none
  deps,        \* API server: dependent classes that exist per name
  depOwner,    \* uid the dependents of a name are owned by
  cache,       \* informer indexer: the object runPostgres reads (GetByKey)
  pending,     \* watch events (object versions) not yet delivered to the cache
  queue,       \* workqueue: keys ready to be handed out, FIFO
  dirty,       \* workqueue: keys waiting to be processed
  processing,  \* workqueue: keys a worker holds
  requeues,    \* rate limiter: NumRequeues per key
  delayed,     \* rate limiter: keys waiting in AddAfter
  wk,          \* per worker: pc, key, object read from the cache, result
  pause,       \* per name: the WaitUntilPaused call in flight (record uid,
               \* index of the class it polls, Len(WaitOrder)+1 = lock delete)
  paused,      \* API server: the dormant record's phase is Paused
  nextUid,     \* uid the next created object gets
  provisioned, \* history: uids create() completed for
  archived,    \* history: uids terminate archived into a dormant record
  foreignAdded,\* history: <<uid, finalizer>> another controller added
  failures     \* API errors, timeouts and restarts so far

store  == <<pg, dormant, deps, depOwner, nextUid, foreignAdded, paused>>
qvars  == <<queue, dirty, processing, requeues, delayed>>
vars   == <<pg, dormant, deps, depOwner, cache, pending, queue, dirty,
           processing, requeues, delayed, wk, nextUid, provisioned, failures,
           foreignAdded, pause, paused, archived>>

-----------------------------------------------------------------------------
(* API server.  An object with DeletionTimestamp and no finalizer is      *)
(* removed; every change of an object is a watch event, a write that      *)
(* leaves it as it was is none.                                           *)
Settle(o) == IF o.deleting /\ o.fin = {} THEN Absent ELSE o

Write(n, o) ==
  /\ pg' = [pg EXCEPT ![n] = Settle(o)]
  /\ pending' = IF Settle(o) = pg[n] THEN pending
                ELSE [pending EXCEPT ![n] = Append(@, Settle(o))]

\* A merge patch of metadata.finalizers is refused when the object is gone
\* (NotFound) or when it is being deleted and the patch names a finalizer
\* the object does not have ("no new finalizers can be added if the object
\* is being deleted").
PatchRejected(n, fin) ==
  \/ ~Exists(pg[n])
  \/ pg[n].deleting /\ ~(fin \subseteq pg[n].fin)

\* (mutant) Add queues a key even while a worker holds it.
EnqueueWhileProcessing(k) ==
  IF k \in dirty THEN UNCHANGED <<queue, dirty>>
  ELSE /\ dirty' = dirty \cup {k}
       /\ queue' = Append(queue, k)

(* workqueue.Add: a key already dirty is not added twice; a key a worker  *)
(* holds is only marked dirty and is queued again by Done.                *)
Enqueue(k) ==
  IF k \in dirty THEN UNCHANGED <<queue, dirty>>
  ELSE /\ dirty' = dirty \cup {k}
       /\ queue' = IF k \in processing THEN queue ELSE Append(queue, k)

-----------------------------------------------------------------------------
(* Worker.  WorkerGet is queue.Get followed by the GetByKey read and the  *)
(* branch of runPostgres.                                                 *)
\* (mutant) an object that already carries the finalizer is taken as reconciled.
RunPostgresEntrySkipFinalized(o) ==
  CASE ~Exists(o)                              -> "finish"
    [] o.deleting /\ KubedbFinalizer \in o.fin -> "terminate"
    [] o.deleting                              -> "finish"
    [] KubedbFinalizer \in o.fin               -> "finish"
    [] OTHER                                   -> "addFin"

RunPostgresEntry(o) ==
  CASE ~Exists(o)                              -> "finish"
    [] o.deleting /\ KubedbFinalizer \in o.fin -> "terminate"
    [] o.deleting                              -> "finish"
    [] OTHER                                   -> "addFin"

WorkerGet(w) ==
  /\ wk[w].pc = "idle"
  /\ queue # <<>>
  /\ LET k == Head(queue) IN
       /\ queue' = Tail(queue)
       /\ processing' = processing \cup {k}
       /\ dirty' = dirty \ {k}
       /\ wk' = [wk EXCEPT ![w] = [Idle EXCEPT !.pc = RunPostgresEntry(cache[k]),
                                               !.key = k, !.obj = cache[k]]]
  /\ UNCHANGED <<store, cache, pending, requeues, delayed, provisioned, failures, pause, archived>>

Goto(w, pc)  == wk' = [wk EXCEPT ![w].pc = pc]
Fail(w)      == wk' = [wk EXCEPT ![w].pc = "finish", ![w].ok = FALSE]

(* PatchPostgres(cur, transform): the patch is the difference between the *)
(* object read from the cache and its transform; an empty patch makes no  *)
(* call and returns cur, otherwise the finalizer list of whatever object  *)
(* now has the name is replaced by the transformed list.                  *)
PatchFinalizers(w, fin, next) ==
  LET k == wk[w].key IN
  \/ /\ fin = wk[w].obj.fin
     /\ Goto(w, next)
     /\ UNCHANGED <<pg, pending>>
  \/ /\ fin # wk[w].obj.fin
     /\ ~PatchRejected(k, fin)
     /\ Write(k, [pg[k] EXCEPT !.fin = fin])
     /\ wk' = [wk EXCEPT ![w].pc = next, ![w].obj = Settle([pg[k] EXCEPT !.fin = fin])]
  \/ /\ fin # wk[w].obj.fin
     /\ PatchRejected(k, fin)
     /\ Fail(w)
     /\ UNCHANGED <<pg, pending>>

\* (mutant) the error of the finalizer patch is not returned.
AddFinalizerIgnoreError(w) ==
  /\ wk[w].pc = "addFin"
  /\ LET fin == wk[w].obj.fin \cup {KubedbFinalizer} IN
       IF fin # wk[w].obj.fin /\ PatchRejected(wk[w].key, fin)
       THEN Goto(w, "dmGet") /\ UNCHANGED <<pg, pending>>
       ELSE PatchFinalizers(w, fin, "dmGet")
  /\ UNCHANGED <<dormant, deps, depOwner, nextUid, foreignAdded, paused, cache, qvars, provisioned, failures, pause, archived>>

\* runPostgres, no DeletionTimestamp: add the finalizer, then create.
AddFinalizer(w) ==
  /\ wk[w].pc = "addFin"
  /\ PatchFinalizers(w, wk[w].obj.fin \cup {KubedbFinalizer}, "dmGet")
  /\ UNCHANGED <<dormant, deps, depOwner, nextUid, foreignAdded, paused, cache, qvars, provisioned, failures, pause, archived>>

\* (mutant) the found DormantDatabase is not deleted.
DeleteMatchingGetIgnoreFound(w) ==
  /\ wk[w].pc = "dmGet"
  /\ Goto(w, "ensure")
  /\ UNCHANGED <<store, cache, pending, qvars, provisioned, failures, pause, archived>>

\* deleteMatchingDormantDatabase: Get; NotFound means nothing to delete.
DeleteMatchingGet(w) ==
  /\ wk[w].pc = "dmGet"
  /\ Goto(w, IF dormant[wk[w].key] = 0 THEN "ensure" ELSE "dmPatch")
  /\ UNCHANGED <<store, cache, pending, qvars, provisioned, failures, pause, archived>>

\* deleteMatchingDormantDatabase: patch WipeOut to false; a NotFound from
\* the patch is returned as an error.
DeleteMatchingPatch(w) ==
  /\ wk[w].pc = "dmPatch"
  /\ IF dormant[wk[w].key] = 0 THEN Fail(w) ELSE Goto(w, "dmDelete")
  /\ UNCHANGED <<store, cache, pending, qvars, provisioned, failures, pause, archived>>

\* deleteMatchingDormantDatabase: Delete, NotFound ignored.
DeleteMatchingDelete(w) ==
  /\ wk[w].pc = "dmDelete"
  /\ dormant' = [dormant EXCEPT ![wk[w].key] = 0]
  /\ paused' = [paused EXCEPT ![wk[w].key] = FALSE]
  /\ Goto(w, "ensure")
  /\ UNCHANGED <<pg, deps, depOwner, nextUid, foreignAdded, cache, pending, qvars, provisioned, failures, pause, archived>>

\* The rest of create: the dependents are ensured, owned by the object the
\* patch returned.
Ensure(w) ==
  /\ wk[w].pc = "ensure"
  /\ deps' = [deps EXCEPT ![wk[w].key] = DepClasses]
  /\ depOwner' = [depOwner EXCEPT ![wk[w].key] = wk[w].obj.uid]
  /\ provisioned' = provisioned \cup {wk[w].obj.uid}
  /\ Goto(w, "finish")
  /\ UNCHANGED <<pg, dormant, nextUid, foreignAdded, paused, cache, pending, qvars, failures, pause, archived>>

-----------------------------------------------------------------------------
(* Termination path of runPostgres.  terminate is not in the repository; *)
(* as spec section 3 has it, a DormantDatabase left with the name is      *)
(* deleted first, then createDormantDatabase archives the object, and    *)
(* only then is the finalizer removed.  The dependents are not awaited   *)
(* here: WaitUntilPaused takes the DormantDatabase and is called by the  *)
(* dormant-database controller (below).                                   *)

\* (mutant) an existing DormantDatabase is taken as this object's archive.
TerminateReuseExisting(w) ==
  /\ wk[w].pc = "terminate"
  /\ Goto(w, IF dormant[wk[w].key] = 0 THEN "archive" ELSE "removeFin")
  /\ UNCHANGED <<store, cache, pending, qvars, provisioned, failures, pause, archived>>

\* (mutant) the existing DormantDatabase is not deleted first.
TerminateNoDelete(w) ==
  /\ wk[w].pc = "terminate"
  /\ Goto(w, "archive")
  /\ UNCHANGED <<store, cache, pending, qvars, provisioned, failures, pause, archived>>

\* terminate: delete a DormantDatabase of the name, NotFound ignored.
TerminateDeleteExisting(w) ==
  /\ wk[w].pc = "terminate"
  /\ dormant' = [dormant EXCEPT ![wk[w].key] = 0]
  /\ paused' = [paused EXCEPT ![wk[w].key] = FALSE]
  /\ Goto(w, "archive")
  /\ UNCHANGED <<pg, deps, depOwner, nextUid, foreignAdded, cache, pending, qvars, provisioned, failures, pause, archived>>

\* createDormantDatabase: Create of a record with the object's origin;
\* an AlreadyExists is returned as an error.
Archive(w) ==
  LET k == wk[w].key IN
  /\ wk[w].pc = "archive"
  /\ IF dormant[k] = 0
     THEN /\ dormant' = [dormant EXCEPT ![k] = wk[w].obj.uid]
          /\ paused' = [paused EXCEPT ![k] = FALSE]
          /\ archived' = archived \cup {wk[w].obj.uid}
          /\ Goto(w, "removeFin")
     ELSE /\ Fail(w) /\ UNCHANGED <<dormant, paused, archived>>
  /\ UNCHANGED <<pg, deps, depOwner, nextUid, foreignAdded, cache, pending, qvars, provisioned, failures, pause>>

\* runPostgres, after terminate succeeded: remove the finalizer.
RemoveFinalizer(w) ==
  /\ wk[w].pc = "removeFin"
  /\ PatchFinalizers(w, wk[w].obj.fin \ {KubedbFinalizer}, "finish")
  /\ UNCHANGED <<dormant, deps, depOwner, nextUid, foreignAdded, paused, cache, qvars, provisioned, failures, pause, archived>>

\* Any API call of the handler fails with a transient error: return err.
ApiCallPcs == {"dmGet", "dmPatch", "dmDelete", "ensure", "terminate",
               "archive", "removeFin"}
ApiError(w) ==
  /\ \/ wk[w].pc \in ApiCallPcs
     \/ wk[w].pc = "addFin" /\ KubedbFinalizer \notin wk[w].obj.fin
  /\ failures < MaxFailures
  /\ failures' = failures + 1
  /\ Fail(w)
  /\ UNCHANGED <<store, cache, pending, qvars, provisioned, pause, archived>>

\* (mutant) a failed key is requeued without bound, never forgotten.
FinishNoRetryCap(w) ==
  LET k == wk[w].key IN
     /\ wk[w].pc = "finish"
     /\ requeues' = [requeues EXCEPT ![k] = IF wk[w].ok THEN 0 ELSE @ + 1]
     /\ delayed' = IF ~wk[w].ok THEN delayed \cup {k} ELSE delayed
     /\ processing' = processing \ {k}
     /\ queue' = IF k \in dirty THEN Append(queue, k) ELSE queue
     /\ wk' = [wk EXCEPT ![w] = Idle]
     /\ UNCHANGED <<store, cache, pending, dirty, provisioned, failures, pause, archived>>

\* (mutant) Done does not queue again a key that became dirty meanwhile.
FinishNoRequeue(w) ==
  LET k     == wk[w].key
      retry == ~wk[w].ok /\ requeues[k] < MaxNumRequeues
  IN /\ wk[w].pc = "finish"
     /\ requeues' = [requeues EXCEPT ![k] = IF retry THEN @ + 1 ELSE 0]
     /\ delayed' = IF retry THEN delayed \cup {k} ELSE delayed
     /\ processing' = processing \ {k}
     /\ wk' = [wk EXCEPT ![w] = Idle]
     /\ UNCHANGED <<store, cache, pending, queue, dirty, provisioned, failures, pause, archived>>

(* The queue worker after the handler returned: Forget on success, on an  *)
(* error AddRateLimited while NumRequeues < maxRetries and Forget after,  *)
(* then Done, which queues the key again if it became dirty meanwhile.   *)
Finish(w) ==
  LET k     == wk[w].key
      retry == ~wk[w].ok /\ requeues[k] < MaxNumRequeues
  IN /\ wk[w].pc = "finish"
     /\ requeues' = [requeues EXCEPT ![k] = IF retry THEN @ + 1 ELSE 0]
     /\ delayed' = IF retry THEN delayed \cup {k} ELSE delayed
     /\ processing' = processing \ {k}
     /\ queue' = IF k \in dirty THEN Append(queue, k) ELSE queue
     /\ wk' = [wk EXCEPT ![w] = Idle]
     /\ UNCHANGED <<store, cache, pending, dirty, provisioned, failures, pause, archived>>

Worker(w) ==
  \/ WorkerGet(w)
  \/ AddFinalizer(w)
  \/ DeleteMatchingGet(w)
  \/ DeleteMatchingPatch(w)
  \/ DeleteMatchingDelete(w)
  \/ Ensure(w)
  \/ TerminateDeleteExisting(w)
  \/ Archive(w)
  \/ RemoveFinalizer(w)
  \/ ApiError(w)
  \/ Finish(w)

-----------------------------------------------------------------------------
(* Environment.                                                           *)

\* The informer delivers the oldest undelivered version to the indexer and
\* its event handler adds the key to the queue.
Sync(n) ==
  /\ pending[n] # <<>>
  /\ cache' = [cache EXCEPT ![n] = Head(pending[n])]
  /\ pending' = [pending EXCEPT ![n] = Tail(@)]
  /\ Enqueue(n)
  /\ UNCHANGED <<store, processing, requeues, delayed, wk, provisioned, failures, pause, archived>>

\* The AddAfter delay of a rate-limited key expires.
RetryFire(n) ==
  /\ n \in delayed
  /\ delayed' = delayed \ {n}
  /\ Enqueue(n)
  /\ UNCHANGED <<store, cache, pending, processing, requeues, wk, provisioned, failures, pause, archived>>

\* The informer's periodic resync delivers the cached object again; the
\* update handler queues it when it is being deleted or not yet reconciled.
\* Only its effect on a key the queue has let go of is modelled: on a
\* dirty key it does nothing, elsewhere it only adds a run.
Resync(n) ==
  /\ Exists(cache[n])
  /\ cache[n].deleting \/ cache[n].uid \notin provisioned
  /\ n \notin dirty \cup processing \cup delayed
  /\ Enqueue(n)
  /\ UNCHANGED <<store, cache, pending, processing, requeues, delayed, wk, provisioned, failures, pause, archived>>

\* The cluster's garbage collector removes a dependent whose owner is gone
\* (background deletion: while the kubedb finalizer holds the owner, its
\* dependents stay).  The leader lock has no owner reference.
GarbageCollect(n, c) ==
  /\ c \in deps[n] \ {LeaderLock}
  /\ pg[n].uid # depOwner[n]
  /\ deps' = [deps EXCEPT ![n] = @ \ {c}]
  /\ UNCHANGED <<pg, dormant, depOwner, nextUid, foreignAdded, paused, cache, pending, qvars, wk, provisioned, failures, pause, archived>>

(* The dormant-database controller pauses a record that is not Paused:   *)
(* it calls WaitUntilPaused with it and, when that returns nil, sets the  *)
(* record's phase to Paused; an error is retried by a later call.         *)
PauseStart(n) ==
  /\ dormant[n] # 0 /\ ~paused[n] /\ pause[n].uid = 0
  /\ pause' = [pause EXCEPT ![n] = [uid |-> dormant[n], i |-> 1]]
  /\ UNCHANGED <<store, cache, pending, qvars, wk, provisioned, failures, archived>>

Polling(n) == pause[n].uid # 0 /\ pause[n].i <= Len(WaitOrder)

\* (mutant) the wait loop stops before the last class.
WaitAbsentSkipLast(n) ==
  /\ Polling(n)
  /\ WaitOrder[pause[n].i] \notin deps[n]
  /\ pause' = [pause EXCEPT ![n].i = IF @ = Len(WaitOrder) - 1 THEN @ + 2 ELSE @ + 1]
  /\ UNCHANGED <<store, cache, pending, qvars, wk, provisioned, failures, archived>>

\* (mutant) the leader lock is awaited along with the last class.
WaitAbsentAwaitLock(n) ==
  /\ Polling(n)
  /\ WaitOrder[pause[n].i] \notin deps[n]
  /\ pause[n].i = Len(WaitOrder) => LeaderLock \notin deps[n]
  /\ pause' = [pause EXCEPT ![n].i = @ + 1]
  /\ UNCHANGED <<store, cache, pending, qvars, wk, provisioned, failures, archived>>

\* WaitUntilPaused: one poll of WaitUntil...Deleted (by the selector or the
\* name the record's name gives) finds the class gone; the next is polled.
WaitAbsent(n) ==
  /\ Polling(n)
  /\ WaitOrder[pause[n].i] \notin deps[n]
  /\ pause' = [pause EXCEPT ![n].i = @ + 1]
  /\ UNCHANGED <<store, cache, pending, qvars, wk, provisioned, failures, archived>>

\* The poll's timeout expires while the class still exists: the error is
\* returned and the record stays unpaused.
WaitTimeout(n) ==
  /\ Polling(n)
  /\ WaitOrder[pause[n].i] \in deps[n]
  /\ pause' = [pause EXCEPT ![n] = NoPause]
  /\ UNCHANGED <<store, cache, pending, qvars, wk, provisioned, failures, archived>>

(* WaitUntilPaused: deleteLeaderLockConfigMap after the waits; it returns *)
(* nil and the controller sets Paused on the record it was given, if that *)
(* record still exists.  The lock is deleted by name, whatever object now *)
(* has the name.                                                          *)
DeleteLeaderLock(n) ==
  /\ pause[n].uid # 0 /\ pause[n].i = Len(WaitOrder) + 1
  /\ deps' = [deps EXCEPT ![n] = @ \ {LeaderLock}]
  /\ paused' = [paused EXCEPT ![n] = @ \/ dormant[n] = pause[n].uid]
  /\ pause' = [pause EXCEPT ![n] = NoPause]
  /\ UNCHANGED <<pg, dormant, depOwner, nextUid, foreignAdded, cache, pending, qvars, wk, provisioned, failures, archived>>

\* A user deletes a Paused DormantDatabase (or the dormant controller
\* purges it after a wipe).  Deleting a record still being paused only
\* ends that pause early, and is left out.
DormantDeleted(n) ==
  /\ dormant[n] # 0 /\ paused[n]
  /\ dormant' = [dormant EXCEPT ![n] = 0]
  /\ paused' = [paused EXCEPT ![n] = FALSE]
  /\ UNCHANGED <<pg, deps, depOwner, nextUid, foreignAdded, cache, pending, qvars, wk, provisioned, failures, pause, archived>>

UserCreate(n) ==
  /\ ~Exists(pg[n])
  /\ nextUid <= MaxUid
  /\ Write(n, [uid |-> nextUid, deleting |-> FALSE, fin |-> {}])
  /\ nextUid' = nextUid + 1
  /\ UNCHANGED <<dormant, deps, depOwner, foreignAdded, paused, cache, qvars, wk, provisioned, failures, pause, archived>>

UserDelete(n) ==
  /\ Exists(pg[n]) /\ ~pg[n].deleting
  /\ Write(n, [pg[n] EXCEPT !.deleting = TRUE])
  /\ UNCHANGED <<dormant, deps, depOwner, nextUid, foreignAdded, paused, cache, qvars, wk, provisioned, failures, pause, archived>>

\* Another controller adds its finalizer to a live object, once per object,
\* and removes it once the object is being deleted; both by a fresh
\* read-modify-write.
ForeignAdd(n, f) ==
  /\ Exists(pg[n]) /\ ~pg[n].deleting /\ f \notin pg[n].fin
  /\ <<pg[n].uid, f>> \notin foreignAdded
  /\ Write(n, [pg[n] EXCEPT !.fin = @ \cup {f}])
  /\ foreignAdded' = foreignAdded \cup {<<pg[n].uid, f>>}
  /\ UNCHANGED <<dormant, deps, depOwner, nextUid, paused, cache, qvars, wk, provisioned, failures, pause, archived>>

ForeignRemove(n, f) ==
  /\ Exists(pg[n]) /\ pg[n].deleting /\ f \in pg[n].fin
  /\ Write(n, [pg[n] EXCEPT !.fin = @ \ {f}])
  /\ UNCHANGED <<dormant, deps, depOwner, nextUid, foreignAdded, paused, cache, qvars, wk, provisioned, failures, pause, archived>>

(* The operator process restarts (spec section 7: crash and restart).    *)
(* Runs in flight are abandoned after whatever API calls they made; the   *)
(* work queue and rate limiter start empty; initWatcher's informer lists  *)
(* the store into a fresh cache and its handler adds every listed key.   *)
Restart ==
  LET listed == {n \in Names : Exists(pg[n])} IN
  /\ failures < MaxFailures
  /\ failures' = failures + 1
  /\ cache' = pg
  /\ pending' = [n \in Names |-> <<>>]
  /\ \E q \in SetToSeqs(listed) : queue' = q
  /\ dirty' = listed
  /\ processing' = {} /\ delayed' = {}
  /\ requeues' = [n \in Names |-> 0]
  /\ wk' = [w \in Workers |-> Idle]
  /\ pause' = [n \in Names |-> NoPause]
  /\ UNCHANGED <<store, provisioned, archived>>

-----------------------------------------------------------------------------
Init ==
  /\ pg = [n \in Names |-> Absent]
  /\ dormant = [n \in Names |-> 0]
  /\ deps = [n \in Names |-> {}]
  /\ depOwner = [n \in Names |-> 0]
  /\ cache = [n \in Names |-> Absent]
  /\ pending = [n \in Names |-> <<>>]
  /\ queue = <<>>
  /\ dirty = {}
  /\ processing = {}
  /\ requeues = [n \in Names |-> 0]
  /\ delayed = {}
  /\ wk = [w \in Workers |-> Idle]
  /\ nextUid = 1
  /\ provisioned = {}
  /\ failures = 0
  /\ foreignAdded = {}
  /\ pause = [n \in Names |-> NoPause]
  /\ paused = [n \in Names |-> FALSE]
  /\ archived = {}

Next ==
  \/ \E w \in Workers : Worker(w)
  \/ \E n \in Names : Sync(n) \/ Resync(n) \/ RetryFire(n)
  \/ \E n \in Names : UserCreate(n) \/ UserDelete(n) \/ DormantDeleted(n)
  \/ \E n \in Names : PauseStart(n) \/ WaitAbsent(n) \/ WaitTimeout(n) \/ DeleteLeaderLock(n)
  \/ \E n \in Names, c \in DepClasses : GarbageCollect(n, c)
  \/ \E n \in Names, f \in ForeignFinalizers : ForeignAdd(n, f) \/ ForeignRemove(n, f)
  \/ Restart

\* Workers, the informer (with its resync), the rate limiter, the dormant
\* controller's pause, the garbage collector and the other controller keep
\* running; users need not act, and a timeout is never forced.
Fairness ==
  /\ \A w \in Workers : WF_vars(Worker(w))
  /\ \A n \in Names : WF_vars(PauseStart(n)) /\ WF_vars(WaitAbsent(n)) /\ WF_vars(DeleteLeaderLock(n))
  /\ \A n \in Names : WF_vars(Sync(n)) /\ WF_vars(Resync(n)) /\ WF_vars(RetryFire(n))
  /\ \A n \in Names, c \in DepClasses : WF_vars(GarbageCollect(n, c))
  /\ \A n \in Names, f \in ForeignFinalizers : WF_vars(ForeignRemove(n, f))

Spec     == Init /\ [][Next]_vars
FairSpec == Spec /\ Fairness

-----------------------------------------------------------------------------
(* Properties.                                                            *)

TypeOK ==
  /\ pg \in [Names -> Obj \cup {Absent}]
  /\ cache \in [Names -> Obj \cup {Absent}]
  /\ pending \in [Names -> Seq(Obj \cup {Absent})]
  /\ dormant \in [Names -> 0 .. MaxUid]
  /\ deps \in [Names -> SUBSET DepClasses]
  /\ depOwner \in [Names -> 0 .. MaxUid]
  /\ ToSet(queue) \subseteq Names /\ dirty \subseteq Names
  /\ processing \subseteq Names /\ delayed \subseteq Names
  /\ requeues \in [Names -> 0 .. MaxNumRequeues]
  /\ \A w \in Workers : wk[w].key \in Names \cup {NoKey}
  /\ provisioned \subseteq Uids
  /\ foreignAdded \subseteq Uids \X ForeignFinalizers
  /\ failures \in 0 .. MaxFailures
  /\ pause \in [Names -> [uid : 0 .. MaxUid, i : 1 .. Len(WaitOrder) + 1]]
  /\ paused \in [Names -> BOOLEAN]
  /\ archived \subseteq Uids

(* Refinement of the Event Dispatcher contract (KeyQueue): a key needs a   *)
(* run while it is in the work queue's dirty set, and a worker runs it    *)
(* from queue.Get until its Done.                                         *)
Running == [w \in Workers |-> IF wk[w].pc = "idle" THEN NoKey ELSE wk[w].key]

KQ == INSTANCE KeyQueue WITH Keys <- Names, pendingRun <- dirty, running <- Running

(* The work queue (Add, Get, Done with its dirty and processing sets)     *)
(* behaves as the dispatcher of spec section 4.1: runPostgres starts for  *)
(* a key only when a notification is pending for it and no other worker  *)
(* runs it, so the provisioning and termination paths of one object      *)
(* never run concurrently, and a notification arriving during a run is   *)
(* coalesced into one later run.                                          *)
KeyQueueSafety == KQ!SafetySpec

(* ... and no pending notification is forgotten: a key marked dirty while *)
(* its run was in flight is queued again by Done and eventually run.      *)
ImplementsKeyQueue == KQ!Spec

(* The kubedb finalizer leaves an object (removed, or the object purged)  *)
(* only after that object (its uid) was archived into a DormantDatabase:  *)
(* runPostgres removes it only after terminate succeeded, a failed        *)
(* termination leaves it for the retry, and the patch, computed from the  *)
(* informer's copy, never strips it from a later object of the name.      *)
FinalizerRemovedOnlyAfterArchive ==
  [][\A n \in Names :
       (/\ KubedbFinalizer \in pg[n].fin
        /\ (pg'[n].uid # pg[n].uid \/ KubedbFinalizer \notin pg'[n].fin))
       => pg[n].uid \in archived']_vars

(* A DormantDatabase becomes Paused only in a step after which no         *)
(* dependent of the name is left: WaitUntilPaused polls the classes in    *)
(* order, each only once, and deletes the leader lock last, while the     *)
(* collector removes the dependents in any order once their owner is     *)
(* gone and a new object of the name may create them again.              *)
PausedOnlyAfterCleanup ==
  [][\A n \in Names : ~paused[n] /\ paused'[n] => deps'[n] = {}]_vars

(* A DormantDatabase is never left beside a live object of the same name  *)
(* that create() has provisioned: deleteMatchingDormantDatabase removes   *)
(* it first, and no later termination archives a name whose current      *)
(* object is live, even when the informer cache is stale.                 *)
NoDormantBesideLiveInstance ==
  \A n \in Names :
    Exists(pg[n]) /\ ~pg[n].deleting /\ pg[n].uid \in provisioned => dormant[n] = 0

(* Spec section 4.2: provisioning is never attempted without the marker.  *)
(* create() completes for an object only while that object is in the     *)
(* store carrying the kubedb finalizer, so an external delete during      *)
(* creation cannot purge it unseen; this rests on runPostgres returning   *)
(* the error of the AddFinalizer patch before create (workqueue.go:65),    *)
(* and on the patch result, not the cached copy, being what create uses.  *)
ProvisionOnlyUnderFinalizer ==
  [][\A u \in Uids :
       u \notin provisioned /\ u \in provisioned' =>
         \E n \in Names : pg[n].uid = u /\ KubedbFinalizer \in pg[n].fin]_vars

(* Every object whose deletion was requested is eventually removed from   *)
(* the store: retries of a failed termination reach it again (requeue,    *)
(* finalizer kept) until it completes.                                    *)
DeletionCompletes ==
  \A n \in Names, u \in Uids :
    (pg[n].uid = u /\ pg[n].deleting) ~> (pg[n].uid # u)

(* Every created object is eventually provisioned by create(), unless its *)
(* deletion is requested first.                                           *)
CreationCompletes ==
  \A n \in Names, u \in Uids :
    (pg[n].uid = u /\ ~pg[n].deleting) ~> (u \in provisioned \/ pg[n].uid # u \/ pg[n].deleting)

(* Every DormantDatabase is eventually Paused, unless it is deleted      *)
(* first: the object goes once archived, the collector then removes its   *)
(* dependents, and the dormant controller's retried WaitUntilPaused gets  *)
(* past every poll and deletes the leader lock.                           *)
DormantPaused ==
  \A n \in Names, u \in Uids :
    (dormant[n] = u) ~> (paused[n] \/ dormant[n] # u)

(* A finalizer of another controller is only taken off the object by that *)
(* controller: runPostgres's patches replace metadata.finalizers with a   *)
(* list computed from the informer's copy.                                *)
ForeignFinalizerKept ==
  [][\A n \in Names, f \in ForeignFinalizers :
       (f \in pg[n].fin /\ ~(pg'[n].uid = pg[n].uid /\ f \in pg'[n].fin))
       => ForeignRemove(n, f)]_vars

====
