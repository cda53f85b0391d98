# TLA+ models of the KubeDB Postgres controller

This directory holds TLA+ specifications of the reconciliation and cleanup
core of this repository (`src/pkg/controller`) and of the generated
conflict-retrying write helpers it relies on
(`src/vendor/kubedb.dev/apimachinery/.../util`), with TLC configurations that
check them. `PROJECT.json` lists the components, the runs, the mutants, the
map from every TLA+ definition to the source lines it models, the findings
and the hazards.

## 1. The system (inventory)

| Part | Source | State | Operations |
|---|---|---|---|
| Event dispatcher / work queue | `workqueue.go` `initWatcher` | informer indexer (lags the API server), workqueue (queue, dirty set, processing set), rate limiter (NumRequeues per key, delayed keys) | watch event → indexer + `Add`; worker `Get` … `Done`; `Forget` / `AddRateLimited` while `NumRequeues < MaxNumRequeues` |
| Finalizer state machine | `workqueue.go` `runPostgres` | the object's `DeletionTimestamp` and `finalizers` | absent → nothing; deleting + kubedb finalizer → `terminate`, then `RemoveFinalizer` patch; deleting without → nothing; live → `AddFinalizer` patch, then `create` |
| Dependent cleanup | `dormant_database.go` `WaitUntilPaused`, `waitUntilRBACStuffDeleted` (called by the dormant-database controller on a DormantDatabase) | pods, services, role, role binding, service account, snapshot service account, leader-lock ConfigMap; the record's Paused phase | poll until absent (with timeout) in that order, then delete the leader lock; the record is then set Paused |
| Dormant archiver | `dormant_database.go` `createDormantDatabase`, `deleteMatchingDormantDatabase` | the DormantDatabase of a name | create (the termination's archive); Get, patch `WipeOut=false`, Delete (run first by `create`) |
| Secret usage resolver | `dormant_database.go` `WipeOutDatabase`, `wipeOutDatabase`, `secretsUsedByPeers`; `GetSecrets` | secrets, their managed-by label, owner references | list peers from the lister (cache) and dormant records from the API, subtract, keep only managed secrets, owner-reference them to the dormant record |
| Update helpers | `util/etcd.go`, `util/memcached.go` | the object, its resourceVersion, spec and status | `TryUpdate…` (Get, Update, poll), `Update…Status` (UpdateStatus, re-read on Conflict, poll), `CreateOrPatch…`, `Patch…Object` (three-way JSON merge patch, no resourceVersion) |
| Typed clients, fakes, API types, e2e framework | `mysql.go`, `kubedb_client.go`, `fake_memcached.go`, `snapshot.go`, `perconaxtradb_helpers.go`, `backup_blueprint_types.go`, `test/e2e/framework` | none of their own | one REST request per method; naming and defaulting; test polling |

How they interact: API server change → informer (in order, possibly late) →
work queue (per-key, deduplicated, retried) → `runPostgres` on one worker →
patches of the Postgres object and DormantDatabase calls against the API
server. The dormant-database controller then pauses each new record: it
calls `WaitUntilPaused`, which waits for the dependents, and the garbage
collector removes those once their owner is gone. Meanwhile users create and
delete objects and dormant records, and other controllers add and remove
their own finalizers.

What makes it hard (the hazards in `PROJECT.json`): several workers; a cache
that lags the store, so a handler acts on an old copy; merge patches without
a resourceVersion; termination that can fail after any step and must be
redone; a retry budget that a stale cache can use up; a name deleted and
recreated while an old run is in flight; helpers that must tell a conflict
from a deletion.

## 2. Modules

### `PostgresController.tla` (work queue, finalizer state machine, cleanup, archiver)

State: `pg` (the API server's Postgres object per name: uid,
deleting, finalizer set), `dormant` (origin uid of the DormantDatabase, 0 for
none), `deps` / `depOwner` (dependent classes that exist and the uid owning
them), `cache` and `pending` (the informer indexer and the watch events not
yet delivered), `queue`, `dirty`, `processing`, `requeues`, `delayed` (the
workqueue and rate limiter), `wk` (each worker's position in `runPostgres`:
a pc, the key, the object it read, success flag), `pause` (the
`WaitUntilPaused` call in flight per name: the record's uid and the class it
polls), `paused` (the record's Paused phase), and the histories
`provisioned` and `archived` (uids `create` completed for, and uids
`terminate` archived).

Each API call of the handler is one action, so every other actor may move
between two calls: `WorkerGet` (queue.Get, `GetByKey`, the branch),
`AddFinalizer`, `DeleteMatchingGet/Patch/Delete`, `Ensure` (the rest of
`create`), `TerminateDeleteExisting` and `Archive` (`terminate`: a
DormantDatabase left with the name is deleted, as spec section 3 has it,
then `createDormantDatabase` creates the record, and an AlreadyExists is an
error), `RemoveFinalizer`, `ApiError` (a transient failure of any call),
`Finish` (Forget / AddRateLimited / Done). `terminate` is not in the
repository, and `WaitUntilPaused` takes a DormantDatabase: its comment says
it is an interface of the dormant-database controller. So the waits are not
part of `runPostgres`. `PauseStart` (that controller calls `WaitUntilPaused`
for a record not yet Paused), `WaitAbsent` / `WaitTimeout` (one poll of
each class in its order, which finds the class gone or times out; the error
ends the call and a later call starts again), and `DeleteLeaderLock` (the
lock is deleted by name; the record the call was given is set Paused if it
still exists). The environment: `Sync` (watch delivery), `Resync`,
`RetryFire`, `GarbageCollect` (background deletion: a dependent goes once
its owner is gone, not while the kubedb finalizer holds the owner),
`UserCreate`, `UserDelete`, `DormantDeleted` (a Paused record is deleted),
`ForeignAdd`, `ForeignRemove`, and `Restart` (the operator process restarts:
runs and pauses in flight are abandoned after the API calls they made, the
queue and rate limiter start empty, and `initWatcher`'s informer lists the
store into a fresh cache and queues every listed key).

The patch helpers are modelled by what the JSON merge patch does: the patch
is the difference between the cached copy and its transform, an empty patch
makes no call, and a non-empty one replaces the finalizer list of whatever
object now has the name. The API server refuses it when the object is gone,
or when the object is being deleted and the patch names a finalizer the
object does not have.

### `KeyQueue.tla` (abstract dispatcher) and the refinement

`KeyQueue` is the contract of the Event Dispatcher in spec section 4.1,
written without a queue: `pendingRun` (keys that need a run) and `running`
(the key each worker runs). `Notify` marks a key, coalescing repeated
notifications; `Start` hands a pending key to a free worker only if no
worker runs it; `Finish` frees the worker; `Restart` abandons every run and
replaces the pending set with what the initial listing finds. Its fairness
promises only that a pending key is eventually started while a worker is
free. `PostgresController` defines `KQ == INSTANCE KeyQueue WITH pendingRun
<- dirty, running <- Running`, where `Running` is the key each non-idle
worker holds; `WorkerGet` is `Start`, `Finish` (Done) is `Finish`, the
`Enqueue` of `Sync`, `Resync` and `RetryFire` is `Notify` (or a stutter when
the key is already dirty), `Restart` is `Restart`, and every other step is a
stutter of the abstract state.

### `UpdateHelpers.tla` (conflict-retrying helpers)

One object (`obj`: resourceVersion, spec keys, status keys; `exists`),
several helper invocations `hc` (pc, the copies `cur` and `in`, attempt,
result, last error, NotFound answers in a row) and other clients that
change the spec, delete and recreate the object. Actions: `TryUpdateGet`,
`TryUpdateUpdate`, `UpdateStatusCall`, `UpdateStatusReread`,
`CreateOrPatchGet`, `CreateOrPatchCreate`, `PatchObject`, `RetryableError`,
`OtherUpdate`, `OtherDelete`, `OtherCreate`. Update and UpdateStatus
are refused (Conflict) on a stale resourceVersion; the merge patch carries
none. The spec is a map (keys are added), which is what a merge patch
merges; lists are what `PostgresController` shows for finalizers.

### `AtomicUpdate.tla` (what the helpers promise)

The contract of spec section 5, with the object's spec and status (no
resourceVersion), `exists` and each call's `result`. A call either
`Apply`s its transform in one step to the object as it is (adds its key to
the spec, or to the status for a status update), or `CreateNew`s an absent
object (CreateOrPatch), or `Fail`s without writing. Other clients update,
delete and recreate the object. `UpdateHelpers` maps onto it: the object
without its resourceVersion, `exists` itself, and a call's result (an error
or a timeout is `failed`). Every successful write of a helper is `Apply`,
a create is `CreateNew`, an ending with an error is `Fail`, and the reads,
conflicts and retries are stutters.

### `SecretResolver.tla` (secret usage resolver and garbage collection)

State: `live` (the secret each live Postgres references, per name, in the
API server), `lister` (the informer's copy of it), `dormant` (each name's
dormant record: its origin secret and uid), `wiping` (the record is being
deleted with WipeOut), `secrets` and `owners` (existing secrets and their
owner references `<<name, uid>>`), `wp` (per name, where its wipe is: pc,
the used set, the unused set).

`wipeOutDatabase` is split at its API calls: `SecretsUsedByLivePeers` (the
lister list, other names only), `SecretsUsedByDormantPeers` (the dormant
list from the API server, then the set difference), `GetUnusedSecrets`
(a Get of each candidate: any error fails the wipe, which is retried; a
secret without the managed-by label is dropped), `EnsureOwnerReference`
and `FinishWipeOut` (`wipeOutWalData` succeeded and the record is purged)
or `WipeOutWalDataFails` (its error leaves the record and its owner
references for a retry that scans again). Wipes of different records
interleave. The environment: `Sync` (the informer), `Create`,
`ResumeCreate`, `Terminate` (the termination's `createDormantDatabase`, with
the object purged in the same step), `DeleteMatching`
(`deleteMatchingDormantDatabase` run by `create`), `DeleteDormant` (a user
deletes a record with WipeOut) and `CollectSecret` (the garbage collector
deletes a secret once every owner reference dangles, compared by uid).

### `WalCheck.tla` (e2e: WAL data reaches the archive)

State: `uploaded` (segments in the archive; keys grow), the test's `pc`,
`cursor`, `total` (totalItem), `found`, `polls`, `tunnel`, `result`, `errs`,
and `atStart` (segments present when the listing began). Actions: `Poll` and
`Timeout` (the `Eventually` of `EventuallyWalDataFound`), `OpenTunnel`
(`checkMinioWalData` up to the error test), `ListPage` (one
`container.Items` call of the paging loop), `ListError` (any object-store
error, which `Expect` turns into a failed test), `Return` (the deferred
tunnel close and the poll's answer), `Upload` (the archiver).

### `AppBindingCheck.tla` (e2e: the AppBinding)

State: `binding` (the AppBinding in the API server), the test's `pc`,
`polls`, `errs`, `checked` (the binding `CheckAppBindingSpec` compared) and
`result`. Actions: `PollGet`, `PollError`, `Timeout`
(`EventuallyAppBinding`), `Check`, `CheckError` (`CheckAppBindingSpec`),
`WriteBinding` (the operator or any client writes or deletes the binding).

### `PerconaDefaults.tla` (PerconaXtraDB defaulting)

`SetDefaults`, `SpecSetDefaults`, `SetDefaultProbes` and `IsCluster` are
operators over specs whose fields take every value a user can write (a nil
or negative replica count, unset strings, no probe or a user's probe). The
state `obj` (the stored, defaulted object) and `input` (the spec last
written) change by `Create`, `Scale`, `SetProbe` and `Delete`; every write
is stored defaulted.

## 3. Runs

| Run | Config | Checks | Result |
|---|---|---|---|
| `pg_safety` | `MC_PostgresController.cfg` | `TypeOK`, `NoDormantBesideLiveInstance`, `FinalizerRemovedOnlyAfterArchive`, `PausedOnlyAfterCleanup`, `KeyQueueSafety`, `ProvisionOnlyUnderFinalizer` | pass (about 2.6 M states, 2 min) |
| `pg_liveness` | `MC_PostgresController_live.cfg` | `DeletionCompletes`, `CreationCompletes`, `ImplementsKeyQueue`, `DormantPaused` | pass (about 53 k states, 30 s) |
| `foreign_finalizer` | `MC_PostgresController_foreign.cfg` | `ForeignFinalizerKept` | violation, 6 states |
| `helpers_safety` | `MC_UpdateHelpers.cfg` | `TypeOK`, `NoLostSpecWrite`, `NotFoundEndsTryUpdate`, `UpdatesAtomic` | pass (about 1.4 M states, 30 s) |
| `status_notfound` | `MC_UpdateHelpers_notfound.cfg` | `NotFoundEndsUpdateStatus` | violation |
| `secret_safety` | `MC_SecretResolver.cfg` | `TypeOK`, `SecretRetention` | pass (about 30 k states) |
| `secret_resume` | `MC_SecretResolver_resume.cfg` | `UserSecretKept` | pass (about 175 k states) |
| `secret_stale_lister` | `MC_SecretResolver_stale.cfg` | `SecretRetention` | violation |
| `secret_leak` | `MC_SecretResolver_leak.cfg` | `UnreferencedSecretCollected` | violation |
| `e2e_checks` | `MC_E2E.cfg` (module `MC_E2E`) | `TypeOK`, `ListingCountsEverySegment`, `TunnelClosed`, `CheckVerdictExact` | pass (about 460 k states, 10 s) |
| `wal_tunnel` | `MC_WalCheck_tunnel.cfg` (module `WalCheck`) | `NoNilDereference` | violation |
| `percona_defaults` | `MC_PerconaDefaults.cfg` | `TypeOK`, `DefaultsCorrect` | pass (about 1.5 k states) |

* `KeyQueueSafety` (refinement, safety part): every step of the controller
  is a step of `KeyQueue` under the mapping, so the dirty/processing
  discipline of the workqueue never gives a key to two workers and a run
  starts only for a pending notification, with watch events, resyncs,
  rate-limited retries and restarts arriving while a worker holds the key.
* `ImplementsKeyQueue` (refinement with fairness): no notification is
  forgotten: a key made dirty during its own run (its finalizer patch comes
  back as a watch event) is queued again by Done and started.
* `ProvisionOnlyUnderFinalizer` (action property): `create` completes for an
  object only while it is in the store with the kubedb finalizer (spec
  section 4.2), although the informer copy is stale and a user can delete
  the object between the copy and the finalizer patch: the patch is refused
  and its error returned before `create`.
* `FinalizerRemovedOnlyAfterArchive` (action property): the kubedb
  finalizer leaves an object only after that object itself was archived
  into a DormantDatabase. This holds across failed API calls, retries,
  restarts, a stale cache and a recreated name. A terminate that took a
  record left by an earlier object of the name as its archive breaks it.
* `PausedOnlyAfterCleanup` (action property): a DormantDatabase becomes
  Paused only in a step after which no dependent of the name is left. The
  polls of `WaitUntilPaused` race the collector and a new object of the
  name, and they time out and start again.
* `DormantPaused` (liveness): every DormantDatabase is eventually Paused
  unless it is deleted first. The dependents are collected once the object
  is purged, and the retried `WaitUntilPaused` gets past every poll.
* `NoDormantBesideLiveInstance`: after a delete and recreate of a name, no
  dormant record is left beside the provisioned new object, even when an old
  termination runs late on a stale cache.
* `DeletionCompletes`, `CreationCompletes`: every deletion finishes and every
  live object is provisioned, although stale-cache refusals and transient
  errors can use up the retry budget (resync brings the key back).
* `ForeignFinalizerKept` (violation): see findings.
* `NoLostSpecWrite`: no spec key written by a helper or another client is
  lost, although the helpers' reads are stale by the time they write. It
  covers spec keys only: no property tracks status keys that others wrote,
  so the status half of the `CreateOrPatchEtcd` race is not checked.
* `UpdatesAtomic` (refinement): the helpers implement `AtomicUpdate`. Every
  call that reports success has applied its transform to the object as it
  was when the write landed, and every failed call wrote nothing, across
  conflicts, re-reads, retryable errors and a delete and recreate. The run
  has one status writer, as the spec has the controller as the status's only
  writer, and there it holds. With a second `UpdateEtcdStatus` caller, TLC
  finds the refinement violated in four steps. `s1` writes its status key.
  `s2` gets a Conflict, re-reads, and writes `transform(in.Status)`, which
  drops `s1`'s key (`etcd.go:95`). A single writer whose `in` comes from a
  cache that lags its own last status write loses that write the same way.
* `NotFoundEndsTryUpdate` / `NotFoundEndsUpdateStatus`: a helper on a deleted
  object returns NotFound instead of polling until the timeout; TryUpdate
  does, UpdateStatus does not.
* `SecretRetention`: no secret a live Postgres or a dormant record
  references is deleted. With the objects present from the start it holds
  under concurrent wipes and a lagging lister: `secretsUsedByPeers` reads the
  lister before it lists the dormant records, so an object terminated
  between the two reads is seen by the second. With creation allowed it is
  violated (finding 3).
* A dormant record's wipe does not always end (hazard at
  `dormant_database.go:122`). `SecretResolver` states that every wipe
  ends as `WipeCompletes`, under `FairSpec`. No run checks it. Under the
  `secret_resume` bounds, TLC finds a wipe that never ends. A wipe of one
  record hands `s1` to the collector while another record that names `s1`
  is being wiped, and the collector deletes `s1`. The second wipe's Get of
  `s1` answers NotFound. The wipe treats that as an error, on every retry.
  A user deleting a secret that a dormant record names gets the same
  result. Spec section 7 treats NotFound as success for deletes. Where no
  secret can vanish, as in `secret_safety`, the property only restates the
  fairness.
* `UserSecretKept`: a secret without the managed-by label is never deleted,
  through creation, resumption, deleteMatchingDormantDatabase and wipes.
* `UnreferencedSecretCollected` (violation): when no wipe is running, a
  managed secret nobody references has an owner reference for the garbage
  collector (finding 4).
* `ListingCountsEverySegment`: the paged listing counts every segment present
  when it began and no more than the archive holds, with uploads between
  pages. `TunnelClosed`: no poll leaves its port-forward tunnel open.
  `MC_E2E` runs the two e2e modules side by side; they share no state, so
  each step belongs to one of them. That the checks return is not stated:
  the model bounds the polls, and gomega's deadline is not code of this
  repository.
* `NoNilDereference` (violation): finding 5.
* `CheckVerdictExact`: `CheckAppBindingSpec` accepts exactly the binding with
  the Postgres's service name, port and secret, whatever the binding it
  re-reads; its `||` chains never dereference a nil field.
* `DefaultsCorrect`: on every write (creation writes every spec a user can
  write) the stored object keeps each set field, fills each unset one, has
  the probe `IsCluster` calls for when none was given, and is a fixed point
  of `SetDefaults`.
* Not checked: that the default probe follows later scaling.
  `setDefaultProbes` picks `/cluster-check.sh` or a `mysqladmin ping` by the
  replica count only while the probe is nil, so a spec defaulted with one
  replica and scaled to two keeps the ping. Its comment says this is
  intended, so this is listed as a hazard, not a finding.

Each property of a passing run has a mutant in `PROJECT.json`, a plausible
bug of the mapped code (a dropped guard, a skipped wait, an uncapped retry,
a stale base for the write, a two-way patch) under which TLC finds it
violated.

### Findings

1. **Foreign finalizer removed** (`workqueue.go:61`). `runPostgres` adds its
   finalizer with a merge patch computed from the informer copy. The patch
   replaces the whole finalizer list and has no resourceVersion, so a
   finalizer another controller added after the cache was filled is
   removed (trace: create, sync, worker reads, other controller adds its
   finalizer, patch). The spec (section 5) asks for read-modify-write with
   conflict retry.
2. **UpdateStatus polls a deleted object until the timeout**
   (`util/etcd.go:116`, `util/memcached.go:115`). The test
   `err != nil && !IsRequestRetryable(e2)` reads the helper's result `err`,
   still nil inside the poll, so NotFound and every other non-retryable error
   are retried for `RetryTimeout` and reported as a timeout. The spec
   (section 7) says an unrecoverable error is surfaced at once.

3. **A secret is deleted while a new Postgres references it**
   (`dormant_database.go:129`). A wipe sets the dormant record as the owner
   of its unused secret; nothing checks again before the garbage collector
   deletes it. Trace: `a` is terminated, its record is wiped (`s1` owned by
   the record), the record is purged, a user creates `a` again with `s1`, and
   the collector deletes `s1`. A sibling missing from a stale lister leads
   the same way. So does a Postgres resumed under the record's own name
   after its wipe began: `secretsUsedByPeers` skips every live object with
   that name (line 203). Spec section 8 (secret retention) and section 9 (a
   confirmation re-check before the physical delete).
4. **A managed secret is never collected** (`dormant_database.go:197`).
   While the lister still lists peers that are already purged, each wipe of
   two dormant records sharing `s1` sees the other as a live user of `s1`,
   and no owner reference is ever set. Two wipes running at once do the
   same. Spec section 8: the secret must be included once A is gone.

5. **The WAL check dereferences a nil tunnel** (`test/e2e/framework/wal.go:101`).
   `checkMinioWalData` formats `tunnel.Local` into the endpoint before it
   checks the error of `GetMinioPortForwardingEndPoint`. When the port
   forward fails (no tunnel is returned with the error, the Go convention),
   the e2e test panics instead of reporting the error.
## 4. Bounds and why they are enough

* One name: keys do not interact except through the worker pool, and the
  refinement's safety is about a single key being handed out twice. Two
  names with two workers were measured (before the dormant controller's
  pause was added): without the other controller's finalizer, with one
  failure and the short wait order they take 300 k states, but with a
  recreate (`MaxUid = 3`) 6.8 M states and over three minutes on four
  cores; the one-name run with the recreate, the foreign finalizer and two
  failures was kept.
* Two workers in the safety run (the second is what could steal a key), with
  worker symmetry; one worker in the liveness run (symmetry is unsound there).
* `MaxUid = 2`: a delete and recreate of the name, the case behind the
  dormant-record and stale-patch hazards.
* `MaxFailures = 2` (safety) lets two API calls fail in one run, or one and
  an operator restart (restarts draw on the same budget), so a key reaches
  the retry cap; `MaxNumRequeues = 1` makes the cap reachable. Poll
  timeouts of `WaitUntilPaused` need no budget: each one ends a call, and
  the state it returns to is one the model already has.
* Three classes of the wait order (its first, a middle and its last) in both
  PostgresController runs. The wait loop and the collector treat every class
  alike, and three classes show a poll racing a collection before, at and
  after the polled class. The full order of six was checked before the pause
  moved to the dormant controller; with the pause it passes the time budget.
* The liveness run leaves out the other controller's finalizer (it takes the
  run from 53 k to about 2 M states); `pg_safety` and `foreign_finalizer`
  have it. `DormantDeleted` deletes only Paused records: deleting a record
  still being paused only ends that pause early, and it doubles the safety
  run. The deletion is what lets a record vanish between
  `deleteMatchingDormantDatabase`'s Get and its patch.
* Helpers: three callers (one of each helper), three attempts (a conflict
  or a transient error followed by a successful write after the re-read,
  or NotFound on every attempt), two transient errors, one other writer's
  key and resourceVersions up to 4 (a change, a delete and a recreate).
  The violation run `status_notfound` keeps four attempts.

* Secrets: three names, two of them sharing the managed `s1` and one with
  the user-supplied `s2` (what the spec's scenario of section 8 needs, plus
  a secret the label filter must keep); three dormant-record uids so that
  every object can be terminated; one creation in the resume run (a create,
  a resume or a create racing a wipe each need just one).

* WAL check: four segments and pages of two, so a listing takes up to three
  pages and a segment can arrive between any two; three polls; one error of
  each kind. AppBinding: two values of each field, so each test of
  `CheckAppBindingSpec` can fail alone. Percona: replica counts nil, -1 to 3
  cover nil, zero, negative and both sides of the 1/2 boundary.

## 5. Fairness

Weak fairness for each worker, for watch delivery, resync and the rate
limiter's timer (client-go runs them as goroutines that never stop), for the
dormant controller's `WaitUntilPaused` calls (start, a poll that finds the
class gone, the lock delete; a timeout is never forced), for the garbage
collector and for the other controller's removal of its finalizer from a
deleting object. `KeyQueue`'s own fairness (a pending key is
started) is what `ImplementsKeyQueue` checks the controller against; it
follows from the workers' fairness and Done's requeue, not from any
assumption on the queue. Restarts are not fair. Users are not fair: they may never act. In `SecretResolver` (`FairSpec`) the dormant-database
controller retries a failed deletion, so each step of a wipe under way is
weakly fair. `FinishWipeOut` is strongly fair: `wipeOutWalData` may fail on
any number of retries, but not on all of them. Users and the garbage
collector get no fairness; no run uses `FairSpec` (see `WipeCompletes`
above). Resync is
modelled only for keys the queue has let go of (on other keys it only adds a
run), and it queues deleting or not yet provisioned objects: that is what
brings back a key dropped after `MaxNumRequeues`.

## 6. Assumptions and what is not modelled

* `terminate` and `create` are not in this repository. `terminate` is
  modelled as deleting an existing DormantDatabase and then calling
  `createDormantDatabase`. The spec's "if one exists, it is first deleted"
  (section 3) gives the delete. `create` is modelled as
  `deleteMatchingDormantDatabase` and then ensuring the dependents. Spec
  section 4.2 puts the wait for dependents inside the termination path,
  before the archive. The code does not: `WaitUntilPaused` needs the
  DormantDatabase, and the dormant-database controller calls it. The
  model follows the code. That controller is not in the repository either;
  it is modelled as calling `WaitUntilPaused` until it succeeds and then
  setting Paused on the record it was given. All of these are marked
  `spec_modelled` in the map, as are the workqueue, rate limiter, informer
  and API server semantics.
* The garbage collector uses background deletion. It deletes a dependent
  once its owner is gone; while the kubedb finalizer holds the owner, the
  dependents stay. The leader lock has no owner, and only
  `WaitUntilPaused` deletes it.
* Another controller adds its finalizer at most once per object, so the
  fight over the finalizer list stays finite.
* In `SecretResolver` a Postgres references one secret (its
  DatabaseSecret, what `GetSecrets` returns), the dormant record list is
  read in one step, and `wipeOutWalData` is one step that succeeds or
  fails (what it deletes in object storage is left out).
* The copied data of a dormant record, labels, names and patches' JSON are
  abstracted to uids and sets.
* `GetMinioPortForwardingEndPoint` is not in the repository; it is taken to
  return a nil tunnel with its error. The TLS choice of the endpoint format
  and the mutation of the Postgres's S3 endpoint are left out (formatting).
* Not modelled: the typed clients and fakes (one request each), the naming,
  label and stats helpers, CRD schemas.

## 7. Plan

1. Done: `PostgresController` (work queue, finalizer state machine,
   cleanup, archiver) with safety, liveness and the foreign-finalizer finding
   (the waits were later moved to the dormant controller's
   `WaitUntilPaused`, where the code calls them);
   `UpdateHelpers` with the NotFound finding.
2. Done: `SecretResolver`, with the retention and leak findings.
3. Done: the abstract dispatcher `KeyQueue` and its refinement by
   `PostgresController`; the operator restart; `ProvisionOnlyUnderFinalizer`.
   An abstract lifecycle (Active → Terminating → Finalized) was weighed: to
   admit the stale-cache behaviours it would have to allow almost every
   transition, and its content is already stated by
   `FinalizerRemovedOnlyAfterArchive`, `ProvisionOnlyUnderFinalizer` and
   `NoDormantBesideLiveInstance`.
4. A two-name configuration sharing the worker pool (out of the time budget
   at the depth of the one-name run, see section 4).
5. Done: the e2e WAL and AppBinding checks, and the Percona defaulting.
6. Done: `AtomicUpdate` and its refinement by `UpdateHelpers`. With a
   second status writer the refinement fails (the stale `in.Status`
   hazard, see `UpdatesAtomic`).
