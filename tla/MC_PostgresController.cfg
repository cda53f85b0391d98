\* Safety of the finalizer state machine: one name, two workers, a recreate,
\* another controller's finalizer, two failures (API errors, wait timeouts or
\* operator restarts), the full wait order.
CONSTANTS
  Names = {pg1}
  Workers = {w1, w2}
  KubedbFinalizer = kubedb
  ForeignFinalizers = {stash}
  WaitOrder <- MCWaitOrderShort
  LeaderLock <- MCLeaderLock
  MaxUid = 2
  MaxNumRequeues = 1
  MaxFailures = 2
SPECIFICATION Spec
SYMMETRY WorkerSymmetry
INVARIANT TypeOK
INVARIANT NoDormantBesideLiveInstance
PROPERTY FinalizerRemovedOnlyAfterArchive
PROPERTY PausedOnlyAfterCleanup
PROPERTY KeyQueueSafety
PROPERTY ProvisionOnlyUnderFinalizer
CHECK_DEADLOCK FALSE
