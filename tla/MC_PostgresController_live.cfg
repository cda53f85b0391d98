\* Liveness of deletion, provisioning and pausing under the fairness of the
\* workers, the informer, the rate limiter, the dormant controller and the
\* garbage collector; a key dropped after MaxNumRequeues is queued again by
\* the resync.  No other controller's finalizer: pg_safety has it.
CONSTANTS
  Names = {pg1}
  Workers = {w1}
  KubedbFinalizer = kubedb
  ForeignFinalizers = {}
  WaitOrder <- MCWaitOrderShort
  LeaderLock <- MCLeaderLock
  MaxUid = 2
  MaxNumRequeues = 1
  MaxFailures = 1
SPECIFICATION FairSpec
PROPERTY DeletionCompletes
PROPERTY CreationCompletes
PROPERTY ImplementsKeyQueue
PROPERTY DormantPaused
CHECK_DEADLOCK FALSE
