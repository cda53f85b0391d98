\* Another controller's finalizer against runPostgres's finalizer patches.
CONSTANTS
  Names = {pg1}
  Workers = {w1}
  KubedbFinalizer = kubedb
  ForeignFinalizers = {stash}
  WaitOrder <- MCWaitOrderShort
  LeaderLock <- MCLeaderLock
  MaxUid = 1
  MaxNumRequeues = 1
  MaxFailures = 0
SPECIFICATION Spec
PROPERTY ForeignFinalizerKept
CHECK_DEADLOCK FALSE
