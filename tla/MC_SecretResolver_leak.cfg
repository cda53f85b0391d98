\* Dormant records sharing a managed secret, wiped while the lister is
\* behind (or at the same time).
CONSTANTS
  Names = {"a", "b", "c"}
  Secrets = {"s1", "s2"}
  Managed = {"s1"}
  InitLive <- MCInitLive3
  None = None
  MaxCreates = 0
  MaxUid = 3
SPECIFICATION Spec
INVARIANT UnreferencedSecretCollected
CHECK_DEADLOCK FALSE
