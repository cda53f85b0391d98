\* Objects that exist from the start (the lister has synced) are terminated
\* into dormant records, which are wiped concurrently.
CONSTANTS
  Names = {"a", "b", "c"}
  Secrets = {"s1", "s2"}
  Managed = {"s1"}
  InitLive <- MCInitLive3
  None = None
  MaxCreates = 0
  MaxUid = 3
SPECIFICATION Spec
INVARIANTS
  TypeOK
  SecretRetention
CHECK_DEADLOCK FALSE
