\* A Postgres created, under a freed name, with a secret a finished wipe
\* has handed to the garbage collector.
CONSTANTS
  Names = {"a", "b"}
  Secrets = {"s1"}
  Managed = {"s1"}
  InitLive <- MCInitLive2
  None = None
  MaxCreates = 1
  MaxUid = 2
SPECIFICATION Spec
INVARIANT SecretRetention
CHECK_DEADLOCK FALSE
