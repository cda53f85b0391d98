\* Objects are created, terminated, resumed from their dormant records and
\* wiped, in any interleaving.
CONSTANTS
  Names = {"a", "b", "c"}
  Secrets = {"s1", "s2"}
  Managed = {"s1"}
  InitLive <- MCInitLive3
  None = None
  MaxCreates = 1
  MaxUid = 3
SPECIFICATION Spec
INVARIANT UserSecretKept
CHECK_DEADLOCK FALSE
