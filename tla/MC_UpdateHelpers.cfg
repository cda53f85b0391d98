\* TryUpdateEtcd, UpdateEtcdStatus and CreateOrPatchEtcd racing another
\* spec writer, a deletion and a recreation; three attempts let a caller
\* meet a conflict (or a retryable error) and still succeed after the
\* re-read, or meet NotFound on every attempt.
CONSTANTS
  Callers = {"t1", "s1", "p1"}
  Kind <- MCKind
  Elem <- MCElem
  OtherElems = {"u1"}
  MaxAttempts = 3
  MaxFailures = 2
  MaxVersion = 4
SPECIFICATION Spec
INVARIANTS
  TypeOK
  NoLostSpecWrite
  NotFoundEndsTryUpdate
PROPERTY
  UpdatesAtomic
CHECK_DEADLOCK FALSE
