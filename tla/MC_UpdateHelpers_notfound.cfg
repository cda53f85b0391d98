\* UpdateEtcdStatus on an object that is deleted: with four attempts the
\* poll is seen answering NotFound more than twice.
CONSTANTS
  Callers = {"t1", "s1", "p1"}
  Kind <- MCKind
  Elem <- MCElem
  OtherElems = {"u1"}
  MaxAttempts = 4
  MaxFailures = 0
  MaxVersion = 3
SPECIFICATION Spec
INVARIANT NotFoundEndsUpdateStatus
CHECK_DEADLOCK FALSE
