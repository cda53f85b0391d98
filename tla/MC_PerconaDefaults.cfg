\* Replica counts from nil and -1 to 3 (standalone, the 1/2 boundary of
\* IsCluster, a cluster), every value of the other fields.
CONSTANTS
  Nil = Nil
  MaxReplicas = 3
SPECIFICATION Spec
INVARIANTS
  TypeOK
  DefaultsCorrect
