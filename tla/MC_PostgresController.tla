----------------------- MODULE MC_PostgresController -----------------------
(* Instantiates PostgresController for TLC: the classes WaitUntilPaused   *)
(* awaits, in its order, and the leader-lock ConfigMap.                   *)
EXTENDS PostgresController

\* The full order of WaitUntilPaused and waitUntilRBACStuffDeleted.
MCWaitOrder == <<"pods", "services", "role", "rolebinding",
                 "serviceaccount", "snapshotserviceaccount">>
\* Its first, a middle and its last class: the wait loop and the garbage
\* collector behave alike for every class, three show each interleaving
\* of a poll with a collection before, at and after the polled class.
MCWaitOrderShort == <<"pods", "role", "snapshotserviceaccount">>
MCLeaderLock == "leaderlock"

\* Worker ids are interchangeable.
WorkerSymmetry == Permutations(Workers)

====
