------------------------------ MODULE KeyQueue ------------------------------
(***************************************************************************)
(* The contract of the Event Dispatcher (spec section 4.1), the abstract  *)
(* specification PostgresController is shown to implement.  A change      *)
(* notification marks its key as needing a run; notifications for a key  *)
(* that already needs one, or arrive while it runs, are coalesced into    *)
(* that single pending run.  A run of a key starts only on a free worker  *)
(* and never while another worker runs the same key.  Every pending run   *)
(* is eventually started while a worker is free to start it.  A restart  *)
(* of the process abandons the runs and the pending set (section 7).     *)
(***************************************************************************)
CONSTANTS
  Keys,     \* the keys namespace/name
  Workers,  \* the fixed pool of workers
  NoKey     \* what a free worker runs

VARIABLES
  pendingRun,  \* keys that need a run of the handler
  running      \* per worker: the key whose handler it runs, or NoKey

vars == <<pendingRun, running>>

Busy(k) == \E w \in Workers : running[w] = k

Init ==
  /\ pendingRun = {}
  /\ running = [w \in Workers |-> NoKey]

\* A change notification (informer event, resync, expired retry delay).
Notify(k) ==
  /\ pendingRun' = pendingRun \cup {k}
  /\ UNCHANGED running

\* A free worker starts the pending run of a key nobody runs.
Start(w, k) ==
  /\ running[w] = NoKey
  /\ k \in pendingRun
  /\ ~Busy(k)
  /\ running' = [running EXCEPT ![w] = k]
  /\ pendingRun' = pendingRun \ {k}

\* The handler returns (with success or an error to retry later).
Finish(w) ==
  /\ running[w] # NoKey
  /\ running' = [running EXCEPT ![w] = NoKey]
  /\ UNCHANGED pendingRun

\* The process restarts: every run is abandoned, pending notifications are
\* lost, and the initial listing notifies the keys it finds.
Restart(ks) ==
  /\ running' = [w \in Workers |-> NoKey]
  /\ pendingRun' = ks

Next ==
  \/ \E k \in Keys : Notify(k)
  \/ \E ks \in SUBSET Keys : Restart(ks)
  \/ \E w \in Workers, k \in Keys : Start(w, k)
  \/ \E w \in Workers : Finish(w)

\* Only starting a pending run is promised; a handler may run for ever.
Fairness == \A k \in Keys : WF_vars(\E w \in Workers : Start(w, k))

SafetySpec == Init /\ [][Next]_vars

Spec == SafetySpec /\ Fairness

====
