--------------------------- MODULE AppBindingCheck ---------------------------
(***************************************************************************)
(* The e2e checks of the AppBinding the operator writes for a Postgres.   *)
(* EventuallyAppBinding polls Get until the binding exists (NotFound is   *)
(* polled again, any other error fails the test); CheckAppBindingSpec     *)
(* reads the Postgres and the binding again and compares the binding's    *)
(* service (name, port) and secret with the Postgres.  Meanwhile the      *)
(* binding is written, rewritten or deleted by the operator and others.   *)
(***************************************************************************)
EXTENDS Naturals

CONSTANTS
  Nil,
  PgName,        \* the Postgres (its ServiceName is its name)
  PgSecret,      \* its Spec.DatabaseSecret.SecretName
  PostgresPort,  \* controller.PostgresPort
  Names,         \* service names a binding may carry
  Ports,         \* ports a binding may carry
  SecretNames,   \* secret names a binding may carry
  MaxPolls,      \* polls within the deadline
  MaxErrors      \* bound: failed API calls

ASSUME PgName \in Names /\ PostgresPort \in Ports /\ PgSecret \in SecretNames

Services == [name : Names, port : Ports]
Bindings == [service : Services \cup {Nil}, secret : SecretNames \cup {Nil}]

VARIABLES
  binding,  \* the AppBinding in the API server, or Nil
  pc,       \* "poll", "check" or "done"
  polls,    \* polls made
  errs,     \* failed API calls so far
  checked,  \* the binding CheckAppBindingSpec compared, or Nil
  result    \* "none", "timeout", "fail", "error", "invalid" or "ok"

vars == <<binding, pc, polls, errs, checked, result>>

\* Mutant: the port is not compared.
InvalidDataNoPort(b) ==
  \/ b.service = Nil
  \/ b.service.name # PgName
  \/ b.secret = Nil
  \/ b.secret # PgSecret

\* CheckAppBindingSpec's two tests; || stops at the first true operand, so
\* a nil Service or Secret is never dereferenced.
InvalidData(b) ==
  \/ b.service = Nil
  \/ b.service.name # PgName
  \/ b.service.port # PostgresPort
  \/ b.secret = Nil
  \/ b.secret # PgSecret

\* Expect(err).NotTo(HaveOccurred()) fails the test.
Fail == /\ errs < MaxErrors /\ errs' = errs + 1
        /\ pc' = "done" /\ result' = "fail"

-----------------------------------------------------------------------------
(* EventuallyAppBinding: one Get.                                          *)

\* Mutant: the deadline is checked one poll late.
PollGetOffByOne ==
  /\ pc = "poll"
  /\ polls <= MaxPolls
  /\ polls' = polls + 1
  /\ pc' = IF binding = Nil THEN "poll" ELSE "check"
  /\ UNCHANGED <<binding, errs, checked, result>>


PollGet ==
  /\ pc = "poll"
  /\ polls < MaxPolls
  /\ polls' = polls + 1
  /\ pc' = IF binding = Nil THEN "poll" ELSE "check"
  /\ UNCHANGED <<binding, errs, checked, result>>

PollError ==
  /\ pc = "poll"
  /\ Fail
  /\ UNCHANGED <<binding, polls, checked>>

Timeout ==
  /\ pc = "poll"
  /\ polls = MaxPolls
  /\ pc' = "done" /\ result' = "timeout"
  /\ UNCHANGED <<binding, polls, errs, checked>>

(* CheckAppBindingSpec: GetPostgres (an error fails the test), then the   *)
(* binding's Get (an error, NotFound included, is returned) and the tests. *)
Check ==
  /\ pc = "check"
  /\ pc' = "done"
  /\ IF binding = Nil
       THEN result' = "error" /\ UNCHANGED checked
       ELSE /\ checked' = binding
            /\ result' = IF InvalidData(binding) THEN "invalid" ELSE "ok"
  /\ UNCHANGED <<binding, polls, errs>>

CheckError ==
  /\ pc = "check"
  /\ \/ Fail
     \/ /\ errs < MaxErrors /\ errs' = errs + 1
        /\ pc' = "done" /\ result' = "error"
  /\ UNCHANGED <<binding, polls, checked>>

(* The operator (or another client) writes or deletes the binding.         *)
WriteBinding(b) ==
  /\ binding' = b
  /\ UNCHANGED <<pc, polls, errs, checked, result>>

Init ==
  /\ binding = Nil /\ pc = "poll" /\ polls = 0 /\ errs = 0
  /\ checked = Nil /\ result = "none"

Test == PollGet \/ PollError \/ Timeout \/ Check \/ CheckError

Next == Test \/ \E b \in Bindings \cup {Nil} : WriteBinding(b)

Spec == Init /\ [][Next]_vars

-----------------------------------------------------------------------------
TypeOK ==
  /\ binding \in Bindings \cup {Nil} /\ checked \in Bindings \cup {Nil}
  /\ pc \in {"poll", "check", "done"}
  /\ polls \in 0 .. MaxPolls /\ errs \in 0 .. MaxErrors
  /\ result \in {"none", "timeout", "fail", "error", "invalid", "ok"}

(* CheckAppBindingSpec accepts exactly the binding the Postgres calls for: *)
(* a service with its name and the Postgres port, and its database secret. *)
CheckVerdictExact ==
  result \in {"ok", "invalid"} =>
    ((result = "ok") <=>
       checked = [service |-> [name |-> PgName, port |-> PostgresPort], secret |-> PgSecret])

====
