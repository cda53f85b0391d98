-------------------------------- MODULE MC_E2E --------------------------------
(***************************************************************************)
(* The two polled checks of the e2e framework, WalCheck and             *)
(* AppBindingCheck, checked in one run.  They share no state, so each    *)
(* step is a step of one of them and the other's variables stay as they   *)
(* are.                                                                   *)
(***************************************************************************)
CONSTANTS
  Minio, MaxSegments, PageSize, MaxTunnelErrors,
  Nil, PgName, PgSecret, PostgresPort, Names, Ports, SecretNames,
  MaxPolls, MaxErrors

VARIABLES
  uploaded, wpc, cursor, total, found, wpolls, tunnel, wresult, werrs, atStart,
  binding, apc, apolls, aerrs, checked, aresult

wvars == <<uploaded, wpc, cursor, total, found, wpolls, tunnel, wresult, werrs, atStart>>
avars == <<binding, apc, apolls, aerrs, checked, aresult>>
vars == <<wvars, avars>>

W == INSTANCE WalCheck WITH pc <- wpc, polls <- wpolls, result <- wresult, errs <- werrs
A == INSTANCE AppBindingCheck WITH pc <- apc, polls <- apolls, result <- aresult, errs <- aerrs

Init == W!Init /\ A!Init

Next == (W!Next /\ UNCHANGED avars) \/ (A!Next /\ UNCHANGED wvars)

Spec == Init /\ [][Next]_vars

-----------------------------------------------------------------------------
TypeOK == W!TypeOK /\ A!TypeOK

(* checkWalData's paged listing counts every segment present when it     *)
(* began, and no more than the archive holds, with uploads between pages. *)
ListingCountsEverySegment == W!ListingCountsEverySegment

(* checkMinioWalData closes its port-forward tunnel before the next poll  *)
(* or the end of the test.                                                *)
TunnelClosed == W!TunnelClosed

(* CheckAppBindingSpec accepts exactly the binding with the Postgres's    *)
(* service name, port and secret.                                         *)
CheckVerdictExact == A!CheckVerdictExact

====
