---------------------------- MODULE SecretResolver ----------------------------
(***************************************************************************)
(* Deciding which database secrets may be garbage collected.  When a      *)
(* DormantDatabase is deleted with WipeOut set, WipeOutDatabase runs      *)
(* wipeOutDatabase: secretsUsedByPeers reads the live Postgres objects    *)
(* from the lister (the informer cache) and then lists the dormant        *)
(* records from the API server; the dormant record's own secrets minus    *)
(* those used by peers, restricted to the secrets labelled as managed by  *)
(* kubedb, get an owner reference to the dormant record.  Once every      *)
(* owner of a secret is gone the cluster garbage collector deletes it.    *)
(* Meanwhile Postgres objects are created and terminated into dormant     *)
(* records, and dormant records are deleted, one wipe per record at a     *)
(* time but for several records concurrently.                             *)
(***************************************************************************)
EXTENDS Naturals, FiniteSets

CONSTANTS
  Names,      \* namespace/name of Postgres objects and their dormant records
  Secrets,    \* database secrets
  Managed,    \* secrets labelled app.kubernetes.io/managed-by=kubedb.com
  InitLive,   \* InitLive[n]: secret of the Postgres n at start, or None
  None,       \* no object
  MaxCreates, \* bound: Postgres objects users create
  MaxUid      \* bound: dormant records created (uids of owner references)

ASSUME Managed \subseteq Secrets /\ None \notin Secrets

Ref     == Secrets \cup {None}
\* A dormant record: the secret its origin spec references, and its uid.
Dormant == [secret : Secrets, uid : 1 .. MaxUid]

VARIABLES
  live,      \* API server: secret of the live Postgres of each name, or None
  lister,    \* pgLister: the informer's copy of live, possibly behind
  dormant,   \* API server: dormant record of each name, or None
  wiping,    \* the dormant record of the name is being deleted with WipeOut
  secrets,   \* API server: existing secrets
  owners,    \* owner references of each secret: <<name, uid>> of dormant records
  wp,        \* per name: the wipe of its dormant record (pc, used, unused)
  creates,   \* Postgres objects created so far
  nextUid    \* uid of the next dormant record

vars == <<live, lister, dormant, wiping, secrets, owners, wp, creates, nextUid>>

WpIdle == [pc |-> "idle", used |-> {}, unused |-> {}]

\* GetDatabaseSecrets: the secrets the origin spec of a dormant record
\* references (GetSecrets: the DatabaseSecret, when set).
GetDatabaseSecrets(d) == {d.secret}

-----------------------------------------------------------------------------
(* wipeOutDatabase for the dormant record of n.                           *)

\* Mutant: the live peers are not consulted at all.
SecretsUsedByLivePeersSkipped(n) ==
  /\ wp[n].pc = "idle"
  /\ wiping[n]
  /\ wp' = [wp EXCEPT ![n] = [pc |-> "listDormant", used |-> {}, unused |-> {}]]
  /\ UNCHANGED <<live, lister, dormant, wiping, secrets, owners, creates, nextUid>>

\* secretsUsedByPeers, first half: the secrets of every Postgres in the
\* lister except the one named like the record.
SecretsUsedByLivePeers(n) ==
  /\ wp[n].pc = "idle"
  /\ wiping[n]
  /\ wp' = [wp EXCEPT ![n] = [pc |-> "listDormant",
                               used |-> {lister[m] : m \in {m \in Names \ {n} : lister[m] # None}},
                               unused |-> {}]]
  /\ UNCHANGED <<live, lister, dormant, wiping, secrets, owners, creates, nextUid>>

\* secretsUsedByPeers, second half: the secrets of every dormant record
\* listed from the API server except its own; then the set difference of
\* wipeOutDatabase.
SecretsUsedByDormantPeers(n) ==
  LET used == wp[n].used \cup
                {dormant[m].secret : m \in {m \in Names \ {n} : dormant[m] # None}}
  IN /\ wp[n].pc = "listDormant"
     /\ wp' = [wp EXCEPT ![n] = [pc |-> "getSecrets", used |-> used,
                                  unused |-> GetDatabaseSecrets(dormant[n]) \ used]]
     /\ UNCHANGED <<live, lister, dormant, wiping, secrets, owners, creates, nextUid>>

\* Mutant: the managed-by label is not checked.
GetUnusedSecretsNoLabelFilter(n) ==
  /\ wp[n].pc = "getSecrets"
  /\ wp' = [wp EXCEPT ![n] =
              IF wp[n].unused \subseteq secrets
              THEN [@ EXCEPT !.pc = "ensureOwner"]
              ELSE WpIdle]
  /\ UNCHANGED <<live, lister, dormant, wiping, secrets, owners, creates, nextUid>>

\* Get each unused secret: an error (NotFound included) fails the wipe, to
\* be retried; a secret not managed by kubedb is dropped from the set.
GetUnusedSecrets(n) ==
  /\ wp[n].pc = "getSecrets"
  /\ wp' = [wp EXCEPT ![n] =
              IF wp[n].unused \subseteq secrets
              THEN [@ EXCEPT !.pc = "ensureOwner", !.unused = @ \cap Managed]
              ELSE WpIdle]
  /\ UNCHANGED <<live, lister, dormant, wiping, secrets, owners, creates, nextUid>>

\* Mutant: the owner reference is built without the record's uid.
EnsureOwnerReferenceNoUid(n) ==
  /\ wp[n].pc = "ensureOwner"
  /\ \/ /\ wp[n].unused \subseteq secrets
        /\ owners' = [s \in Secrets |->
                        IF s \in wp[n].unused THEN owners[s] \cup {<<n, 0>>} ELSE owners[s]]
        /\ wp' = [wp EXCEPT ![n].pc = "finish"]
     \/ /\ ~(wp[n].unused \subseteq secrets)
        /\ wp' = [wp EXCEPT ![n] = WpIdle]
        /\ UNCHANGED owners
  /\ UNCHANGED <<live, lister, dormant, wiping, secrets, creates, nextUid>>

\* EnsureOwnerReferenceForItems: the dormant record becomes an owner of
\* every remaining secret.
EnsureOwnerReference(n) ==
  /\ wp[n].pc = "ensureOwner"
  /\ \/ /\ wp[n].unused \subseteq secrets
        /\ owners' = [s \in Secrets |->
                        IF s \in wp[n].unused THEN owners[s] \cup {<<n, dormant[n].uid>>}
                        ELSE owners[s]]
        /\ wp' = [wp EXCEPT ![n].pc = "finish"]
     \/ /\ ~(wp[n].unused \subseteq secrets)
        /\ wp' = [wp EXCEPT ![n] = WpIdle]
        /\ UNCHANGED owners
  /\ UNCHANGED <<live, lister, dormant, wiping, secrets, creates, nextUid>>

\* WipeOutDatabase succeeded: wipeOutWalData removed the WAL data, the
\* dormant record's finalizer is removed and it is purged.
FinishWipeOut(n) ==
  /\ wp[n].pc = "finish"
  /\ dormant' = [dormant EXCEPT ![n] = None]
  /\ wiping' = [wiping EXCEPT ![n] = FALSE]
  /\ wp' = [wp EXCEPT ![n] = WpIdle]
  /\ UNCHANGED <<live, lister, secrets, owners, creates, nextUid>>

\* wipeOutWalData fails after the owner references were set: the error is
\* returned, the record stays, and the retried deletion scans again.
WipeOutWalDataFails(n) ==
  /\ wp[n].pc = "finish"
  /\ wp' = [wp EXCEPT ![n] = WpIdle]
  /\ UNCHANGED <<live, lister, dormant, wiping, secrets, owners, creates, nextUid>>

-----------------------------------------------------------------------------
(* Environment.                                                           *)

\* The informer brings the lister up to date for one name.
Sync(n) ==
  /\ lister[n] # live[n]
  /\ lister' = [lister EXCEPT ![n] = live[n]]
  /\ UNCHANGED <<live, dormant, wiping, secrets, owners, wp, creates, nextUid>>

\* A user creates a Postgres referencing an existing secret.
Create(n, s) ==
  /\ live[n] = None /\ dormant[n] = None
  /\ s \in secrets
  /\ creates < MaxCreates
  /\ live' = [live EXCEPT ![n] = s]
  /\ creates' = creates + 1
  /\ UNCHANGED <<lister, dormant, wiping, secrets, owners, wp, nextUid>>

\* A user recreates a Postgres from its dormant record's origin spec.
ResumeCreate(n) ==
  /\ live[n] = None /\ dormant[n] # None
  /\ creates < MaxCreates
  /\ live' = [live EXCEPT ![n] = dormant[n].secret]
  /\ creates' = creates + 1
  /\ UNCHANGED <<lister, dormant, wiping, secrets, owners, wp, nextUid>>

\* deleteMatchingDormantDatabase from create: WipeOut is patched to false
\* and the record deleted, so it goes without a wipe; once a wipe of it
\* has begun the patch comes too late and the wipe goes on.
DeleteMatching(n) ==
  /\ live[n] # None /\ dormant[n] # None
  /\ wp[n].pc = "idle"
  /\ dormant' = [dormant EXCEPT ![n] = None]
  /\ wiping' = [wiping EXCEPT ![n] = FALSE]
  /\ UNCHANGED <<live, lister, secrets, owners, wp, creates, nextUid>>

\* The termination of a deleted Postgres: createDormantDatabase copies the
\* origin spec (its secret), the finalizer goes and the object is purged.
Terminate(n) ==
  /\ live[n] # None /\ dormant[n] = None
  /\ nextUid <= MaxUid
  /\ dormant' = [dormant EXCEPT ![n] = [secret |-> live[n], uid |-> nextUid]]
  /\ live' = [live EXCEPT ![n] = None]
  /\ nextUid' = nextUid + 1
  /\ UNCHANGED <<lister, wiping, secrets, owners, wp, creates>>

\* A user deletes a dormant record with WipeOut set.
DeleteDormant(n) ==
  /\ dormant[n] # None /\ live[n] = None /\ ~wiping[n]
  /\ wiping' = [wiping EXCEPT ![n] = TRUE]
  /\ UNCHANGED <<live, lister, dormant, secrets, owners, wp, creates, nextUid>>

\* An owner reference <<name, uid>> is dangling once no dormant record
\* with that uid exists.
OwnerGone(o) == IF dormant[o[1]] = None THEN TRUE ELSE dormant[o[1]].uid # o[2]

\* The garbage collector deletes a secret whose owners all are gone.
CollectSecret(s) ==
  /\ s \in secrets
  /\ owners[s] # {}
  /\ \A o \in owners[s] : OwnerGone(o)
  /\ secrets' = secrets \ {s}
  /\ UNCHANGED <<live, lister, dormant, wiping, owners, wp, creates, nextUid>>

Init ==
  /\ live = InitLive
  /\ lister = InitLive
  /\ dormant = [n \in Names |-> None]
  /\ wiping = [n \in Names |-> FALSE]
  /\ secrets = Secrets
  /\ owners = [s \in Secrets |-> {}]
  /\ wp = [n \in Names |-> WpIdle]
  /\ creates = 0
  /\ nextUid = 1

Wipe(n) ==
  \/ SecretsUsedByLivePeers(n)
  \/ SecretsUsedByDormantPeers(n)
  \/ GetUnusedSecrets(n)
  \/ EnsureOwnerReference(n)
  \/ FinishWipeOut(n)
  \/ WipeOutWalDataFails(n)

Next ==
  \/ \E n \in Names : Wipe(n)
  \/ \E n \in Names : Sync(n) \/ Terminate(n) \/ DeleteDormant(n)
  \/ \E n \in Names : ResumeCreate(n) \/ DeleteMatching(n)
  \/ \E n \in Names, s \in Secrets : Create(n, s)
  \/ \E s \in Secrets : CollectSecret(s)

Spec == Init /\ [][Next]_vars

\* The dormant-database controller retries a failed deletion (requeue or
\* resync), so each step of a wipe under way is eventually taken; the WAL
\* removal is assumed to succeed on some retry (strong fairness: it may
\* fail every time but not for ever).  Users and the collector are not fair.
FairSpec ==
  /\ Spec
  /\ \A n \in Names :
       /\ WF_vars(SecretsUsedByLivePeers(n) \/ SecretsUsedByDormantPeers(n)
                   \/ GetUnusedSecrets(n) \/ EnsureOwnerReference(n))
       /\ SF_vars(FinishWipeOut(n))

-----------------------------------------------------------------------------
TypeOK ==
  /\ live \in [Names -> Ref] /\ lister \in [Names -> Ref]
  /\ dormant \in [Names -> Dormant \cup {None}]
  /\ wiping \in [Names -> BOOLEAN]
  /\ secrets \subseteq Secrets
  /\ owners \in [Secrets -> SUBSET (Names \X (1 .. MaxUid))]
  /\ \A n \in Names : wp[n].pc \in {"idle", "listDormant", "getSecrets", "ensureOwner", "finish"}
                    /\ wp[n].used \subseteq Secrets /\ wp[n].unused \subseteq Secrets
  /\ creates \in 0 .. MaxCreates /\ nextUid \in 1 .. MaxUid + 1

Referenced(s) ==
  \E n \in Names : live[n] = s \/ (dormant[n] # None /\ dormant[n].secret = s)

(* Secret retention (spec section 8): a secret that a live Postgres or a  *)
(* dormant record references is never deleted.  wipeOutDatabase reads    *)
(* the live peers from the lister before it lists the dormant records     *)
(* from the API server, so an object terminated into a dormant record     *)
(* between the two reads is seen by one of them.                          *)
SecretRetention ==
  \A s \in Secrets : Referenced(s) => s \in secrets

(* A secret the user supplied (not labelled managed-by kubedb) is never   *)
(* deleted, whatever the wipes decide: GetUnusedSecrets drops it before   *)
(* the owner reference is set.                                            *)
UserSecretKept == Secrets \ Managed \subseteq secrets

(* Spec section 8: a managed secret is collected once no Postgres and no  *)
(* dormant record references it: when no wipe is under way, a managed     *)
(* secret still present is referenced or has an owner reference for the   *)
(* garbage collector to act on.                                           *)
UnreferencedSecretCollected ==
  (\A n \in Names : ~wiping[n]) =>
    \A s \in secrets \cap Managed : Referenced(s) \/ owners[s] # {}

(* A dormant record deleted with WipeOut is eventually purged (or taken    *)
(* back by deleteMatchingDormantDatabase), under FairSpec, as spec section *)
(* 7 expects of a NotFound during deletion.  The code does not do this:    *)
(* when a secret a record names is already gone, the Get of it in         *)
(* GetUnusedSecrets (dormant_database.go:120-123) returns NotFound on      *)
(* every retry and the wipe never ends.  TLC finds this under FairSpec    *)
(* with the bounds of MC_SecretResolver_resume.cfg; no run checks it.     *)
WipeCompletes == \A n \in Names : wiping[n] ~> ~wiping[n]

====
