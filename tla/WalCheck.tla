------------------------------- MODULE WalCheck -------------------------------
(***************************************************************************)
(* The e2e check that WAL data reaches the archive.  EventuallyWalDataFound *)
(* polls checkWalData (checkMinioWalData for Minio, which first opens a    *)
(* port-forward tunnel) until it reports data or the deadline passes.       *)
(* checkWalData lists the archive under the WAL prefix page by page with a *)
(* cursor and counts the items.  Meanwhile the database's archiver uploads *)
(* WAL segments; their keys grow, so a new segment sorts after every key   *)
(* already listed.  Any error is fed to Expect, which fails the test.      *)
(***************************************************************************)
EXTENDS Naturals, FiniteSets

CONSTANTS
  Minio,          \* the storage is Minio (reached through a tunnel)
  MaxSegments,    \* bound: WAL segments the archiver uploads
  PageSize,       \* the page size of container.Items (50 in the code)
  MaxPolls,       \* polls within the deadline (5 min / 5 s in the code)
  MaxErrors,      \* bound: failed object-store calls
  MaxTunnelErrors \* bound: failed port forwards

VARIABLES
  uploaded,  \* segments in the archive: keys 1 .. uploaded
  pc,        \* "poll", "tunnel", "list", "return" or "done"
  cursor,    \* the listing cursor: the last key returned, 0 for CursorStart
  total,     \* totalItem
  found,     \* the answer of checkWalData
  polls,     \* polls made
  tunnel,    \* "none", "open", "closed" or "nil"
  result,    \* "none", "pass", "timeout", "fail" or "panic"
  errs,      \* object-store and port-forward errors so far
  atStart    \* segments present when the current listing began

vars == <<uploaded, pc, cursor, total, found, polls, tunnel, result, errs, atStart>>

MinOf(a, b) == IF a < b THEN a ELSE b

\* Keys container.Items returns after cursor: at most PageSize, in order.
Page(c) == (c + 1) .. MinOf(c + PageSize, uploaded)
\* The answer is truncated, and its cursor not CursorEnd, when more keys
\* follow the page.
Truncated(c) == c + PageSize < uploaded

\* The test fails: Expect(err).NotTo(HaveOccurred()) inside the poll.
Fail == /\ pc' = "done" /\ result' = "fail"

-----------------------------------------------------------------------------
(* EventuallyWalDataFound: start a poll, or give up at the deadline.       *)

\* Mutant: the deadline is checked one poll late.
PollOffByOne ==
  /\ pc = "poll"
  /\ polls <= MaxPolls
  /\ polls' = polls + 1
  /\ pc' = IF Minio THEN "tunnel" ELSE "list"
  /\ cursor' = 0 /\ total' = 0 /\ atStart' = uploaded
  /\ UNCHANGED <<uploaded, found, tunnel, result, errs>>

Poll ==
  /\ pc = "poll"
  /\ polls < MaxPolls
  /\ polls' = polls + 1
  /\ pc' = IF Minio THEN "tunnel" ELSE "list"
  /\ cursor' = 0 /\ total' = 0 /\ atStart' = uploaded
  /\ UNCHANGED <<uploaded, found, tunnel, result, errs>>

Timeout ==
  /\ pc = "poll"
  /\ polls = MaxPolls
  /\ pc' = "done" /\ result' = "timeout"
  /\ UNCHANGED <<uploaded, cursor, total, found, polls, tunnel, errs, atStart>>

\* checkMinioWalData: GetMinioPortForwardingEndPoint opens the tunnel and
\* tunnel.Local is formatted into the endpoint before err is checked; a
\* failed port forward returns a nil tunnel with its error.
OpenTunnel ==
  /\ pc = "tunnel"
  /\ \/ /\ tunnel' = "open" /\ pc' = "list"
        /\ UNCHANGED <<result, errs>>
     \/ /\ errs < MaxTunnelErrors
        /\ errs' = errs + 1
        /\ tunnel' = "nil" /\ pc' = "done" /\ result' = "panic"
  /\ UNCHANGED <<uploaded, cursor, total, found, polls, atStart>>

\* Mutant: the loop breaks at CursorEnd before the last page is counted.
ListPageSkipLast ==
  /\ pc = "list"
  /\ IF Truncated(cursor)
       THEN /\ total' = total + Cardinality(Page(cursor))
            /\ cursor' = cursor + PageSize
            /\ UNCHANGED <<pc, found>>
       ELSE /\ found' = (total # 0)
            /\ pc' = "return"
            /\ UNCHANGED <<cursor, total>>
  /\ UNCHANGED <<uploaded, polls, tunnel, result, errs, atStart>>

\* checkWalData: one call of container.Items; the loop ends at CursorEnd.
ListPage ==
  /\ pc = "list"
  /\ total' = total + Cardinality(Page(cursor))
  /\ IF Truncated(cursor)
       THEN /\ cursor' = cursor + PageSize
            /\ UNCHANGED <<pc, found>>
       ELSE /\ found' = (total + Cardinality(Page(cursor)) # 0)
            /\ pc' = "return"
            /\ UNCHANGED cursor
  /\ UNCHANGED <<uploaded, polls, tunnel, result, errs, atStart>>

\* NewOSMContext, Dial, Container or Items fails: checkWalData returns the
\* error; checkMinioWalData has deferred the tunnel's Close by then.
ListError ==
  /\ pc = "list"
  /\ errs < MaxErrors
  /\ errs' = errs + 1
  /\ Fail
  /\ tunnel' = IF Minio THEN "closed" ELSE tunnel
  /\ UNCHANGED <<uploaded, cursor, total, found, polls, atStart>>

\* Mutant: the tunnel is not closed.
ReturnNoClose ==
  /\ pc = "return"
  /\ pc' = IF found THEN "done" ELSE "poll"
  /\ result' = IF found THEN "pass" ELSE result
  /\ UNCHANGED <<uploaded, cursor, total, found, polls, errs, atStart, tunnel>>

\* checkWalData returns; the deferred Close runs; the poll passes on data
\* found and otherwise is made again.
Return ==
  /\ pc = "return"
  /\ tunnel' = IF Minio THEN "closed" ELSE tunnel
  /\ pc' = IF found THEN "done" ELSE "poll"
  /\ result' = IF found THEN "pass" ELSE result
  /\ UNCHANGED <<uploaded, cursor, total, found, polls, errs, atStart>>

(* The archiver uploads the next WAL segment.                              *)
Upload ==
  /\ uploaded < MaxSegments
  /\ uploaded' = uploaded + 1
  /\ UNCHANGED <<pc, cursor, total, found, polls, tunnel, result, errs, atStart>>

Init ==
  /\ uploaded = 0 /\ pc = "poll" /\ cursor = 0 /\ total = 0 /\ found = FALSE
  /\ polls = 0 /\ tunnel = "none" /\ result = "none" /\ errs = 0 /\ atStart = 0

Test == Poll \/ Timeout \/ OpenTunnel \/ ListPage \/ ListError \/ Return

Next == Test \/ Upload

Spec == Init /\ [][Next]_vars

-----------------------------------------------------------------------------
TypeOK ==
  /\ uploaded \in 0 .. MaxSegments /\ cursor \in 0 .. MaxSegments
  /\ total \in 0 .. MaxSegments /\ found \in BOOLEAN
  /\ pc \in {"poll", "tunnel", "list", "return", "done"}
  /\ polls \in 0 .. MaxPolls /\ errs \in 0 .. MaxErrors + MaxTunnelErrors
  /\ tunnel \in {"none", "open", "closed", "nil"}
  /\ result \in {"none", "pass", "timeout", "fail", "panic"}
  /\ atStart \in 0 .. MaxSegments

(* checkWalData pages through the archive with the cursor: the count it   *)
(* returns includes every segment present when the listing began, and    *)
(* never more than the archive holds, although the archiver uploads      *)
(* between the pages.                                                     *)
ListingCountsEverySegment ==
  pc = "return" => atStart <= total /\ total <= uploaded

(* checkMinioWalData closes its port-forward tunnel before the poll is    *)
(* made again or the test ends (the deferred tunnel.Close).               *)
TunnelClosed == pc \in {"poll", "done"} => tunnel # "open"

(* checkMinioWalData never dereferences a nil tunnel: a failed port       *)
(* forward ends the check with its error.                                 *)
NoNilDereference == result # "panic"

====
