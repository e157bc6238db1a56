--------------------------- MODULE GdprRepository ---------------------------
(***************************************************************************)
(* The table gdpr_requests and the statements of GdprRepository that       *)
(* change it.  Every operator below is one SQL statement, hence atomic;    *)
(* what happens between two statements is left to the modules that use     *)
(* this one.                                                               *)
(*                                                                         *)
(* A request is named by its place in creation order, so that "created_at  *)
(* ASC, id ASC" is <.  The column updated_at is kept as the age of the     *)
(* row, in ticks, and only for rows in PROCESSING, the only ones whose     *)
(* updated_at any statement reads; ages above StaleAfter are all alike.    *)
(***************************************************************************)
EXTENDS Naturals, FiniteSets

CONSTANTS
  Request,     \* the rows that may ever be created
  StaleAfter   \* boundedStaleProcessingMs, in ticks

ASSUME RequestAssumption == Request \subseteq Nat
ASSUME StaleAssumption == StaleAfter \in Nat

VARIABLES status, age

tableVars == <<status, age>>

Status == {"NONE", "PENDING", "PROCESSING", "COMPLETED", "FAILED",
           "CANCELLED", "EXPIRED"}

Age == 0 .. StaleAfter + 1

TableTypeOK ==
  /\ status \in [Request -> Status]
  /\ age \in [Request -> Age]

TableInit ==
  /\ status = [r \in Request |-> "NONE"]
  /\ age = [r \in Request |-> 0]

-----------------------------------------------------------------------------
(* Every update of a row also bumps updated_at.                            *)
SetStatus(r, s) ==
  /\ status' = [status EXCEPT ![r] = s]
  /\ age' = [age EXCEPT ![r] = 0]

(* MUTANT of GuardedUpdate: the statement loses its status condition.      *)
UnguardedUpdate(r, from, to) == SetStatus(r, to)

(* updateMany({where: {id, status in from}, data: {status: to}}): when no  *)
(* row matches, nothing is written and the caller gets null.               *)
GuardedUpdate(r, from, to) ==
  IF status[r] \in from THEN SetStatus(r, to) ELSE UNCHANGED tableVars

createRequest(r) ==
  /\ status[r] = "NONE"
  /\ \A q \in Request : status[q] = "NONE" => r <= q
  /\ SetStatus(r, "PENDING")

markRequestCompleted(r) == GuardedUpdate(r, {"PROCESSING"}, "COMPLETED")

(* MUTANT of markRequestFailed: only a request nobody claimed can fail.     *)
markUnclaimedFailed(r) == GuardedUpdate(r, {"PENDING"}, "FAILED")

markRequestFailed(r) == GuardedUpdate(r, {"PROCESSING"}, "FAILED")

markRequestCancelled(r) == GuardedUpdate(r, {"PENDING", "PROCESSING"}, "CANCELLED")

(* MUTANT of markRequestExpired: the condition of the completion.          *)
markClaimedExpired(r) == GuardedUpdate(r, {"PROCESSING"}, "EXPIRED")

markRequestExpired(r) == GuardedUpdate(r, {"COMPLETED"}, "EXPIRED")

(* MUTANT of hasPendingRequest: a claimed request no longer counts.        *)
hasUnclaimedRequest(rows) == \E r \in rows : status[r] = "PENDING"

(* The count > 0 that callers consult before createRequest.                *)
hasPendingRequest(rows) == \E r \in rows : status[r] \in {"PENDING", "PROCESSING"}

-----------------------------------------------------------------------------
(* MUTANT of Stale: "<=" for "<" in the comparison with the cutoff.        *)
StaleTooSoon(r) == status[r] = "PROCESSING" /\ age[r] >= StaleAfter

Stale(r) == status[r] = "PROCESSING" /\ age[r] > StaleAfter

(* MUTANT of Claimable: stale rows are not taken over.                     *)
ClaimableIfPending(r) == status[r] = "PENDING"

Claimable(r) == status[r] = "PENDING" \/ Stale(r)

(* ORDER BY CASE WHEN status = 'PENDING' THEN 0 ELSE 1, created_at, id.    *)
ClaimedBefore(q, r) ==
  \/ status[q] = "PENDING" /\ status[r] # "PENDING"
  \/ status[q] = status[r] /\ q < r

(* The LIMIT first claimable rows among those of the right type.           *)
Candidates(rows, limit) ==
  LET claimable == {r \in rows : Claimable(r)} IN
  {r \in claimable :
     Cardinality({q \in claimable : ClaimedBefore(q, r)}) < limit}

ClaimRows(S) ==
  /\ status' = [r \in Request |-> IF r \in S THEN "PROCESSING" ELSE status[r]]
  /\ age' = [r \in Request |-> IF r \in S THEN 0 ELSE age[r]]

(* Time passes for the rows being processed.                               *)
AgeRows ==
  /\ age' = [r \in Request |->
               IF status[r] = "PROCESSING" /\ age[r] <= StaleAfter
                 THEN age[r] + 1 ELSE age[r]]
  /\ UNCHANGED status
=============================================================================
