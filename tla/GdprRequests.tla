---------------------------- MODULE GdprRequests ----------------------------
(***************************************************************************)
(* The GDPR requests of one type (export, suspension or deletion), the     *)
(* clients that submit them and the workers that process them.             *)
(*                                                                         *)
(* A worker is one invocation of a processPending... method, in any        *)
(* instance: it claims a batch with a single statement, then takes the     *)
(* requests of the batch one after the other, without looking at their     *)
(* rows again, and ends each with a guarded update that says COMPLETED or  *)
(* FAILED.  What the work on a request consists of is not modelled here    *)
(* (GdprExport and GdprDeletion do that): it succeeds or it throws.        *)
(*                                                                         *)
(* The table knows only that a row is PROCESSING and since when, not who   *)
(* processes it: a row that has been PROCESSING for longer than StaleAfter *)
(* is claimed again, whether its worker crashed or is merely slow.         *)
(***************************************************************************)
EXTENDS GdprRepository

CONSTANTS
  Worker, NoWorker,
  Client,                \* concurrent calls of a request... endpoint
  Identity, NoIdentity,
  BatchSize,             \* the limit of one claim
  MaxFaults              \* bound: crashes and database errors

ASSUME NoWorkerAssumption == NoWorker \notin Worker
ASSUME NoIdentityAssumption == NoIdentity \notin Identity
ASSUME BatchAssumption == BatchSize \in Nat \ {0}
ASSUME FaultsAssumption == MaxFaults \in Nat

VARIABLES
  owner,     \* owner[r]: the identity a row belongs to
  calling,   \* calling[c]: the identity client c was found to have no open request for
  pc,        \* pc[w]: what worker w does next
  batch,     \* batch[w]: the claimed requests w has not finished with
  held,      \* held[w]: ticks since w claimed its batch, up to StaleAfter + 1
  faults

workerVars == <<pc, batch, held>>
vars == <<status, age, owner, calling, pc, batch, held, faults>>

(* Every variable stays in its range; in particular no row ever has a      *)
(* status the enumeration RequestStatus does not have.                     *)
TypeOK ==
  /\ TableTypeOK
  /\ owner \in [Request -> Identity \cup {NoIdentity}]
  /\ calling \in [Client -> Identity \cup {NoIdentity}]
  /\ pc \in [Worker -> {"idle", "working", "done", "thrown"}]
  /\ batch \in [Worker -> SUBSET Request]
  /\ held \in [Worker -> Age]
  /\ faults \in 0 .. MaxFaults

Init ==
  /\ TableInit
  /\ owner = [r \in Request |-> NoIdentity]
  /\ calling = [c \in Client |-> NoIdentity]
  /\ pc = [w \in Worker |-> "idle"]
  /\ batch = [w \in Worker |-> {}]
  /\ held = [w \in Worker |-> 0]
  /\ faults = 0

-----------------------------------------------------------------------------
(* The endpoint: the check and the insert are two statements.              *)
RequestChecked(c, i) ==
  /\ calling[c] = NoIdentity
  /\ ~ hasPendingRequest({r \in Request : owner[r] = i})
  /\ calling' = [calling EXCEPT ![c] = i]
  /\ UNCHANGED <<tableVars, owner, workerVars, faults>>

RequestCreated(c) ==
  /\ calling[c] # NoIdentity
  /\ \E r \in Request :
       /\ createRequest(r)
       /\ owner' = [owner EXCEPT ![r] = calling[c]]
  /\ calling' = [calling EXCEPT ![c] = NoIdentity]
  /\ UNCHANGED <<workerVars, faults>>

(* Cancellation, by the deletion lifecycle, of a request it saw PENDING a  *)
(* moment ago; and expiry of a completed export.                           *)
Cancel(r) ==
  /\ markRequestCancelled(r)
  /\ UNCHANGED <<owner, calling, workerVars, faults>>

Expire(r) ==
  /\ markRequestExpired(r)
  /\ UNCHANGED <<owner, calling, workerVars, faults>>

-----------------------------------------------------------------------------
Claim(w) ==
  LET S == Candidates(Request, BatchSize) IN
  /\ pc[w] = "idle"
  /\ S # {}
  /\ ClaimRows(S)
  /\ batch' = [batch EXCEPT ![w] = S]
  /\ held' = [held EXCEPT ![w] = 0]
  /\ pc' = [pc EXCEPT ![w] = "working"]
  /\ UNCHANGED <<owner, calling, faults>>

(* The batch is read back ordered by created_at and processed in order.    *)
IsCurrent(w, r) == r \in batch[w] /\ \A q \in batch[w] : r <= q

Work(w) ==
  /\ pc[w] = "working"
  /\ \E outcome \in {"done", "thrown"} : pc' = [pc EXCEPT ![w] = outcome]
  /\ UNCHANGED <<tableVars, owner, calling, batch, held, faults>>

(* Worker w goes on with the rest of its batch.                            *)
Proceed(w, r) ==
  /\ batch' = [batch EXCEPT ![w] = @ \ {r}]
  /\ pc' = [pc EXCEPT ![w] = IF batch[w] = {r} THEN "idle" ELSE "working"]
  /\ held' = [held EXCEPT ![w] = IF batch[w] = {r} THEN 0 ELSE @]

(* A completion that matches no row is skipped without a word.             *)
Complete(w) ==
  /\ pc[w] = "done"
  /\ \E r \in batch[w] :
       /\ IsCurrent(w, r)
       /\ markRequestCompleted(r)
       /\ Proceed(w, r)
  /\ UNCHANGED <<owner, calling, faults>>

Fail(w) ==
  /\ pc[w] = "thrown"
  /\ \E r \in batch[w] :
       /\ IsCurrent(w, r)
       /\ markRequestFailed(r)
       /\ Proceed(w, r)
  /\ UNCHANGED <<owner, calling, faults>>

Fault == faults < MaxFaults /\ faults' = faults + 1

(* The completing statement throws: the catch block takes over.            *)
CompleteThrows(w) ==
  /\ pc[w] = "done"
  /\ Fault
  /\ pc' = [pc EXCEPT ![w] = "thrown"]
  /\ UNCHANGED <<tableVars, owner, calling, batch, held>>

(* The failing statement throws too: logged, and the row stays PROCESSING. *)
FailThrows(w) ==
  /\ pc[w] = "thrown"
  /\ Fault
  /\ \E r \in batch[w] : IsCurrent(w, r) /\ Proceed(w, r)
  /\ UNCHANGED <<tableVars, owner, calling>>

Crash(w) ==
  /\ pc[w] # "idle"
  /\ Fault
  /\ pc' = [pc EXCEPT ![w] = "idle"]
  /\ batch' = [batch EXCEPT ![w] = {}]
  /\ held' = [held EXCEPT ![w] = 0]
  /\ UNCHANGED <<tableVars, owner, calling>>

Tick ==
  /\ \/ \E r \in Request : status[r] = "PROCESSING" /\ age[r] <= StaleAfter
     \/ \E w \in Worker : batch[w] # {} /\ held[w] <= StaleAfter
  /\ AgeRows
  /\ held' = [w \in Worker |->
                IF batch[w] # {} /\ held[w] <= StaleAfter
                  THEN held[w] + 1 ELSE held[w]]
  /\ UNCHANGED <<owner, calling, pc, batch, faults>>

WorkerStep(w) == Work(w) \/ Complete(w) \/ Fail(w)

Next ==
  \/ \E c \in Client : RequestCreated(c) \/ \E i \in Identity : RequestChecked(c, i)
  \/ \E r \in Request : Cancel(r) \/ Expire(r)
  \/ \E w \in Worker : Claim(w) \/ WorkerStep(w)
  \/ \E w \in Worker : CompleteThrows(w) \/ FailThrows(w) \/ Crash(w)
  \/ Tick

Spec == Init /\ [][Next]_vars

(* Time passes, a started worker goes on, and the processing job is run    *)
(* again and again; nobody is obliged to submit or to cancel.              *)
Fairness ==
  /\ WF_vars(Tick)
  /\ \A w \in Worker : WF_vars(Claim(w)) /\ WF_vars(WorkerStep(w))

FairSpec == Spec /\ Fairness

-----------------------------------------------------------------------------
(* Worker w may still count on r: it claimed r no longer than StaleAfter   *)
(* ago and has not finished with it.                                       *)
Leased(w, r) == r \in batch[w] /\ held[w] <= StaleAfter

(* Two workers never count on the same request at the same time: a row is  *)
(* claimed again only once the claim of whoever holds it has run out,      *)
(* although the table records no owner.  This is what the age check of     *)
(* claimPendingRequestsForProcessing is for.                               *)
ExclusiveLease ==
  \A w1, w2 \in Worker, r \in Request :
    Leased(w1, r) /\ Leased(w2, r) => w1 = w2

Open(r) == status[r] \in {"PENDING", "PROCESSING"}

(* An identity never has two open requests of the same type, the           *)
(* precondition all the request... methods check (409 Conflict).  With one *)
(* client at a time it holds whatever the workers do meanwhile.            *)
OneOpenRequest ==
  \A q, r \in Request : Open(q) /\ Open(r) /\ owner[q] = owner[r] => q = r

(* A request is never worked on by two workers at once, as                 *)
(* GDPR_REQUEST_PROCESSING.md promises; a slow worker refutes it.          *)
OnlyOneWorkerProcesses ==
  \A w1, w2 \in Worker, r \in Request :
    /\ pc[w1] = "working" /\ IsCurrent(w1, r)
    /\ pc[w2] = "working" /\ IsCurrent(w2, r)
    => w1 = w2

(* Every submitted request is decided or cancelled in the end, although    *)
(* workers crash and their database calls fail: nothing is left stuck in   *)
(* PROCESSING.                                                             *)
EveryRequestDecided == \A r \in Request : Open(r) ~> ~ Open(r)

-----------------------------------------------------------------------------
(* The lease the abstract specification speaks of.                         *)
lease ==
  [r \in Request |->
     IF \E w \in Worker : Leased(w, r)
       THEN CHOOSE w \in Worker : Leased(w, r) ELSE NoWorker]

Lifecycle == INSTANCE RequestLifecycle WITH status <- status, lease <- lease

(* The table and its workers do what RequestLifecycle promises: statuses   *)
(* follow the graph, and a grant never takes a request from a worker that  *)
(* holds a lease on it.                                                    *)
ImplementsLifecycle == Lifecycle!Spec
=============================================================================
