---------------------------- MODULE GdprDeletion ----------------------------
(***************************************************************************)
(* The deletion of an account: the request, its immediate effects, and the *)
(* erasure by a background worker.                                         *)
(*                                                                         *)
(* requestDeletion is a sequence of statements without a transaction: it   *)
(* marks the identity first (which locks the user out), creates the row    *)
(* the workers look for, saves the address for the confirmation and then   *)
(* erases the tables that can still cause messages to be sent.  A worker   *)
(* may claim the row as soon as it exists.                                 *)
(*                                                                         *)
(* Two jobs look for work.  processPendingDeletions, which the operations  *)
(* scripts run, takes any row.  processExpiredGracePeriods looks for the   *)
(* identities whose grace period is over; no script runs it, and           *)
(* GracePeriodJob says whether a deployment does.                          *)
(*                                                                         *)
(* Left out because they only refuse or do not touch this state: legal     *)
(* holds and suspension (a refused request changes nothing), the           *)
(* cancellation of notifications and exports, and cancelDeletion, which    *)
(* always refuses (DELETION_CANCELLATION_ALLOWED is false).                *)
(***************************************************************************)
EXTENDS GdprRepository

CONSTANTS
  Worker, Client,
  Identity, NoIdentity, NoRequest,
  GracePeriodJob,   \* whether processExpiredGracePeriods is scheduled
  MaxFaults         \* bound: crashes, database errors

ASSUME NoIdentityAssumption == NoIdentity \notin Identity
ASSUME NoRequestAssumption == NoRequest \notin Request
ASSUME JobAssumption == GracePeriodJob \in BOOLEAN
ASSUME FaultsAssumption == MaxFaults \in Nat

VARIABLES
  owner,       \* owner[r]: the identity a row belongs to
  deletedAt,   \* deletedAt[i]: not set, set, or set for the whole grace period
  anonymized,  \* anonymized[i]: the mark of a deleted identity
  data,        \* data[i]: the kinds of tables that still have rows of i
  writing,     \* identities with a call under way that passed the status guard
  late,        \* history: those whose call wrote after the deletion was requested
  emails,      \* the rows of gdprDeletionEmail
  logged,      \* logged[r]: entries with the final status of r in the audit log
  step,        \* step[c]: where in requestDeletion client c is
  who,         \* who[c]: its identity
  row,         \* row[c]: the request it created
  stage,       \* stage[w]: what worker w does next
  task,        \* task[w]: the request w works on
  target,      \* target[w]: the identity w finalizes
  faults

identityVars == <<deletedAt, anonymized, data, writing, late>>
recordVars == <<emails, logged>>
clientVars == <<step, who, row>>
workerVars == <<stage, task, target>>
vars == <<status, age, owner, identityVars, recordVars, clientVars, workerVars, faults>>

(* The notification tables, erased at once, and all the others.            *)
Tables == {"immediate", "personal"}

Steps == {"idle", "marking", "creating", "capturing", "purging"}

Stages == {"idle", "finalizing", "recreating", "reclaiming", "claimed", "erased",
           "marked", "logging", "mailing", "failing", "reporting"}

(* Every variable stays in its range: rows, identities, callers, workers.  *)
TypeOK ==
  /\ TableTypeOK
  /\ owner \in [Request -> Identity \cup {NoIdentity}]
  /\ deletedAt \in [Identity -> {"unset", "grace", "over"}]
  /\ anonymized \in [Identity -> BOOLEAN]
  /\ data \in [Identity -> SUBSET Tables]
  /\ writing \subseteq Identity /\ late \subseteq Identity
  /\ emails \subseteq Request
  /\ logged \in [Request -> Nat]
  /\ step \in [Client -> Steps]
  /\ who \in [Client -> Identity \cup {NoIdentity}]
  /\ row \in [Client -> Request \cup {NoRequest}]
  /\ stage \in [Worker -> Stages]
  /\ task \in [Worker -> Request \cup {NoRequest}]
  /\ target \in [Worker -> Identity \cup {NoIdentity}]
  /\ faults \in 0 .. MaxFaults

Init ==
  /\ TableInit
  /\ owner = [r \in Request |-> NoIdentity]
  /\ deletedAt = [i \in Identity |-> "unset"]
  /\ anonymized = [i \in Identity |-> FALSE]
  /\ data = [i \in Identity |-> Tables]
  /\ writing = {} /\ late = {}
  /\ emails = {}
  /\ logged = [r \in Request |-> 0]
  /\ step = [c \in Client |-> "idle"]
  /\ who = [c \in Client |-> NoIdentity]
  /\ row = [c \in Client |-> NoRequest]
  /\ stage = [w \in Worker |-> "idle"]
  /\ task = [w \in Worker |-> NoRequest]
  /\ target = [w \in Worker |-> NoIdentity]
  /\ faults = 0

Fault == faults < MaxFaults /\ faults' = faults + 1

Rows(i) == {r \in Request : owner[r] = i}

-----------------------------------------------------------------------------
(* The user.  IdentityStatusGuard looks at the identity when a call comes  *)
(* in; the call writes later.                                              *)
Enter(i) ==
  /\ deletedAt[i] = "unset" /\ ~ anonymized[i] /\ i \notin writing
  /\ writing' = writing \cup {i}
  /\ UNCHANGED <<tableVars, owner, deletedAt, anonymized, data, late, recordVars,
                 clientVars, workerVars, faults>>

Write(i) ==
  /\ i \in writing
  /\ writing' = writing \ {i}
  /\ data' = [data EXCEPT ![i] = Tables]
  /\ late' = IF deletedAt[i] = "unset" THEN late ELSE late \cup {i}
  /\ UNCHANGED <<tableVars, owner, deletedAt, anonymized, recordVars, clientVars,
                 workerVars, faults>>

GracePasses(i) ==
  /\ deletedAt[i] = "grace"
  /\ deletedAt' = [deletedAt EXCEPT ![i] = "over"]
  /\ UNCHANGED <<tableVars, owner, anonymized, data, writing, late, recordVars,
                 clientVars, workerVars, faults>>

-----------------------------------------------------------------------------
(* requestDeletion, one action per statement that changes something.       *)
Continue(c, s) == step' = [step EXCEPT ![c] = s] /\ UNCHANGED <<who, row>>

Leave(c) ==
  /\ step' = [step EXCEPT ![c] = "idle"]
  /\ who' = [who EXCEPT ![c] = NoIdentity]
  /\ row' = [row EXCEPT ![c] = NoRequest]

requestDeletion(c, i) ==
  /\ step[c] = "idle"
  /\ ~ anonymized[i] /\ deletedAt[i] = "unset"
  /\ ~ hasPendingRequest(Rows(i))
  /\ step' = [step EXCEPT ![c] = "marking"]
  /\ who' = [who EXCEPT ![c] = i]
  /\ UNCHANGED <<tableVars, owner, identityVars, recordVars, row, workerVars, faults>>

markAsPendingDeletion(c) ==
  /\ step[c] = "marking"
  /\ deletedAt' = [deletedAt EXCEPT ![who[c]] = "grace"]
  /\ Continue(c, "creating")
  /\ UNCHANGED <<tableVars, owner, anonymized, data, writing, late, recordVars,
                 workerVars, faults>>

CreateRow(c) ==
  /\ step[c] = "creating"
  /\ \E r \in Request :
       /\ createRequest(r)
       /\ owner' = [owner EXCEPT ![r] = who[c]]
       /\ row' = [row EXCEPT ![c] = r]
  /\ step' = [step EXCEPT ![c] = "capturing"]
  /\ UNCHANGED <<identityVars, recordVars, who, workerVars, faults>>

(* MUTANT of captureEmailForDeletion: without an address the call returns. *)
captureOrReturn(c) ==
  /\ step[c] = "capturing"
  /\ \/ emails' = emails \cup {row[c]} /\ Continue(c, "purging")
     \/ emails' = emails /\ Leave(c)
  /\ UNCHANGED <<tableVars, owner, identityVars, logged, workerVars, faults>>

(* An address is saved if the token has one and the insert succeeds.       *)
captureEmailForDeletion(c) ==
  /\ step[c] = "capturing"
  /\ emails' \in {emails, emails \cup {row[c]}}
  /\ Continue(c, "purging")
  /\ UNCHANGED <<tableVars, owner, identityVars, logged, workerVars, faults>>

deleteImmediateTables(c) ==
  /\ step[c] = "purging"
  /\ data' = [data EXCEPT ![who[c]] = @ \ {"immediate"}]
  /\ Leave(c)
  /\ UNCHANGED <<tableVars, owner, deletedAt, anonymized, writing, late, recordVars,
                 workerVars, faults>>

(* An exception or a crash; what was done stays done.                      *)
Interrupted(c) ==
  /\ step[c] # "idle"
  /\ Fault
  /\ Leave(c)
  /\ UNCHANGED <<tableVars, owner, identityVars, recordVars, workerVars>>

-----------------------------------------------------------------------------
Goto(w, s) == stage' = [stage EXCEPT ![w] = s] /\ UNCHANGED <<task, target>>

Idle(w) ==
  /\ stage' = [stage EXCEPT ![w] = "idle"]
  /\ task' = [task EXCEPT ![w] = NoRequest]
  /\ target' = [target EXCEPT ![w] = NoIdentity]

ClaimFrom(w, rows) ==
  \E r \in Candidates(rows, 1) :
    /\ ClaimRows({r})
    /\ task' = [task EXCEPT ![w] = r]
    /\ stage' = [stage EXCEPT ![w] = "claimed"]
    /\ target' = [target EXCEPT ![w] = NoIdentity]

(* processPendingDeletions, with batches of one.                           *)
Claim(w) ==
  /\ stage[w] = "idle"
  /\ ClaimFrom(w, Request)
  /\ UNCHANGED <<owner, identityVars, recordVars, clientVars, faults>>

(* processExpiredGracePeriods finds an identity.                           *)
FindExpired(w) ==
  /\ GracePeriodJob
  /\ stage[w] = "idle"
  /\ \E i \in Identity :
       /\ deletedAt[i] = "over" /\ ~ anonymized[i]
       /\ target' = [target EXCEPT ![w] = i]
  /\ stage' = [stage EXCEPT ![w] = "finalizing"]
  /\ UNCHANGED <<tableVars, owner, identityVars, recordVars, clientVars, task, faults>>

(* finalizeDeletion claims a row of that identity, ...                     *)
ClaimForIdentity(w) ==
  /\ stage[w] \in {"finalizing", "reclaiming"}
  /\ ClaimFrom(w, Rows(target[w]))
  /\ UNCHANGED <<owner, identityVars, recordVars, clientVars, faults>>

(* ... finds none and creates one, or finds even that one taken.           *)
NothingToClaim(w) ==
  /\ stage[w] \in {"finalizing", "reclaiming"}
  /\ Candidates(Rows(target[w]), 1) = {}
  /\ IF stage[w] = "finalizing" THEN Goto(w, "recreating") ELSE Idle(w)
  /\ UNCHANGED <<tableVars, owner, identityVars, recordVars, clientVars, faults>>

(* MUTANT of Recreate: an identity without a row is passed over.           *)
RecreateNothing(w) ==
  /\ stage[w] = "recreating"
  /\ Idle(w)
  /\ UNCHANGED <<tableVars, owner, identityVars, recordVars, clientVars, faults>>

Recreate(w) ==
  /\ stage[w] = "recreating"
  /\ \E r \in Request :
       /\ createRequest(r)
       /\ owner' = [owner EXCEPT ![r] = target[w]]
  /\ Goto(w, "reclaiming")
  /\ UNCHANGED <<identityVars, recordVars, clientVars, faults>>

-----------------------------------------------------------------------------
(* processClaimedDeletionRequest.  MUTANT of anonymize: with the list of   *)
(* tables of the immediate deletion.                                       *)
anonymizeImmediate(w) ==
  /\ stage[w] = "claimed"
  /\ data' = [data EXCEPT ![owner[task[w]]] = @ \ {"immediate"}]
  /\ Goto(w, "erased")
  /\ UNCHANGED <<tableVars, owner, deletedAt, anonymized, writing, late, recordVars,
                 clientVars, faults>>

anonymize(w) ==
  /\ stage[w] = "claimed"
  /\ data' = [data EXCEPT ![owner[task[w]]] = {}]
  /\ Goto(w, "erased")
  /\ UNCHANGED <<tableVars, owner, deletedAt, anonymized, writing, late, recordVars,
                 clientVars, faults>>

anonymizeIdentity(w) ==
  /\ stage[w] = "erased"
  /\ anonymized' = [anonymized EXCEPT ![owner[task[w]]] = TRUE]
  /\ Goto(w, "marked")
  /\ UNCHANGED <<tableVars, owner, deletedAt, data, writing, late, recordVars, clientVars,
                 faults>>

(* A worker whose update matches no row leaves it at that.                 *)
Complete(w) ==
  /\ stage[w] = "marked"
  /\ markRequestCompleted(task[w])
  /\ IF status[task[w]] = "PROCESSING" THEN Goto(w, "logging") ELSE Idle(w)
  /\ UNCHANGED <<owner, identityVars, recordVars, clientVars, faults>>

(* MUTANT of Fail: the result of the update is not looked at.              *)
FailUnheeded(w) ==
  /\ stage[w] = "failing"
  /\ markRequestFailed(task[w])
  /\ Goto(w, "reporting")
  /\ UNCHANGED <<owner, identityVars, recordVars, clientVars, faults>>

Fail(w) ==
  /\ stage[w] = "failing"
  /\ markRequestFailed(task[w])
  /\ IF status[task[w]] = "PROCESSING" THEN Goto(w, "reporting") ELSE Idle(w)
  /\ UNCHANGED <<owner, identityVars, recordVars, clientVars, faults>>

(* The audit entry with the final status of the request.                   *)
Log(w) ==
  /\ stage[w] \in {"logging", "reporting"}
  /\ logged' = [logged EXCEPT ![task[w]] = @ + 1]
  /\ IF stage[w] = "logging" THEN Goto(w, "mailing") ELSE Idle(w)
  /\ UNCHANGED <<tableVars, owner, identityVars, emails, clientVars, faults>>

(* The address is deleted whether or not the message could be sent.        *)
sendAndDeleteConfirmation(w) ==
  /\ stage[w] = "mailing"
  /\ emails' = emails \ {task[w]}
  /\ Idle(w)
  /\ UNCHANGED <<tableVars, owner, identityVars, logged, clientVars, faults>>

(* An exception.  In the middle of the tables, any of them may be gone.    *)
Throw(w) ==
  /\ stage[w] # "idle"
  /\ Fault
  /\ IF stage[w] = "claimed"
       THEN \E rest \in SUBSET data[owner[task[w]]] :
              data' = [data EXCEPT ![owner[task[w]]] = rest]
       ELSE UNCHANGED data
  /\ IF stage[w] \in {"claimed", "erased", "marked", "logging", "mailing"}
       THEN Goto(w, "failing") ELSE Idle(w)
  /\ UNCHANGED <<tableVars, owner, deletedAt, anonymized, writing, late, recordVars,
                 clientVars>>

Crash(w) ==
  /\ stage[w] # "idle"
  /\ Fault
  /\ Idle(w)
  /\ UNCHANGED <<tableVars, owner, identityVars, recordVars, clientVars>>

Tick ==
  /\ \E r \in Request : status[r] = "PROCESSING" /\ age[r] <= StaleAfter
  /\ AgeRows
  /\ UNCHANGED <<owner, identityVars, recordVars, clientVars, workerVars, faults>>

-----------------------------------------------------------------------------
ClientStep(c) ==
  \/ markAsPendingDeletion(c) \/ CreateRow(c)
  \/ captureEmailForDeletion(c) \/ deleteImmediateTables(c)

WorkerStep(w) ==
  \/ ClaimForIdentity(w) \/ NothingToClaim(w) \/ Recreate(w)
  \/ anonymize(w) \/ anonymizeIdentity(w) \/ Complete(w) \/ Fail(w) \/ Log(w)
  \/ sendAndDeleteConfirmation(w)

Next ==
  \/ \E i \in Identity : Enter(i) \/ Write(i) \/ GracePasses(i)
  \/ \E c \in Client :
       \/ \E i \in Identity : requestDeletion(c, i)
       \/ ClientStep(c) \/ Interrupted(c)
  \/ \E w \in Worker : Claim(w) \/ FindExpired(w) \/ WorkerStep(w) \/ Throw(w) \/ Crash(w)
  \/ Tick

Spec == Init /\ [][Next]_vars

(* Time passes, calls go on, and the jobs are run again and again.         *)
Fairness ==
  /\ WF_vars(Tick)
  /\ \A i \in Identity : WF_vars(GracePasses(i)) /\ WF_vars(Write(i))
  /\ \A c \in Client : WF_vars(ClientStep(c))
  /\ \A w \in Worker :
       WF_vars(Claim(w)) /\ WF_vars(FindExpired(w)) /\ WF_vars(WorkerStep(w))

FairSpec == Spec /\ Fairness

-----------------------------------------------------------------------------
(* A request that says COMPLETED has done its work: the identity is marked *)
(* and none of its rows is left, whichever of several workers got there    *)
(* and however often it failed half way.  Only a call that had passed the  *)
(* status guard before the deletion was requested can have left something. *)
CompletedMeansErased ==
  \A r \in Request : status[r] = "COMPLETED" =>
    /\ anonymized[owner[r]]
    /\ data[owner[r]] = {} \/ owner[r] \in late

(* "Write exactly ONE audit log entry per deletion": never two, although   *)
(* two workers may end the same request.                                   *)
OneVerdictLogged == \A r \in Request : logged[r] <= 1

(* The notification tables of an identity do not outlive the request call  *)
(* that created the row, unless the call was interrupted.                  *)
NothingLeftToSend ==
  \A r \in Request : status[r] # "NONE" /\ faults = 0 =>
    \/ "immediate" \notin data[owner[r]]
    \/ owner[r] \in late
    \/ \E c \in Client : who[c] = owner[r]

(* Who asks for deletion is deleted in the end, also when the call or the  *)
(* worker fails half way.                                                  *)
DeletionIsCarriedOut ==
  \A i \in Identity : deletedAt[i] # "unset" ~> anonymized[i]

(* "Irreversibly anonymizes data after the grace period."                  *)
GracePeriodIsRespected ==
  [][\A i \in Identity : ~ anonymized[i] /\ anonymized'[i] => deletedAt[i] = "over"]_vars

(* "Record is deleted immediately after send attempt": no address is kept  *)
(* once the request has completed and nobody is busy with it.              *)
NoAddressKept ==
  \A r \in emails : status[r] = "COMPLETED" =>
    \/ \E w \in Worker : task[w] = r
    \/ \E c \in Client : row[c] = r
=============================================================================
