--------------------------- MODULE GdprSuspension ---------------------------
(***************************************************************************)
(* The suspension of an account: its request, the deferred phase, recovery *)
(* by the user, and the finalization of a suspension nobody recovered.     *)
(*                                                                         *)
(* Everything is a sequence of statements without a transaction.  The rows *)
(* of an account are backed up and erased table by table, first the tables *)
(* that can cause messages, by the call, then the others, by a worker; the *)
(* record of the suspension, the flag on the identity and the request row  *)
(* are written in between.  A recovery and the job that finalizes expired  *)
(* suspensions update the record without looking at what it says by then.  *)
(*                                                                         *)
(* Callers are requests of users, which may overlap; workers run both      *)
(* jobs.  Left out: warnings before the deadline, hooks, the audit log.    *)
(***************************************************************************)
EXTENDS GdprRepository

CONSTANTS
  Caller, Worker,
  Identity, NoIdentity,
  Suspension, NoSuspension,   \* the records that may ever be created
  NoRequest,
  MaxFaults                   \* bound: crashes, database errors

ASSUME NoIdentityAssumption == NoIdentity \notin Identity
ASSUME SuspensionAssumption == Suspension \subseteq Nat
ASSUME NoSuspensionAssumption == NoSuspension \notin Suspension
ASSUME NoRequestAssumption == NoRequest \notin Request
ASSUME FaultsAssumption == MaxFaults \in Nat
ASSUME ActorAssumption == Caller \cap Worker = {}

VARIABLES
  owner,       \* owner[r]: the identity a request row belongs to
  isSuspended, \* isSuspended[i]: the flag that locks the user out
  cooling,     \* identities recovered less than recoveryCooldownHours ago
  content,     \* content[i][t]: the kinds of rows i has in table t
  state,       \* state[s]: lifecycleState of a suspension record
  holder,      \* holder[s]: its identity
  closed,      \* the suspensions whose suspendedUntil has passed
  backup,      \* backup[s][t]: the rows saved for s of table t, if any
  used,        \* used[s]: the tables whose backup has been used
  overlapped,  \* history: identities that asked for suspension during another call
  skipped,     \* history: suspensions a row of which an error kept from coming back
  reopened,    \* history: suspensions a recovery has begun to restore
  stage,       \* stage[p]: what caller or worker p does next
  who,         \* who[p]: the identity it works on
  record,      \* record[p]: the suspension it works on
  task,        \* task[p]: the request it works on
  todo,        \* todo[p]: the tables it has yet to process, the current one included
  memory,      \* memory[p]: the rows it has read, by table
  faults

accountVars == <<isSuspended, cooling, content>>
recordVars == <<state, holder, closed, overlapped>>
backupVars == <<backup, used, skipped, reopened>>
procVars == <<stage, who, record, task, todo, memory>>
vars == <<tableVars, owner, accountVars, recordVars, backupVars, procVars, faults>>

Process == Caller \cup Worker

(* settings stands for the notification profile and channels for the       *)
(* tables that hang on it; profile is the one table whose rows are kept    *)
(* with placeholders; log are the notifications the user can see.          *)
Immediate == {"channels", "settings"}
Table == Immediate \cup {"profile", "log"}
Row == {"original", "placeholder", "notice"}
Nothing == [t \in Table |-> {}]

State == {"NONE", "SUSPENDING", "SUSPENDED", "RECOVERED", "EXPIRED"}

Calling == {"suspending", "recording", "requesting"}
Anonymizing == {"resolving", "loading", "saving", "erasing"}
Recovering == {"validated", "collecting", "restoring", "marking", "recovering",
               "resuming"}
Deferring == {"claimed", "completing", "finishing", "failing"}
Finalizing == {"purging", "expiring"}
Stages == {"idle", "notifying"} \cup Calling \cup Anonymizing \cup Recovering
            \cup Deferring \cup Finalizing

(* Every variable stays in its range: rows, accounts, records, processes.  *)
TypeOK ==
  /\ TableTypeOK
  /\ owner \in [Request -> Identity \cup {NoIdentity}]
  /\ isSuspended \in [Identity -> BOOLEAN]
  /\ cooling \subseteq Identity
  /\ content \in [Identity -> [Table -> SUBSET Row]]
  /\ state \in [Suspension -> State]
  /\ holder \in [Suspension -> Identity \cup {NoIdentity}]
  /\ closed \subseteq Suspension
  /\ backup \in [Suspension -> [Table -> SUBSET Row]]
  /\ used \in [Suspension -> SUBSET Table]
  /\ overlapped \subseteq Identity
  /\ skipped \subseteq Suspension /\ reopened \subseteq Suspension
  /\ stage \in [Process -> Stages]
  /\ who \in [Process -> Identity \cup {NoIdentity}]
  /\ record \in [Process -> Suspension \cup {NoSuspension}]
  /\ task \in [Process -> Request \cup {NoRequest}]
  /\ todo \in [Process -> SUBSET Table]
  /\ memory \in [Process -> [Table -> SUBSET Row]]
  /\ faults \in 0 .. MaxFaults

Init ==
  /\ TableInit
  /\ owner = [r \in Request |-> NoIdentity]
  /\ isSuspended = [i \in Identity |-> FALSE]
  /\ cooling = {}
  /\ content = [i \in Identity |-> [t \in Table |-> {"original"}]]
  /\ state = [s \in Suspension |-> "NONE"]
  /\ holder = [s \in Suspension |-> NoIdentity]
  /\ closed = {}
  /\ backup = [s \in Suspension |-> Nothing]
  /\ used = [s \in Suspension |-> {}]
  /\ overlapped = {} /\ skipped = {} /\ reopened = {}
  /\ stage = [p \in Process |-> "idle"]
  /\ who = [p \in Process |-> NoIdentity]
  /\ record = [p \in Process |-> NoSuspension]
  /\ task = [p \in Process |-> NoRequest]
  /\ todo = [p \in Process |-> {}]
  /\ memory = [p \in Process |-> Nothing]
  /\ faults = 0

Fault == faults < MaxFaults /\ faults' = faults + 1

Goto(p, g) == stage' = [stage EXCEPT ![p] = g]

(* p is done with its call or with the request it works on.                *)
Leave(p) ==
  /\ Goto(p, "idle")
  /\ who' = [who EXCEPT ![p] = NoIdentity]
  /\ record' = [record EXCEPT ![p] = NoSuspension]
  /\ task' = [task EXCEPT ![p] = NoRequest]
  /\ todo' = [todo EXCEPT ![p] = {}]
  /\ memory' = [memory EXCEPT ![p] = Nothing]

Begin(p, g, i, s) ==
  /\ stage[p] = "idle"
  /\ Goto(p, g)
  /\ who' = [who EXCEPT ![p] = i]
  /\ record' = [record EXCEPT ![p] = s]

RequestsOf(i) == {r \in Request : owner[r] = i}
SuspensionsOf(i) == {s \in Suspension : holder[s] = i}

hasActiveSuspension(i) ==
  \E s \in SuspensionsOf(i) : state[s] \in {"SUSPENDING", "SUSPENDED"}

-----------------------------------------------------------------------------
(* requestSuspension.  The status guard and the checks of the service,     *)
(* then one action per statement.                                          *)
requestSuspension(c, i) ==
  /\ ~ isSuspended[i]
  /\ ~ hasPendingRequest(RequestsOf(i))
  /\ ~ hasActiveSuspension(i)
  /\ i \notin cooling
  /\ Begin(c, "suspending", i, NoSuspension)
  /\ overlapped' =
       IF \E d \in Caller : who[d] = i THEN overlapped \cup {i} ELSE overlapped
  /\ UNCHANGED <<tableVars, owner, accountVars, state, holder, closed, backupVars, task,
                 todo, memory, faults>>

suspendIdentity(c) ==
  /\ stage[c] = "suspending"
  /\ isSuspended' = [isSuspended EXCEPT ![who[c]] = TRUE]
  /\ Goto(c, "recording")
  /\ UNCHANGED <<tableVars, owner, cooling, content, recordVars, backupVars, who, record,
                 task, todo, memory, faults>>

CreateRecord(c) ==
  /\ stage[c] = "recording"
  /\ \E s \in Suspension :
       /\ state[s] = "NONE" /\ \A q \in Suspension : state[q] = "NONE" => s <= q
       /\ state' = [state EXCEPT ![s] = "SUSPENDING"]
       /\ holder' = [holder EXCEPT ![s] = who[c]]
       /\ record' = [record EXCEPT ![c] = s]
  /\ Goto(c, "resolving")
  /\ UNCHANGED <<tableVars, owner, accountVars, closed, overlapped, backupVars, who, task,
                 todo, memory, faults>>

CreateRequest(c) ==
  /\ stage[c] = "requesting"
  /\ \E r \in Request :
       /\ createRequest(r)
       /\ owner' = [owner EXCEPT ![r] = who[c]]
  /\ Leave(c)
  /\ UNCHANGED <<accountVars, recordVars, backupVars, faults>>

-----------------------------------------------------------------------------
(* Tables are erased children first and restored parents first; others go  *)
(* in the order of the registry.  MUTANT of EraseOrder: parents first.     *)
EraseOrderAsRegistered == [settings |-> 1, channels |-> 2, profile |-> 3, log |-> 4]

EraseOrder == [channels |-> 1, settings |-> 2, profile |-> 3, log |-> 4]

RestoreOrder == [settings |-> 1, profile |-> 2, log |-> 3, channels |-> 4]

First(tables, order) == CHOOSE t \in tables : \A q \in tables : order[t] <= order[q]

ToErase(p) == First(todo[p], EraseOrder)

(* anonymize in mode SUSPEND, for a call and for a worker alike.  Whether  *)
(* there are channels is known from the profile they hang on, read before  *)
(* anything is erased.                                                     *)
TablesOf(p) ==
  IF p \in Worker THEN Table \ Immediate
  ELSE IF content[who[p]]["settings"] = {} THEN {"settings"} ELSE Immediate

Resolve(p) ==
  /\ stage[p] = "resolving"
  /\ todo' = [todo EXCEPT ![p] = TablesOf(p)]
  /\ Goto(p, "loading")
  /\ UNCHANGED <<tableVars, owner, accountVars, recordVars, backupVars, who, record,
                 task, memory, faults>>

(* On to the next table, or to what follows the last one.                  *)
Advance(p, t, again, after) ==
  /\ todo' = [todo EXCEPT ![p] = @ \ {t}]
  /\ Goto(p, IF todo[p] = {t} THEN after ELSE again)

AfterTables(p) == IF p \in Caller THEN "requesting" ELSE "completing"

(* A table without rows is skipped, without a backup.                      *)
LoadRows(p) ==
  /\ stage[p] = "loading"
  /\ LET t == ToErase(p)
         rows == content[who[p]][t] IN
     /\ memory' = [memory EXCEPT ![p][t] = rows]
     /\ IF rows = {} THEN Advance(p, t, "loading", AfterTables(p))
                     ELSE Goto(p, "saving") /\ UNCHANGED todo
  /\ UNCHANGED <<tableVars, owner, accountVars, recordVars, backupVars, who, record,
                 task, faults>>

(* MUTANT of Abort: a table that fails is passed over.                     *)
CarryOn(p) ==
  IF p \in Worker THEN Goto(p, "completing") /\ UNCHANGED <<who, record, task, todo, memory>>
                  ELSE Leave(p)

(* What an exception leads to: the worker records the failure.             *)
Abort(p) ==
  IF p \in Worker THEN Goto(p, "failing") /\ UNCHANGED <<who, record, task, todo, memory>>
                  ELSE Leave(p)

(* MUTANT of CreateBackup: an existing backup is replaced.                 *)
ReplaceBackup(p) ==
  /\ stage[p] = "saving"
  /\ backup' = [backup EXCEPT ![record[p]][ToErase(p)] = memory[p][ToErase(p)]]
  /\ Goto(p, "erasing")
  /\ UNCHANGED <<tableVars, owner, accountVars, recordVars, used, skipped, reopened, who,
                 record, task, todo, memory, faults>>

(* One backup per suspension and table: the constraint refuses a second.   *)
CreateBackup(p) ==
  /\ stage[p] = "saving"
  /\ LET s == record[p]
         t == ToErase(p) IN
     IF backup[s][t] = {}
       THEN /\ backup' = [backup EXCEPT ![s][t] = memory[p][t]]
            /\ Goto(p, "erasing")
            /\ UNCHANGED <<who, record, task, todo, memory>>
       ELSE Abort(p) /\ UNCHANGED backup
  /\ UNCHANGED <<tableVars, owner, accountVars, recordVars, used, skipped, reopened,
                 faults>>

(* Rows are deleted, with the rows that hang on them, or overwritten.      *)
Erased(rows, t) ==
  CASE t = "profile" ->
         [rows EXCEPT !["profile"] = IF @ = {} THEN {} ELSE {"placeholder"}]
    [] t = "settings" -> [rows EXCEPT !["settings"] = {}, !["channels"] = {}]
    [] OTHER -> [rows EXCEPT ![t] = {}]

EraseRows(p) ==
  /\ stage[p] = "erasing"
  /\ content' = [content EXCEPT ![who[p]] = Erased(@, ToErase(p))]
  /\ Advance(p, ToErase(p), "loading", AfterTables(p))
  /\ UNCHANGED <<tableVars, owner, isSuspended, cooling, recordVars, backupVars, who,
                 record, task, memory, faults>>

-----------------------------------------------------------------------------
(* processPendingSuspensions, with batches of one.                         *)
Claim(w) ==
  /\ stage[w] = "idle"
  /\ \E r \in Candidates(Request, 1) :
       /\ ClaimRows({r})
       /\ task' = [task EXCEPT ![w] = r]
       /\ who' = [who EXCEPT ![w] = owner[r]]
  /\ Goto(w, "claimed")
  /\ UNCHANGED <<owner, accountVars, recordVars, backupVars, record, todo, memory, faults>>

(* The latest suspension that is in progress; without one the request fails. *)
FindRecord(w) ==
  /\ stage[w] = "claimed"
  /\ LET running == {s \in SuspensionsOf(who[w]) : state[s] = "SUSPENDING"} IN
     IF running = {}
       THEN Goto(w, "failing") /\ UNCHANGED record
       ELSE /\ \E s \in running :
                 /\ \A q \in running : q <= s
                 /\ record' = [record EXCEPT ![w] = s]
            /\ Goto(w, "resolving")
  /\ UNCHANGED <<tableVars, owner, accountVars, recordVars, backupVars, who, task, todo,
                 memory, faults>>

(* MUTANT of Complete: the record is not taken to SUSPENDED.               *)
CompleteOnly(w) ==
  /\ stage[w] = "completing"
  /\ markRequestCompleted(task[w])
  /\ Leave(w)
  /\ UNCHANGED <<owner, accountVars, recordVars, backupVars, faults>>

Complete(w) ==
  /\ stage[w] = "completing"
  /\ markRequestCompleted(task[w])
  /\ IF status[task[w]] = "PROCESSING"
       THEN Goto(w, "finishing") /\ UNCHANGED <<who, record, task, todo, memory>>
       ELSE Leave(w)
  /\ UNCHANGED <<owner, accountVars, recordVars, backupVars, faults>>

Finish(w) ==
  /\ stage[w] = "finishing"
  /\ state' = [state EXCEPT ![record[w]] = "SUSPENDED"]
  /\ Goto(w, "notifying")
  /\ UNCHANGED <<tableVars, owner, accountVars, holder, closed, overlapped, backupVars, who,
                 record, task, todo, memory, faults>>

Fail(w) ==
  /\ stage[w] = "failing"
  /\ markRequestFailed(task[w])
  /\ Leave(w)
  /\ UNCHANGED <<owner, accountVars, recordVars, backupVars, faults>>

-----------------------------------------------------------------------------
(* recoverAccount.  The preconditions are checked, then the suspension is  *)
(* read again, then its unused backups.                                    *)
Unused(s) == {t \in Table : backup[s][t] # {} /\ t \notin used[s]}

Recoverable(s) == state[s] = "SUSPENDED" /\ s \notin closed /\ Unused(s) # {}

recoverAccount(c, i) ==
  /\ isSuspended[i]
  /\ \E s \in SuspensionsOf(i) : Recoverable(s)
  /\ Begin(c, "validated", i, NoSuspension)
  /\ UNCHANGED <<tableVars, owner, accountVars, recordVars, backupVars, task, todo,
                 memory, faults>>

getActiveSuspension(c) ==
  /\ stage[c] = "validated"
  /\ LET active == {s \in SuspensionsOf(who[c]) : state[s] = "SUSPENDED"} IN
     IF active = {}
       THEN Leave(c)
       ELSE /\ \E s \in active : record' = [record EXCEPT ![c] = s]
            /\ Goto(c, "collecting")
            /\ UNCHANGED <<who, task, todo, memory>>
  /\ UNCHANGED <<tableVars, owner, accountVars, recordVars, backupVars, faults>>

CollectBackups(c) ==
  /\ stage[c] = "collecting"
  /\ LET s == record[c] IN
     /\ todo' = [todo EXCEPT ![c] = Unused(s)]
     /\ memory' = [memory EXCEPT ![c] = backup[s]]
     /\ Goto(c, IF Unused(s) = {} THEN "recovering" ELSE "restoring")
  /\ UNCHANGED <<tableVars, owner, accountVars, recordVars, backupVars, who, record,
                 task, faults>>

ToRestore(c) == First(todo[c], RestoreOrder)

(* Rows come back by their id: that of the profile is still there.         *)
Restored(rows, t, saved) ==
  [rows EXCEPT ![t] = IF t = "profile" THEN saved ELSE @ \cup saved]

(* A row that cannot be written (channels without settings, or an error)   *)
(* is logged and passed over.                                              *)
RestoreRows(c) ==
  /\ stage[c] = "restoring"
  /\ LET i == who[c]
         t == ToRestore(c)
         lacksParent == t = "channels" /\ content[i]["settings"] = {} IN
     \/ /\ ~ lacksParent
        /\ content' = [content EXCEPT ![i] = Restored(@, t, memory[c][t])]
        /\ UNCHANGED <<skipped, faults>>
     \/ /\ IF lacksParent
             THEN UNCHANGED <<skipped, faults>>
             ELSE Fault /\ skipped' = skipped \cup {record[c]}
        /\ UNCHANGED content
  /\ reopened' = reopened \cup {record[c]}
  /\ Goto(c, "marking")
  /\ UNCHANGED <<tableVars, owner, isSuspended, cooling, recordVars, backup, used, who,
                 record, task, todo, memory>>

(* The update throws when the backup has been deleted meanwhile.           *)
MarkUsed(c) ==
  /\ stage[c] = "marking"
  /\ LET s == record[c]
         t == ToRestore(c) IN
     IF backup[s][t] = {}
       THEN Leave(c) /\ UNCHANGED used
       ELSE /\ used' = [used EXCEPT ![s] = @ \cup {t}]
            /\ Advance(c, t, "restoring", "recovering")
            /\ UNCHANGED <<who, record, task, memory>>
  /\ UNCHANGED <<tableVars, owner, accountVars, recordVars, backup, skipped, reopened,
                 faults>>

MarkRecovered(c) ==
  /\ stage[c] = "recovering"
  /\ state' = [state EXCEPT ![record[c]] = "RECOVERED"]
  /\ cooling' = cooling \cup {who[c]}
  /\ Goto(c, "resuming")
  /\ UNCHANGED <<tableVars, owner, isSuspended, content, holder, closed, overlapped,
                 backupVars, who, record, task, todo, memory, faults>>

(* MUTANT of resumeIdentity: the flag keeps its value.                     *)
stayLocked(c) ==
  /\ stage[c] = "resuming"
  /\ Goto(c, "notifying")
  /\ UNCHANGED <<tableVars, owner, accountVars, recordVars, backupVars, who, record, task,
                 todo, memory, faults>>

resumeIdentity(c) ==
  /\ stage[c] = "resuming"
  /\ isSuspended' = [isSuspended EXCEPT ![who[c]] = FALSE]
  /\ Goto(c, "notifying")
  /\ UNCHANGED <<tableVars, owner, cooling, content, recordVars, backupVars, who, record,
                 task, todo, memory, faults>>

-----------------------------------------------------------------------------
(* processExpiredSuspensions, one suspension at a time.  MUTANT of         *)
(* FindExpired: only suspensions that still have backups are found.        *)
FindExpiredWithBackups(w) ==
  /\ \E s \in closed :
       state[s] = "SUSPENDED" /\ backup[s] # Nothing /\ Begin(w, "purging", holder[s], s)
  /\ UNCHANGED <<tableVars, owner, accountVars, recordVars, backupVars, task, todo,
                 memory, faults>>

FindExpired(w) ==
  /\ \E s \in closed : state[s] = "SUSPENDED" /\ Begin(w, "purging", holder[s], s)
  /\ UNCHANGED <<tableVars, owner, accountVars, recordVars, backupVars, task, todo,
                 memory, faults>>

(* MUTANT of DeleteBackups: a used backup is kept.                         *)
DeleteUnusedBackups(w) ==
  /\ stage[w] = "purging"
  /\ LET s == record[w] IN
     backup' = [backup EXCEPT ![s] = [t \in Table |-> IF t \in used[s] THEN @[t] ELSE {}]]
  /\ Goto(w, "expiring")
  /\ UNCHANGED <<tableVars, owner, accountVars, recordVars, used, skipped, reopened, who,
                 record, task, todo, memory, faults>>

DeleteBackups(w) ==
  /\ stage[w] = "purging"
  /\ backup' = [backup EXCEPT ![record[w]] = Nothing]
  /\ used' = [used EXCEPT ![record[w]] = {}]
  /\ Goto(w, "expiring")
  /\ UNCHANGED <<tableVars, owner, accountVars, recordVars, skipped, reopened, who, record,
                 task, todo, memory, faults>>

MarkExpired(w) ==
  /\ stage[w] = "expiring"
  /\ state' = [state EXCEPT ![record[w]] = "EXPIRED"]
  /\ Goto(w, "notifying")
  /\ UNCHANGED <<tableVars, owner, accountVars, holder, closed, overlapped, backupVars, who,
                 record, task, todo, memory, faults>>

-----------------------------------------------------------------------------
(* The notice of a suspension, a recovery or an expiry.                    *)
Notify(p) ==
  /\ stage[p] = "notifying"
  /\ content' = [content EXCEPT ![who[p]]["log"] = @ \cup {"notice"}]
  /\ Leave(p)
  /\ UNCHANGED <<tableVars, owner, isSuspended, cooling, recordVars, backupVars, faults>>

(* A worker's exception inside the try block of processSuspensionRequest.  *)
Throw(w) ==
  /\ stage[w] \in Anonymizing \cup {"completing", "finishing"}
  /\ Fault
  /\ Abort(w)
  /\ UNCHANGED <<tableVars, owner, accountVars, recordVars, backupVars>>

(* A crash, or an exception nobody handles; what was done stays done.      *)
Crash(p) ==
  /\ stage[p] # "idle"
  /\ Fault
  /\ Leave(p)
  /\ UNCHANGED <<tableVars, owner, accountVars, recordVars, backupVars>>

Tick ==
  /\ \E r \in Request : status[r] = "PROCESSING" /\ age[r] <= StaleAfter
  /\ AgeRows
  /\ UNCHANGED <<owner, accountVars, recordVars, backupVars, procVars, faults>>

(* No suspension takes as long as the window, but a recovery may begin     *)
(* just before it closes.                                                  *)
WindowCloses(s) ==
  /\ state[s] = "SUSPENDED" /\ s \notin closed
  /\ \A p \in Process : who[p] = holder[s] => stage[p] \in Recovering
  /\ closed' = closed \cup {s}
  /\ UNCHANGED <<tableVars, owner, accountVars, state, holder, overlapped, backupVars,
                 procVars, faults>>

(* Nor does any call take as long as the cooldown.                         *)
CooldownPasses(i) ==
  /\ i \in cooling
  /\ \A p \in Process : who[p] # i
  /\ cooling' = cooling \ {i}
  /\ UNCHANGED <<tableVars, owner, isSuspended, content, recordVars, backupVars, procVars,
                 faults>>

-----------------------------------------------------------------------------
CallerStep(c) ==
  \/ suspendIdentity(c) \/ CreateRecord(c) \/ CreateRequest(c)
  \/ getActiveSuspension(c) \/ CollectBackups(c) \/ RestoreRows(c) \/ MarkUsed(c)
  \/ MarkRecovered(c) \/ resumeIdentity(c)

WorkerStep(w) ==
  \/ FindRecord(w) \/ Complete(w) \/ Finish(w) \/ Fail(w)
  \/ DeleteBackups(w) \/ MarkExpired(w)

ProcessStep(p) ==
  Resolve(p) \/ LoadRows(p) \/ CreateBackup(p) \/ EraseRows(p) \/ Notify(p)

Next ==
  \/ \E c \in Caller :
       \/ \E i \in Identity : requestSuspension(c, i) \/ recoverAccount(c, i)
       \/ CallerStep(c)
  \/ \E w \in Worker : Claim(w) \/ FindExpired(w) \/ WorkerStep(w) \/ Throw(w)
  \/ \E p \in Process : ProcessStep(p) \/ Crash(p)
  \/ \E s \in Suspension : WindowCloses(s)
  \/ \E i \in Identity : CooldownPasses(i)
  \/ Tick

Spec == Init /\ [][Next]_vars

(* Calls go on, time passes, and both jobs are run again and again.        *)
Fairness ==
  /\ WF_vars(Tick)
  /\ \A c \in Caller : WF_vars(CallerStep(c) \/ ProcessStep(c))
  /\ \A w \in Worker :
       /\ WF_vars(WorkerStep(w) \/ ProcessStep(w))
       /\ WF_vars(Claim(w))
       /\ WF_vars(FindExpired(w))

FairSpec == Spec /\ Fairness

-----------------------------------------------------------------------------
(* Until a suspension is finalized, what an account had is in its tables   *)
(* or in some backup, used or not, whatever crashed and whoever overlapped. *)
NothingLostBeforeExpiry ==
  \A i \in Identity, t \in Table :
    \/ "original" \in content[i][t]
    \/ \E s \in SuspensionsOf(i) : "original" \in backup[s][t]
    \/ SuspensionsOf(i) \cap closed # {}

(* "SUSPENDED: Data anonymized": unless a recovery has begun to restore it, *)
(* an account with a suspension, also an expired one, has nothing left in  *)
(* its tables, even if its worker was slow, threw or was replaced.         *)
(* Calls for suspension that overlap are the exception.                    *)
SuspendedMeansHidden ==
  \A s \in Suspension : state[s] \in {"SUSPENDED", "EXPIRED"} =>
    \/ \A t \in Table : "original" \notin content[holder[s]][t]
    \/ s \in reopened \/ holder[s] \in overlapped

(* All went as the code expects: one call at a time, no row that could not *)
(* be restored, no window that closed.                                     *)
Undisturbed(i) == i \notin overlapped /\ SuspensionsOf(i) \cap (skipped \cup closed) = {}

(* A recovery that the preconditions allow can bring everything back: what *)
(* is not in the tables is in the unused backups, also after a recovery    *)
(* that crashed half way.                                                  *)
RecoverableIsWhole ==
  \A s \in Suspension : Recoverable(s) /\ Undisturbed(holder[s]) =>
    \A t \in Table :
      \/ "original" \in content[holder[s]][t]
      \/ t \in Unused(s) /\ "original" \in backup[s][t]

(* "All or nothing": a recovered suspension has given everything back,     *)
(* unless a row could not be written, suspensions overlapped, or the       *)
(* window closed on the recovery.                                          *)
RecoveredMeansRestored ==
  \A s \in Suspension : state[s] = "RECOVERED" /\ Undisturbed(holder[s]) =>
    \/ \A t \in Table : "original" \in content[holder[s]][t]
    \/ \E q \in SuspensionsOf(holder[s]) : q > s

(* "EXPIRED: Backup deleted, recovery impossible": not one backup of an    *)
(* expired suspension is left, or added by anybody who was slow.           *)
ExpiredLeavesNoBackup ==
  \A s \in Suspension : state[s] = "EXPIRED" => backup[s] = Nothing

(* The flag on the identity and the records agree when nobody is busy with *)
(* the account: it is locked if and only if a suspension is active or has  *)
(* expired.  Faults and overlapping calls can break that for ever.         *)
FlagAgreesWithRecords ==
  \A i \in Identity :
    \/ isSuspended[i] <=>
         \E s \in SuspensionsOf(i) : state[s] \in {"SUSPENDING", "SUSPENDED", "EXPIRED"}
    \/ \E p \in Process : who[p] = i
    \/ faults > 0 \/ ~ Undisturbed(i)

(* A suspension comes to its end, unless its request failed or something   *)
(* broke.                                                                  *)
SuspensionIsFinished ==
  \A s \in Suspension :
    state[s] = "SUSPENDING" ~>
      \/ state[s] # "SUSPENDING"
      \/ \E r \in RequestsOf(holder[s]) : status[r] = "FAILED"
      \/ faults > 0

(* A suspension whose window has closed is finalized, or recovered by a    *)
(* call that had begun, although the finalization may crash.               *)
ExpiryIsCarriedOut ==
  \A s \in Suspension : s \in closed ~> state[s] \in {"EXPIRED", "RECOVERED"}

(* "SUSPENDED -> RECOVERED", "EXPIRED: Terminal state - no further         *)
(* transitions possible."                                                  *)
OutcomeIsFinal ==
  [][\A s \in Suspension :
       state[s] \in {"RECOVERED", "EXPIRED"} => state'[s] = state[s]]_vars

(* "This ensures cron can resume even if request crashes mid-flow."        *)
CronResumes ==
  \A s \in Suspension : state[s] = "SUSPENDING" ~> state[s] # "SUSPENDING"

(* "Only one active suspension per user is allowed."                       *)
OneActiveSuspension ==
  \A q, s \in Suspension :
    /\ holder[q] = holder[s]
    /\ {state[q], state[s]} \subseteq {"SUSPENDING", "SUSPENDED"}
    => q = s
=============================================================================
