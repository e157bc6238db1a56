----------------------- MODULE ScheduledNotifications -----------------------
(***************************************************************************)
(* The notifications scheduled for later, and the job that turns them into *)
(* entries of the user's log and sends them, run by the every-minute       *)
(* schedule under the lock of SchedulerLock.                               *)
(*                                                                         *)
(* A run reads a batch of pending rows, then takes them one by one: it     *)
(* reads the row again, the state of the account, the channels, and only   *)
(* then writes the log entry and the verdict, by id, whatever the row says *)
(* by then.  Nothing but the lock keeps two runs from doing so for the     *)
(* same row; meanwhile the account may be deleted, in the steps of the     *)
(* deletion request that concern notifications.                            *)
(*                                                                         *)
(* A row appears here when its time has come.  Notifications are numbered  *)
(* by scheduledAt.  Left out: push channels, notices written without being *)
(* scheduled, the delivery log, and the shutdown of an instance before its *)
(* exit, which only keeps it from starting more runs.                      *)
(***************************************************************************)
EXTENDS SchedulerLock, FiniteSets

CONSTANTS
  Notification,   \* the rows that may ever be created
  Identity, NoIdentity,
  BatchSize,      \* CRON_BATCH_SIZE
  MaxFaults       \* bound: crashes, failed statements, lost answers

ASSUME NotificationAssumption == Notification \subseteq Nat
ASSUME NoIdentityAssumption == NoIdentity \notin Identity
ASSUME RunAssumption == IsFiniteSet(Run)
ASSUME FaultsAssumption == MaxFaults \in Nat

VARIABLES
  status,     \* status[n]: of the row
  recipient,  \* recipient[n]: its identity
  logs,       \* logs[n]: the entries of the log that were written for n
  sends,      \* sends[n]: how often the e-mail for n was handed over
  leaving,    \* leaving[i]: how far the deletion of i has come
  enabled,    \* enabled[i]: notificationsEnabled of its profile
  channels,   \* the identities that have an enabled e-mail channel
  job,        \* job[x]: what run x does next
  todo,       \* todo[x]: the rest of its batch, the current row included
  fresh,      \* history: fresh[x]: the account was there when x read the row
  lost,       \* history: a verdict was written but its answer was lost
  faults

rowVars == <<status, recipient, logs, sends>>
accountVars == <<leaving, enabled, channels>>
jobVars == <<job, todo, fresh>>
vars == <<lockVars, rowVars, accountVars, jobVars, lost, faults>>

Status == {"NONE", "PENDING", "EXECUTED", "CANCELLED", "FAILED", "DELETED"}
Leaving == {"no", "marked", "cancelled", "erased"}
Job == {"start", "next", "checking", "routing", "cancelling", "executing",
        "delivering", "sending", "failing"}

(* Every variable stays in its range; a row is logged at most once a run.  *)
TypeOK ==
  /\ LockTypeOK
  /\ status \in [Notification -> Status]
  /\ recipient \in [Notification -> Identity \cup {NoIdentity}]
  /\ logs \in [Notification -> 0 .. Cardinality(Run)]
  /\ sends \in [Notification -> 0 .. Cardinality(Run)]
  /\ leaving \in [Identity -> Leaving]
  /\ enabled \in [Identity -> BOOLEAN]
  /\ channels \subseteq Identity
  /\ job \in [Run -> Job]
  /\ todo \in [Run -> SUBSET Notification]
  /\ fresh \in [Run -> BOOLEAN]
  /\ lost \in BOOLEAN
  /\ faults \in 0 .. MaxFaults

Init ==
  /\ LockInit
  /\ status = [n \in Notification |-> "NONE"]
  /\ recipient = [n \in Notification |-> NoIdentity]
  /\ logs = [n \in Notification |-> 0]
  /\ sends = [n \in Notification |-> 0]
  /\ leaving = [i \in Identity |-> "no"]
  /\ enabled = [i \in Identity |-> TRUE]
  /\ channels = Identity
  /\ job = [x \in Run |-> "start"]
  /\ todo = [x \in Run |-> {}]
  /\ fresh = [x \in Run |-> FALSE]
  /\ lost = FALSE
  /\ faults = 0

Fault == faults < MaxFaults /\ faults' = faults + 1

-----------------------------------------------------------------------------
(* createScheduled looks neither at the account nor at its channels.       *)
createScheduled(n, i) ==
  /\ status[n] = "NONE"
  /\ status' = [status EXCEPT ![n] = "PENDING"]
  /\ recipient' = [recipient EXCEPT ![n] = i]
  /\ UNCHANGED <<lockVars, logs, sends, accountVars, jobVars, lost, faults>>

(* The user changes his settings, as long as the account is his.           *)
updateProfile(i) ==
  /\ leaving[i] = "no"
  /\ enabled' = [enabled EXCEPT ![i] = ~ @]
  /\ UNCHANGED <<lockVars, rowVars, leaving, channels, jobVars, lost, faults>>

(* The steps of requestDeletion that concern notifications; a failure in   *)
(* between leaves the later ones undone.                                   *)
markAsPendingDeletion(i) ==
  /\ leaving[i] = "no"
  /\ leaving' = [leaving EXCEPT ![i] = "marked"]
  /\ UNCHANGED <<lockVars, rowVars, enabled, channels, jobVars, lost, faults>>

cancelAllPendingForIdentity(i) ==
  /\ leaving[i] = "marked"
  /\ leaving' = [leaving EXCEPT ![i] = "cancelled"]
  /\ status' = [n \in Notification |->
                  IF recipient[n] = i /\ status[n] = "PENDING"
                    THEN "CANCELLED" ELSE status[n]]
  /\ UNCHANGED <<lockVars, recipient, logs, sends, enabled, channels, jobVars, lost,
                 faults>>

disableNotificationsForIdentity(i) ==
  /\ leaving[i] = "cancelled" /\ enabled[i]
  /\ enabled' = [enabled EXCEPT ![i] = FALSE]
  /\ UNCHANGED <<lockVars, rowVars, leaving, channels, jobVars, lost, faults>>

deleteImmediateTables(i) ==
  /\ leaving[i] = "cancelled" /\ ~ enabled[i]
  /\ leaving' = [leaving EXCEPT ![i] = "erased"]
  /\ channels' = channels \ {i}
  /\ status' = [n \in Notification |->
                  IF recipient[n] = i /\ status[n] # "NONE" THEN "DELETED" ELSE status[n]]
  /\ UNCHANGED <<lockVars, recipient, logs, sends, enabled, jobVars, lost, faults>>

-----------------------------------------------------------------------------
(* MUTANT of Unprocessed: what failed is tried again.                      *)
Undelivered(n) == status[n] \in {"PENDING", "FAILED"}

Unprocessed(n) == status[n] = "PENDING"

(* The run x works on n and goes on to stage j.                            *)
At(x, j, n) ==
  /\ phase[x] = "running" /\ job[x] = j
  /\ n \in todo[x] /\ \A m \in todo[x] : n <= m

Goto(x, j) == job' = [job EXCEPT ![x] = j] /\ UNCHANGED <<todo, fresh>>

Drop(x, n) ==
  /\ job' = [job EXCEPT ![x] = "next"]
  /\ todo' = [todo EXCEPT ![x] = @ \ {n}]
  /\ fresh' = [fresh EXCEPT ![x] = FALSE]

findPending(x) ==
  /\ phase[x] = "running" /\ job[x] = "start"
  /\ LET pending == {n \in Notification : Unprocessed(n)} IN
     todo' = [todo EXCEPT ![x] =
                {n \in pending : Cardinality({m \in pending : m < n}) < BatchSize}]
  /\ job' = [job EXCEPT ![x] = "next"]
  /\ UNCHANGED <<lockVars, rowVars, accountVars, fresh, lost, faults>>

(* processOne: a row that is gone or no longer pending is passed over.     *)
ReadRow(x, n) ==
  /\ At(x, "next", n)
  /\ IF Unprocessed(n)
       THEN /\ job' = [job EXCEPT ![x] = "checking"]
            /\ fresh' = [fresh EXCEPT ![x] = leaving[recipient[n]] = "no"]
            /\ UNCHANGED todo
       ELSE Drop(x, n)
  /\ UNCHANGED <<lockVars, rowVars, accountVars, lost, faults>>

(* MUTANT of CheckIdentity: the account is not looked at.                  *)
SkipIdentity(x, n) ==
  /\ At(x, "checking", n)
  /\ Goto(x, "routing")
  /\ UNCHANGED <<lockVars, rowVars, accountVars, lost, faults>>

CheckIdentity(x, n) ==
  /\ At(x, "checking", n)
  /\ Goto(x, IF leaving[recipient[n]] = "no" THEN "routing" ELSE "cancelling")
  /\ UNCHANGED <<lockVars, rowVars, accountVars, lost, faults>>

CheckChannels(x, n) ==
  /\ At(x, "routing", n)
  /\ LET i == recipient[n] IN
     Goto(x, IF enabled[i] /\ i \in channels THEN "executing" ELSE "cancelling")
  /\ UNCHANGED <<lockVars, rowVars, accountVars, lost, faults>>

(* The updates throw when the row has been deleted.                        *)
cancelScheduledNotification(x, n) ==
  /\ At(x, "cancelling", n)
  /\ IF status[n] = "DELETED"
       THEN Goto(x, "failing") /\ UNCHANGED status
       ELSE Drop(x, n) /\ status' = [status EXCEPT ![n] = "CANCELLED"]
  /\ UNCHANGED <<lockVars, recipient, logs, sends, accountVars, lost, faults>>

(* MUTANT of executeScheduledNotification: the verdict is forgotten.       *)
logScheduledNotification(x, n) ==
  /\ At(x, "executing", n) /\ status[n] # "DELETED"
  /\ logs' = [logs EXCEPT ![n] = @ + 1]
  /\ Goto(x, "delivering")
  /\ UNCHANGED <<lockVars, status, recipient, sends, accountVars, lost, faults>>

(* One transaction writes the log entry and the verdict.                   *)
executeScheduledNotification(x, n) ==
  /\ At(x, "executing", n)
  /\ IF status[n] = "DELETED"
       THEN Goto(x, "failing") /\ UNCHANGED <<status, logs>>
       ELSE /\ status' = [status EXCEPT ![n] = "EXECUTED"]
            /\ logs' = [logs EXCEPT ![n] = @ + 1]
            /\ Goto(x, "delivering")
  /\ UNCHANGED <<lockVars, recipient, sends, accountVars, lost, faults>>

(* The transaction commits, but its answer is lost.                        *)
AnswerLost(x, n) ==
  /\ At(x, "executing", n) /\ status[n] # "DELETED"
  /\ Fault
  /\ status' = [status EXCEPT ![n] = "EXECUTED"]
  /\ logs' = [logs EXCEPT ![n] = @ + 1]
  /\ lost' = TRUE
  /\ Goto(x, "failing")
  /\ UNCHANGED <<lockVars, recipient, sends, accountVars>>

(* The hook reads the channels again, but not whether they may be used;    *)
(* whatever it throws is logged and forgotten.                             *)
LoadChannels(x, n) ==
  /\ At(x, "delivering", n)
  /\ \/ recipient[n] \in channels /\ Goto(x, "sending") /\ UNCHANGED faults
     \/ recipient[n] \notin channels /\ Drop(x, n) /\ UNCHANGED faults
     \/ Fault /\ Drop(x, n)
  /\ UNCHANGED <<lockVars, rowVars, accountVars, lost>>

sendEmail(x, n) ==
  /\ At(x, "sending", n)
  /\ sends' = [sends EXCEPT ![n] = @ + 1]
  /\ Drop(x, n)
  /\ UNCHANGED <<lockVars, status, recipient, logs, accountVars, lost, faults>>

(* A statement before the hooks throws.                                    *)
Throw(x, n) ==
  /\ \E j \in {"next", "checking", "routing", "cancelling", "executing"} : At(x, j, n)
  /\ Fault
  /\ Goto(x, "failing")
  /\ UNCHANGED <<lockVars, rowVars, accountVars, lost>>

(* The failure is recorded whatever the row says; if that throws too, the  *)
(* row keeps its status.                                                   *)
markScheduledNotificationFailed(x, n) ==
  /\ At(x, "failing", n)
  /\ \/ /\ status' = [status EXCEPT ![n] = IF @ = "DELETED" THEN @ ELSE "FAILED"]
        /\ UNCHANGED faults
     \/ Fault /\ UNCHANGED status
  /\ Drop(x, n)
  /\ UNCHANGED <<lockVars, recipient, logs, sends, accountVars, lost>>

ProcessOne(x, n) ==
  \/ ReadRow(x, n) \/ CheckIdentity(x, n) \/ CheckChannels(x, n)
  \/ cancelScheduledNotification(x, n) \/ executeScheduledNotification(x, n)
  \/ LoadChannels(x, n) \/ sendEmail(x, n) \/ markScheduledNotificationFailed(x, n)

-----------------------------------------------------------------------------
(* The steps of the lock; a run ends with its batch, or when the batch     *)
(* cannot be read.                                                         *)
EndRun(x) ==
  /\ todo[x] = {}
  /\ \/ job[x] = "next" /\ UNCHANGED faults
     \/ job[x] = "start" /\ Fault
  /\ FinishJobs(x)
  /\ job' = [job EXCEPT ![x] = "start"]
  /\ UNCHANGED <<rowVars, accountVars, todo, fresh, lost>>

Locking(x) ==
  /\ acquireLock(x) \/ WriteLock(x) \/ StartUnlocked(x) \/ releaseLock(x)
  /\ UNCHANGED <<rowVars, accountVars, jobVars, lost, faults>>

LockFault(x) ==
  /\ AcquireFails(x) \/ ReleaseFails(x)
  /\ Fault
  /\ UNCHANGED <<rowVars, accountVars, jobVars, lost>>

InstanceExits(i) ==
  /\ Exit(i)
  /\ Fault
  /\ job' = [x \in Run |-> IF InstanceOf[x] = i THEN "start" ELSE job[x]]
  /\ todo' = [x \in Run |-> IF InstanceOf[x] = i THEN {} ELSE todo[x]]
  /\ fresh' = [x \in Run |-> fresh[x] /\ InstanceOf[x] # i]
  /\ UNCHANGED <<rowVars, accountVars, lost>>

TimePasses ==
  /\ Tick
  /\ UNCHANGED <<rowVars, accountVars, jobVars, lost, faults>>

Next ==
  \/ \E i \in Identity :
       \/ \E n \in Notification : createScheduled(n, i)
       \/ updateProfile(i) \/ markAsPendingDeletion(i) \/ cancelAllPendingForIdentity(i)
       \/ disableNotificationsForIdentity(i) \/ deleteImmediateTables(i)
  \/ \E x \in Run :
       \/ findPending(x) \/ EndRun(x) \/ Locking(x) \/ LockFault(x)
       \/ \E n \in Notification : ProcessOne(x, n) \/ AnswerLost(x, n) \/ Throw(x, n)
  \/ \E i \in Instance : InstanceExits(i)
  \/ TimePasses

Spec == Init /\ [][Next]_vars

(* Some instance that is up tries for the lock every minute, runs go on    *)
(* until they end or their instance does, and time passes.                 *)
Fairness ==
  /\ WF_vars(TimePasses)
  /\ WF_vars(\E x \in Run : Locking(x) /\ acquireLock(x))
  /\ \A x \in Run :
       /\ WF_vars(Locking(x) /\ (WriteLock(x) \/ releaseLock(x)))
       /\ WF_vars(findPending(x) \/ EndRun(x)
                    \/ \E n \in Notification : ProcessOne(x, n))

FairSpec == Spec /\ Fairness

-----------------------------------------------------------------------------
(* "Already processed - idempotent behavior": a notification is logged     *)
(* once if it was executed and never if it failed or was cancelled, so     *)
(* that a failed one can be tried again, unless runs could overlap or a    *)
(* verdict got lost; it is sent no more often than it is logged.           *)
LogsMatchVerdicts ==
  \A n \in Notification :
    /\ sends[n] <= logs[n]
    /\ \/ logs[n] = IF status[n] = "EXECUTED" THEN 1 ELSE 0
       \/ logs[n] <= 1 /\ (status[n] = "DELETED" \/ lost)
       \/ causes # {}

(* "Notification suppression for deleted identities": nothing is logged or *)
(* sent for an account that was being deleted when the run took up the     *)
(* notification.                                                           *)
DeletedGetNothing ==
  [][\A n \in Notification :
       logs'[n] + sends'[n] > logs[n] + sends[n] =>
         \E x \in Run : n \in todo[x] /\ job[x] \in {"executing", "sending"} /\ fresh[x]
    ]_vars

(* A notification whose time has come does not stay pending, although      *)
(* instances crash with the lock in their hands, as long as one is up.     *)
DueIsProcessed ==
  \A n \in Notification :
    status[n] = "PENDING" ~>
      status[n] # "PENDING" \/ \A i \in Instance : mode[i] # "up"
=============================================================================
