----------------------------- MODULE GdprExport -----------------------------
(***************************************************************************)
(* Data exports: from a claimed request to a stored file, its delivery and *)
(* its deletion.                                                           *)
(*                                                                         *)
(* The row of a request and the file it announces live in two systems that *)
(* share no transaction.  A worker stores the file first and completes the *)
(* row afterwards; the cleanup job deletes the file first and expires the  *)
(* row afterwards; the download endpoint, when it meets an overdue export, *)
(* does it the other way round.  Any of these can stop half way, the row   *)
(* can be cancelled meanwhile by the deletion of the account, and a slow   *)
(* worker can find its row claimed, and even completed, by another one.    *)
(*                                                                         *)
(* Every attempt stores its file under a key of its own, <<r, n>> for the  *)
(* n-th claim of request r (the code draws a random one).                  *)
(***************************************************************************)
EXTENDS GdprRepository

CONSTANTS
  Worker,
  Adapter,        \* the storage in use: "S3" or "LOCAL"
  NoRequest,
  MaxFaults       \* bound: crashes, database errors and storage errors

ASSUME AdapterAssumption == Adapter \in {"S3", "LOCAL"}
ASSUME NoRequestAssumption == NoRequest \notin Request
ASSUME FaultsAssumption == MaxFaults \in Nat

VARIABLES
  payload,    \* payload[r]: the attempt whose key dataPayload holds, or 0
  overdue,    \* overdue[r]: expires_at has passed
  claims,     \* claims[r]: how often r has been claimed
  stage,      \* stage[w]: where in the pipeline worker w is
  task,       \* task[w]: the request w works on
  attempt,    \* attempt[w]: which claim of task[w] is w's
  objects,    \* the keys present in the storage
  sent,       \* <<event, r>> for each notification to the owner of r
  sweep,      \* the rows the running cleanup has yet to treat
  sweeping,   \* the row of sweep whose file it has just deleted
  dropping,   \* rows a download request expired and whose file it will delete
  abandoned,  \* history: keys whose worker crashed, whose deletion failed, or
              \* whose completion was committed but not acknowledged
  faults

exportVars == <<payload, overdue, claims>>
workerVars == <<stage, task, attempt>>
cleanupVars == <<sweep, sweeping, dropping>>
vars == <<status, age, payload, overdue, claims, stage, task, attempt, objects,
          sent, sweep, sweeping, dropping, abandoned, faults>>

Keys == Request \X Nat

Stages == {"idle", "started", "rendered", "stored", "completed", "persisted",
           "announced", "cleaning", "aborting", "failing", "reporting"}

(* Every variable stays in its range: rows, workers and the keys stored.   *)
TypeOK ==
  /\ TableTypeOK
  /\ payload \in [Request -> Nat]
  /\ overdue \in [Request -> BOOLEAN]
  /\ claims \in [Request -> Nat]
  /\ stage \in [Worker -> Stages]
  /\ task \in [Worker -> Request \cup {NoRequest}]
  /\ attempt \in [Worker -> Nat]
  /\ objects \subseteq Keys /\ abandoned \subseteq Keys
  /\ sent \subseteq {"READY", "FAILED"} \X Request
  /\ sweep \subseteq Request /\ dropping \subseteq Request
  /\ sweeping \in Request \cup {NoRequest}
  /\ faults \in 0 .. MaxFaults

Init ==
  /\ TableInit
  /\ payload = [r \in Request |-> 0]
  /\ overdue = [r \in Request |-> FALSE]
  /\ claims = [r \in Request |-> 0]
  /\ stage = [w \in Worker |-> "idle"]
  /\ task = [w \in Worker |-> NoRequest]
  /\ attempt = [w \in Worker |-> 0]
  /\ objects = {} /\ abandoned = {} /\ sent = {}
  /\ sweep = {} /\ sweeping = NoRequest /\ dropping = {}
  /\ faults = 0

Fault == faults < MaxFaults /\ faults' = faults + 1

-----------------------------------------------------------------------------
(* The storage.  delete of the local adapter derives the directory of a    *)
(* file from its key with a function that always answers null.             *)
storageDelete(k) ==
  objects' = IF Adapter = "S3" THEN objects \ {k} ELSE objects

(* A deletion that fails is logged, and nobody tries it again.             *)
deleteFails(k) ==
  /\ Fault
  /\ abandoned' = abandoned \cup {k}
  /\ UNCHANGED objects

(* The file that the row of r announces.                                   *)
FileOf(r) == <<r, payload[r]>>

-----------------------------------------------------------------------------
(* Requests come and, when an account is deleted, are cancelled.           *)
requestExport(r) ==
  /\ createRequest(r)
  /\ UNCHANGED <<exportVars, workerVars, objects, sent, cleanupVars, abandoned, faults>>

Cancel(r) ==
  /\ markRequestCancelled(r)
  /\ UNCHANGED <<exportVars, workerVars, objects, sent, cleanupVars, abandoned, faults>>

-----------------------------------------------------------------------------
(* The worker.  MUTANT of Key: one key per request.                        *)
KeyOfRequest(w) == <<task[w], 1>>

Key(w) == <<task[w], attempt[w]>>

Goto(w, s) == stage' = [stage EXCEPT ![w] = s] /\ UNCHANGED <<task, attempt>>

Idle(w) ==
  /\ stage' = [stage EXCEPT ![w] = "idle"]
  /\ task' = [task EXCEPT ![w] = NoRequest]
  /\ attempt' = [attempt EXCEPT ![w] = 0]

Claim(w) ==
  /\ stage[w] = "idle"
  /\ \E r \in Candidates(Request, 1) :
       /\ ClaimRows({r})
       /\ claims' = [claims EXCEPT ![r] = @ + 1]
       /\ task' = [task EXCEPT ![w] = r]
       /\ attempt' = [attempt EXCEPT ![w] = claims[r] + 1]
  /\ stage' = [stage EXCEPT ![w] = "started"]
  /\ UNCHANGED <<payload, overdue, objects, sent, cleanupVars, abandoned, faults>>

(* Collecting or building the document may throw, which the processor      *)
(* catches, and so may rendering or packaging, which the pipeline catches. *)
Prepare(w) ==
  /\ stage[w] = "started"
  /\ \E s \in {"rendered", "aborting", "failing"} : Goto(w, s)
  /\ UNCHANGED <<tableVars, exportVars, objects, sent, cleanupVars, abandoned, faults>>

Store(w) ==
  /\ stage[w] = "rendered"
  /\ objects' = objects \cup {Key(w)}
  /\ Goto(w, "stored")
  /\ UNCHANGED <<tableVars, exportVars, sent, cleanupVars, abandoned, faults>>

(* The storage fails, perhaps after the file has got there.                *)
StoreThrows(w) ==
  /\ stage[w] = "rendered"
  /\ Fault
  /\ \E K \in {{}, {Key(w)}} :
       /\ objects' = objects \cup K
       /\ abandoned' = abandoned \cup K
  /\ Goto(w, "aborting")
  /\ UNCHANGED <<tableVars, exportVars, sent, cleanupVars>>

(* When the row is no longer PROCESSING, the completion is skipped, and    *)
(* the worker goes on as if it had happened.                               *)
Complete(w) ==
  LET r == task[w] IN
  /\ stage[w] = "stored"
  /\ markRequestCompleted(r)
  /\ payload' = IF status[r] = "PROCESSING"
                  THEN [payload EXCEPT ![r] = attempt[w]] ELSE payload
  /\ Goto(w, "completed")
  /\ UNCHANGED <<overdue, claims, objects, sent, cleanupVars, abandoned, faults>>

(* The update commits, but the connection breaks before its answer is      *)
(* back: the pipeline takes it for a failure and deletes the stored file,  *)
(* and the guarded FAILED that follows finds the row COMPLETED.            *)
CompleteUnacknowledged(w) ==
  LET r == task[w] IN
  /\ stage[w] = "stored" /\ status[r] = "PROCESSING"
  /\ Fault
  /\ markRequestCompleted(r)
  /\ payload' = [payload EXCEPT ![r] = attempt[w]]
  /\ abandoned' = abandoned \cup {Key(w)}
  /\ Goto(w, "cleaning")
  /\ UNCHANGED <<overdue, claims, objects, sent, cleanupVars>>

(* gdprExportFile.create; nobody reads these rows but a report.            *)
Persist(w) ==
  /\ stage[w] = "completed"
  /\ Goto(w, "persisted")
  /\ UNCHANGED <<tableVars, exportVars, objects, sent, cleanupVars, abandoned, faults>>

NotifyReady(w) ==
  /\ stage[w] = "persisted"
  /\ sent' = sent \cup {<<"READY", task[w]>>}
  /\ Goto(w, "announced")
  /\ UNCHANGED <<tableVars, exportVars, objects, cleanupVars, abandoned, faults>>

Finish(w) ==
  /\ stage[w] = "announced"
  /\ Idle(w)
  /\ UNCHANGED <<tableVars, exportVars, objects, sent, cleanupVars, abandoned, faults>>

-----------------------------------------------------------------------------
(* Failure.  MUTANT of OnError: a file that was stored is not cleaned up.  *)
OnErrorKeep == [stored |-> "aborting", aborting |-> "failing",
                completed |-> "failing", persisted |-> "announced",
                announced |-> "failing", failing |-> "idle", reporting |-> "idle"]

(* Where an exception leads from each stage: the pipeline catches what     *)
(* happens before its end and cleans up, the processor what happens        *)
(* outside it; in the handlers themselves, and in the notification, it is  *)
(* logged.                                                                 *)
OnError == [stored |-> "cleaning", aborting |-> "failing",
            completed |-> "failing", persisted |-> "announced",
            announced |-> "failing", failing |-> "idle", reporting |-> "idle"]

Throw(w) ==
  /\ stage[w] \in DOMAIN OnError
  /\ Fault
  /\ IF OnError[stage[w]] = "idle" THEN Idle(w) ELSE Goto(w, OnError[stage[w]])
  /\ UNCHANGED <<tableVars, exportVars, objects, sent, cleanupVars, abandoned>>

CleanUp(w) ==
  /\ stage[w] = "cleaning"
  /\ \/ storageDelete(Key(w)) /\ UNCHANGED <<abandoned, faults>>
     \/ deleteFails(Key(w))
  /\ Goto(w, "aborting")
  /\ UNCHANGED <<tableVars, exportVars, sent, cleanupVars>>

(* MUTANT of Abort: the processor does not look at success.                *)
AbortUnheeded(w) ==
  /\ stage[w] = "aborting"
  /\ markRequestFailed(task[w])
  /\ Goto(w, "completed")
  /\ UNCHANGED <<exportVars, objects, sent, cleanupVars, abandoned, faults>>

(* The pipeline marks the request as failed, and then reports success =    *)
(* false; the processor marks it as failed once more.                      *)
Abort(w) ==
  /\ stage[w] = "aborting"
  /\ markRequestFailed(task[w])
  /\ Goto(w, "failing")
  /\ UNCHANGED <<exportVars, objects, sent, cleanupVars, abandoned, faults>>

FailRequest(w) ==
  /\ stage[w] = "failing"
  /\ markRequestFailed(task[w])
  /\ Goto(w, "reporting")
  /\ UNCHANGED <<exportVars, objects, sent, cleanupVars, abandoned, faults>>

Report(w) ==
  /\ stage[w] = "reporting"
  /\ sent' = sent \cup {<<"FAILED", task[w]>>}
  /\ Idle(w)
  /\ UNCHANGED <<tableVars, exportVars, objects, cleanupVars, abandoned, faults>>

(* A crash between storing the file and completing the row leaves the file *)
(* behind: the next attempt stores another one.                            *)
Crash(w) ==
  /\ stage[w] # "idle"
  /\ Fault
  /\ Idle(w)
  /\ abandoned' = IF stage[w] \in {"stored", "cleaning"}
                    THEN abandoned \cup {Key(w)} ELSE abandoned
  /\ UNCHANGED <<tableVars, exportVars, objects, sent, cleanupVars>>

-----------------------------------------------------------------------------
(* The end of an export.                                                   *)
Overdue(r) ==
  /\ status[r] = "COMPLETED" /\ ~ overdue[r]
  /\ overdue' = [overdue EXCEPT ![r] = TRUE]
  /\ UNCHANGED <<tableVars, payload, claims, workerVars, objects, sent, cleanupVars,
                 abandoned, faults>>

(* The cleanup job reads the overdue rows once, and then takes one after   *)
(* the other.                                                              *)
Expired == {r \in Request : status[r] = "COMPLETED" /\ overdue[r]}

SweepStart ==
  /\ sweep = {} /\ Expired # {}
  /\ sweep' = Expired
  /\ UNCHANGED <<tableVars, exportVars, workerVars, objects, sent, sweeping, dropping,
                 abandoned, faults>>

SweepDelete(r) ==
  /\ r \in sweep /\ sweeping = NoRequest
  /\ \/ storageDelete(FileOf(r)) /\ UNCHANGED <<abandoned, faults>>
     \/ deleteFails(FileOf(r))
  /\ sweeping' = r
  /\ UNCHANGED <<tableVars, exportVars, workerVars, sent, sweep, dropping>>

SweepMark(r) ==
  /\ sweeping = r /\ r # NoRequest
  /\ markRequestExpired(r)
  /\ sweeping' = NoRequest /\ sweep' = sweep \ {r}
  /\ UNCHANGED <<exportVars, workerVars, objects, sent, dropping, abandoned, faults>>

(* The update throws, and the job goes on with the other rows; or the job  *)
(* crashes.                                                                *)
SweepFails ==
  /\ sweep # {}
  /\ Fault
  /\ sweeping' = NoRequest
  /\ sweep' \in {{}, sweep \ {sweeping}} \ {sweep}
  /\ UNCHANGED <<tableVars, exportVars, workerVars, objects, sent, dropping, abandoned>>

(* MUTANT of ExpireOnDownload: the handler returns before it deletes.      *)
ExpireWithoutDrop(r) ==
  /\ r \in Expired
  /\ markRequestExpired(r)
  /\ UNCHANGED <<exportVars, workerVars, objects, sent, cleanupVars, abandoned, faults>>

(* A download request meets an overdue export: the row first, ...          *)
ExpireOnDownload(r) ==
  /\ r \in Expired
  /\ markRequestExpired(r)
  /\ dropping' = dropping \cup {r}
  /\ UNCHANGED <<exportVars, workerVars, objects, sent, sweep, sweeping, abandoned, faults>>

(* ... then the file, as best it can.  A crash is a failed deletion.       *)
DropFile(r) ==
  /\ r \in dropping
  /\ \/ storageDelete(FileOf(r)) /\ UNCHANGED <<abandoned, faults>>
     \/ deleteFails(FileOf(r))
  /\ dropping' = dropping \ {r}
  /\ UNCHANGED <<tableVars, exportVars, workerVars, sent, sweep, sweeping>>

Tick ==
  /\ \E r \in Request : status[r] = "PROCESSING" /\ age[r] <= StaleAfter
  /\ AgeRows
  /\ UNCHANGED <<exportVars, workerVars, objects, sent, cleanupVars, abandoned, faults>>

-----------------------------------------------------------------------------
WorkerStep(w) ==
  \/ Prepare(w) \/ Store(w) \/ Complete(w) \/ Persist(w) \/ NotifyReady(w) \/ Finish(w)
  \/ CleanUp(w) \/ Abort(w) \/ FailRequest(w) \/ Report(w)

SweepStep == SweepStart \/ \E r \in Request : SweepDelete(r) \/ SweepMark(r)

Next ==
  \/ \E r \in Request : requestExport(r) \/ Cancel(r) \/ Overdue(r)
  \/ \E w \in Worker : Claim(w) \/ WorkerStep(w)
  \/ \E w \in Worker : StoreThrows(w) \/ CompleteUnacknowledged(w) \/ Throw(w) \/ Crash(w)
  \/ SweepStep \/ SweepFails
  \/ \E r \in Request : ExpireOnDownload(r) \/ DropFile(r)
  \/ Tick

Spec == Init /\ [][Next]_vars

(* The processing job and the cleanup job are run again and again, and a   *)
(* handler once entered goes on; nobody has to submit or to download.      *)
Fairness ==
  /\ WF_vars(Tick) /\ WF_vars(SweepStep)
  /\ \A w \in Worker : WF_vars(Claim(w)) /\ WF_vars(WorkerStep(w))
  /\ \A r \in Request : WF_vars(DropFile(r))

FairSpec == Spec /\ Fairness

-----------------------------------------------------------------------------
(* What the user is offered for download is there: as long as a completed  *)
(* export has not expired its file is in the storage, whichever of several *)
(* attempts completed it and however the others end.  The one exception is *)
(* an export whose completion was committed and not acknowledged.          *)
DownloadableHasFile ==
  \A r \in Request :
    status[r] = "COMPLETED" /\ ~ overdue[r]
      => FileOf(r) \in objects \/ FileOf(r) \in abandoned

(* A stored file that no row announces and no worker is busy with.         *)
Orphan(k) ==
  /\ k \in objects
  /\ k # FileOf(k[1])
  /\ \A w \in Worker : k # Key(w)

(* "No partial success.  No orphaned files", says the pipeline of itself.  *)
NoOrphanedFiles == \A k \in objects : ~ Orphan(k)

(* An orphan has one of four causes: a crash, a failed deletion, a row     *)
(* cancelled under its worker, or a row claimed a second time because its  *)
(* worker was slow.                                                        *)
OrphansAreExplained ==
  \A k \in objects :
    Orphan(k) => k \in abandoned \/ status[k[1]] = "CANCELLED" \/ claims[k[1]] > 1

(* An expired row leaves no file behind, unless its deletion failed: the   *)
(* cleanup job deletes first, the download endpoint afterwards.            *)
ExpiredLeavesNoFile ==
  \A r \in Request :
    status[r] = "EXPIRED" /\ FileOf(r) \in objects
      => r \in dropping \/ FileOf(r) \in abandoned

(* A row is claimed once for each worker that may be stuck on it, and once *)
(* more for each fault: claims do not go round and round.                  *)
ClaimsAreBounded == \A r \in Request : claims[r] <= Cardinality(Worker) + faults

(* The owner is told READY only of an export that completed, and FAILED    *)
(* only of one that failed, unless the row was cancelled, was claimed      *)
(* twice, or an exception came in between.                                 *)
NotificationsAreTrue ==
  \A r \in Request : faults = 0 /\ claims[r] <= 1 /\ status[r] # "CANCELLED" =>
    /\ <<"READY", r>> \in sent => status[r] \in {"COMPLETED", "EXPIRED"}
    /\ <<"FAILED", r>> \in sent => status[r] = "FAILED"

(* An overdue export is expired in the end, by the cleanup job if nobody   *)
(* asks for it, although runs of the job fail half way.                    *)
OverdueIsExpired == \A r \in Request : r \in Expired ~> status[r] = "EXPIRED"

(* "The file MUST be deleted from storage", once the export has expired.   *)
ExpiredFileIsDeleted == \A r \in Request : r \in Expired ~> FileOf(r) \notin objects
=============================================================================
