--------------------- MODULE ExportMeetsDeletion_proofs ---------------------
(***************************************************************************)
(* Proofs about GdprExport for any number of requests, workers and faults, *)
(* and about ExportMeetsDeletion: the pipeline keeps the promises of       *)
(* GdprExport whatever the deletion does around it, and what was erased    *)
(* stays erased.                                                           *)
(*                                                                         *)
(* Files are safe because keys are: every attempt has a key of its own, so *)
(* that a worker that cleans up after itself, and a job that deletes the   *)
(* file of an overdue row, touch no file anybody else relies on.           *)
(***************************************************************************)
EXTENDS ExportMeetsDeletion, FiniteSetTheorems, TLAPS

Busy(w) == stage[w] # "idle"

(* A busy worker has a request, and the number of one of its claims.       *)
TasksOK ==
  \A w \in Worker :
    IF Busy(w) THEN task[w] \in Request /\ attempt[w] \in 1 .. claims[task[w]]
               ELSE task[w] = NoRequest

(* No two workers are on the same attempt, hence none shares a key.        *)
AttemptsDiffer ==
  \A v, w \in Worker : Busy(v) /\ Busy(w) /\ Key(v) = Key(w) => v = w

(* A worker that has not reached the completion is not announced yet,      *)
(* unless it was not told that its completion was committed.               *)
Unfinished(w) == stage[w] \in {"started", "rendered", "stored", "cleaning"}

NotAnnounced ==
  \A w \in Worker :
    Unfinished(w) =>
      \/ payload[task[w]] # attempt[w]
      \/ stage[w] = "cleaning" /\ Key(w) \in abandoned

StoredIsThere == \A w \in Worker : stage[w] = "stored" => Key(w) \in objects

(* A row announces a file exactly once it has completed.                   *)
PayloadOK ==
  \A r \in Request :
    /\ payload[r] <= claims[r]
    /\ payload[r] # 0 <=> status[r] \in {"COMPLETED", "EXPIRED"}
    /\ overdue[r] => status[r] \in {"COMPLETED", "EXPIRED"}

(* Only overdue rows are being deleted.                                    *)
OnlyOverdueDeleted ==
  /\ \A r \in sweep \cup dropping : overdue[r]
  /\ sweeping \in sweep \cup {NoRequest}

FilesInv ==
  /\ TypeOK
  /\ TasksOK
  /\ AttemptsDiffer
  /\ NotAnnounced
  /\ StoredIsThere
  /\ PayloadOK
  /\ OnlyOverdueDeleted
  /\ DownloadableHasFile

-----------------------------------------------------------------------------
(* Why a file may be in the storage although no worker is busy with it.    *)
Explained(k) ==
  \/ k = FileOf(k[1])
  \/ k \in abandoned
  \/ status[k[1]] = "CANCELLED"
  \/ claims[k[1]] > 1

(* A file nobody can explain is one whose worker has still to complete the *)
(* row or to clean up.                                                     *)
FilesAccountedFor ==
  \A k \in objects :
    Explained(k) \/ \E w \in Worker : stage[w] \in {"stored", "cleaning"} /\ Key(w) = k

(* A row claimed once is in the hands of its worker, or cancelled.         *)
SoleClaim ==
  \A w \in Worker :
    stage[w] \in {"started", "rendered", "stored"} /\ claims[task[w]] = 1
      => status[task[w]] \in {"PROCESSING", "CANCELLED"}

SweptFileIsGone ==
  sweeping # NoRequest => FileOf(sweeping) \notin objects \/ FileOf(sweeping) \in abandoned

(* Attempts are counted from 1, so that 0 is no key.                       *)
KeysOK == \A k \in objects : k[2] # 0

DeletionInv ==
  /\ FilesInv
  /\ KeysOK
  /\ FilesAccountedFor
  /\ SoleClaim
  /\ SweptFileIsGone
  /\ ExpiredLeavesNoFile

-----------------------------------------------------------------------------
(* Arithmetic on ages, and what a claim does.                              *)
LEMMA AgeIsNat == Age \subseteq Nat /\ 0 \in Age
BY StaleAssumption DEF Age

ClaimOf(w, r) ==
  /\ stage[w] = "idle"
  /\ status[r] \in {"PENDING", "PROCESSING"}
  /\ status' = [q \in Request |-> IF q = r THEN "PROCESSING" ELSE status[q]]
  /\ age' = [q \in Request |-> IF q = r THEN 0 ELSE age[q]]
  /\ claims' = [claims EXCEPT ![r] = @ + 1]
  /\ stage' = [stage EXCEPT ![w] = "started"]
  /\ task' = [task EXCEPT ![w] = r]
  /\ attempt' = [attempt EXCEPT ![w] = claims[r] + 1]
  /\ UNCHANGED <<payload, overdue, objects, sent, sweep, sweeping, dropping, abandoned,
                 faults>>

(* A claim of one request: its effect on the row and on the worker.        *)
LEMMA ClaimEffect ==
  ASSUME NEW w \in Worker, Claim(w)
  PROVE  \E r \in Request : ClaimOf(w, r)
<1>1. PICK r \in Candidates(Request, 1) :
        /\ ClaimRows({r})
        /\ claims' = [claims EXCEPT ![r] = @ + 1]
        /\ task' = [task EXCEPT ![w] = r]
        /\ attempt' = [attempt EXCEPT ![w] = claims[r] + 1]
  BY DEF Claim
<1>2. r \in Request /\ status[r] \in {"PENDING", "PROCESSING"}
  BY DEF Candidates, Claimable, Stale
<1>3. ClaimOf(w, r)
  BY <1>1, <1>2 DEF Claim, ClaimOf, ClaimRows, cleanupVars
<1>4. QED
  BY <1>2, <1>3

(* The invariant is preserved by each action.  The predicates it is made   *)
(* of are expanded throughout; each leaf adds the action it is about.      *)
LEMMA FilesStep == FilesInv /\ [Next]_vars => FilesInv'
<1> SUFFICES ASSUME FilesInv, [Next]_vars
             PROVE  FilesInv'
  OBVIOUS
<1> USE AgeIsNat, NoRequestAssumption, StaleAssumption, FaultsAssumption
<1> USE DEF FilesInv, TypeOK, TableTypeOK, Status, Stages, Keys, TasksOK, AttemptsDiffer,
            NotAnnounced, StoredIsThere, PayloadOK, OnlyOverdueDeleted,
            DownloadableHasFile, Busy, Key, Unfinished, FileOf,
            tableVars, exportVars, workerVars, cleanupVars
<1>1. ASSUME NEW r \in Request, requestExport(r)
      PROVE  FilesInv'
  BY <1>1 DEF requestExport, createRequest, SetStatus
<1>2. ASSUME NEW r \in Request, Cancel(r)
      PROVE  FilesInv'
  BY <1>2 DEF Cancel, markRequestCancelled, GuardedUpdate, SetStatus
<1>3. ASSUME NEW r \in Request, Overdue(r)
      PROVE  FilesInv'
  BY <1>3 DEF Overdue
<1>4. ASSUME NEW w \in Worker, Claim(w)
      PROVE  FilesInv'
  <2>1. PICK r \in Request : ClaimOf(w, r)
    BY <1>4, ClaimEffect
  <2>2. TypeOK'
    BY <2>1 DEF ClaimOf
  <2>3. TasksOK' /\ AttemptsDiffer'
    <3>1. \A v \in Worker \ {w} : /\ stage'[v] = stage[v] /\ task'[v] = task[v]
                                 /\ attempt'[v] = attempt[v]
      BY <2>1 DEF ClaimOf
    <3>2. stage'[w] = "started" /\ task'[w] = r /\ attempt'[w] = claims[r] + 1
      BY <2>1 DEF ClaimOf
    <3>3. /\ claims'[r] = claims[r] + 1
          /\ \A q \in Request \ {r} : claims'[q] = claims[q]
      BY <2>1 DEF ClaimOf
    <3>4. TasksOK'
      BY <3>1, <3>2, <3>3
    <3>5. \A v \in Worker \ {w} : Busy(v) => Key(v) # <<r, claims[r] + 1>>
      BY DEF Key
    <3>6. AttemptsDiffer'
      BY <3>1, <3>2, <3>5
    <3>7. QED
      BY <3>4, <3>6
  <2>4. NotAnnounced' /\ StoredIsThere'
    BY <2>1 DEF ClaimOf
  <2>5. PayloadOK' /\ OnlyOverdueDeleted' /\ DownloadableHasFile'
    BY <2>1 DEF ClaimOf
  <2>6. QED
    BY <2>2, <2>3, <2>4, <2>5
<1>5. ASSUME NEW w \in Worker, Prepare(w)
      PROVE  FilesInv'
  BY <1>5 DEF Prepare, Goto
<1>6. ASSUME NEW w \in Worker, Store(w)
      PROVE  FilesInv'
  BY <1>6 DEF Store, Goto
<1>7. ASSUME NEW w \in Worker, Complete(w)
      PROVE  FilesInv'
  BY <1>7 DEF Complete, Goto, markRequestCompleted, GuardedUpdate, SetStatus
<1>8. ASSUME NEW w \in Worker, Persist(w)
      PROVE  FilesInv'
  BY <1>8 DEF Persist, Goto
<1>9. ASSUME NEW w \in Worker, NotifyReady(w)
      PROVE  FilesInv'
  BY <1>9 DEF NotifyReady, Goto
<1>10. ASSUME NEW w \in Worker, Finish(w)
      PROVE  FilesInv'
  BY <1>10 DEF Finish, Idle
<1>11. ASSUME NEW w \in Worker, Throw(w)
      PROVE  FilesInv'
  BY <1>11 DEF Throw, OnError, Goto, Idle, Fault
<1>12. ASSUME NEW w \in Worker, CleanUp(w)
      PROVE  FilesInv'
  BY <1>12 DEF CleanUp, Goto, storageDelete, deleteFails, Fault
<1>13. ASSUME NEW w \in Worker, Abort(w)
      PROVE  FilesInv'
  BY <1>13 DEF Abort, Goto, markRequestFailed, GuardedUpdate, SetStatus
<1>14. ASSUME NEW w \in Worker, FailRequest(w)
      PROVE  FilesInv'
  BY <1>14 DEF FailRequest, Goto, markRequestFailed, GuardedUpdate, SetStatus
<1>15. ASSUME NEW w \in Worker, Report(w)
      PROVE  FilesInv'
  BY <1>15 DEF Report, Idle
<1>16. ASSUME NEW w \in Worker, Crash(w)
      PROVE  FilesInv'
  BY <1>16 DEF Crash, Idle, Fault
<1>17. ASSUME NEW r \in Request, SweepDelete(r)
      PROVE  FilesInv'
  BY <1>17 DEF SweepDelete, storageDelete, deleteFails, Fault
<1>18. ASSUME NEW r \in Request, SweepMark(r)
      PROVE  FilesInv'
  BY <1>18 DEF SweepMark, markRequestExpired, GuardedUpdate, SetStatus
<1>19. ASSUME NEW r \in Request, ExpireOnDownload(r)
      PROVE  FilesInv'
  BY <1>19 DEF ExpireOnDownload, Expired, markRequestExpired, GuardedUpdate,
               SetStatus
<1>20. ASSUME NEW r \in Request, DropFile(r)
      PROVE  FilesInv'
  BY <1>20 DEF DropFile, storageDelete, deleteFails, Fault
<1>21. CASE SweepStart
  BY <1>21 DEF SweepStart, Expired
<1>22. CASE SweepFails
  BY <1>22 DEF SweepFails, Fault
<1>23. CASE Tick
  BY <1>23 DEF Tick, AgeRows, Age
<1>24. ASSUME NEW w \in Worker, StoreThrows(w)
      PROVE  FilesInv'
  BY <1>24 DEF StoreThrows, Goto, Fault
<1>27. ASSUME NEW w \in Worker, CompleteUnacknowledged(w)
      PROVE  FilesInv'
  BY <1>27 DEF CompleteUnacknowledged, Goto, markRequestCompleted, GuardedUpdate,
               SetStatus, Fault
<1>25. CASE UNCHANGED vars
  BY <1>25 DEF vars
<1>26. QED
  BY <1>1, <1>2, <1>3, <1>4, <1>5, <1>6, <1>7, <1>8, <1>9, <1>10, <1>11,
     <1>12, <1>13, <1>14, <1>15, <1>16, <1>17, <1>18, <1>19, <1>20, <1>21,
     <1>22, <1>23, <1>24, <1>25, <1>27
     DEF Next, WorkerStep, SweepStep

(* The first invariant holds in every state.                               *)
LEMMA FilesInvariance == Spec => []FilesInv
<1>1. Init => FilesInv
  BY AgeIsNat, FaultsAssumption
     DEF Init, TableInit, FilesInv, TypeOK, TableTypeOK, Status, Stages, TasksOK,
         AttemptsDiffer, NotAnnounced, StoredIsThere, PayloadOK, OnlyOverdueDeleted,
         DownloadableHasFile, Busy, Unfinished
<1>2. QED
  BY <1>1, FilesStep, PTL DEF Spec

(* Every variable keeps its type.                                          *)
THEOREM TypeCorrect == Spec => []TypeOK
<1>1. FilesInv => TypeOK
  BY DEF FilesInv
<1>2. QED
  BY <1>1, FilesInvariance, PTL

(* A completed export that has not expired can be downloaded: no attempt,  *)
(* clean-up or deletion ever takes its file away, but the worker's own     *)
(* that was not told that its completion was committed.                    *)
THEOREM CompletedIsDownloadable == Spec => []DownloadableHasFile
<1>1. FilesInv => DownloadableHasFile
  BY DEF FilesInv
<1>2. QED
  BY <1>1, FilesInvariance, PTL

-----------------------------------------------------------------------------
(* What is left behind, when the storage deletes what it is told to.       *)
LEMMA DeletionStep ==
  ASSUME Adapter = "S3", DeletionInv, FilesInv', [Next]_vars
  PROVE  DeletionInv'
<1> DEFINE Goal == /\ KeysOK'
                   /\ FilesAccountedFor'
                   /\ SoleClaim'
                   /\ SweptFileIsGone'
                   /\ ExpiredLeavesNoFile'
<1> SUFFICES Goal
  BY DEF DeletionInv
<1> USE NoRequestAssumption
<1> USE DEF DeletionInv, FilesInv, TypeOK, TableTypeOK, Status, Stages, Keys, TasksOK,
            AttemptsDiffer, NotAnnounced, PayloadOK, OnlyOverdueDeleted,
            KeysOK, FilesAccountedFor, SoleClaim, SweptFileIsGone, ExpiredLeavesNoFile,
            Explained, Busy, Key, Unfinished, FileOf,
            tableVars, exportVars, workerVars, cleanupVars
<1>1. ASSUME NEW r \in Request, requestExport(r)
      PROVE  Goal
  BY <1>1 DEF requestExport, createRequest, SetStatus
<1>2. ASSUME NEW r \in Request, Cancel(r)
      PROVE  Goal
  BY <1>2 DEF Cancel, markRequestCancelled, GuardedUpdate, SetStatus
<1>3. ASSUME NEW r \in Request, Overdue(r)
      PROVE  Goal
  BY <1>3 DEF Overdue
<1>4. ASSUME NEW w \in Worker, Claim(w)
      PROVE  Goal
  <2>1. PICK r \in Request : ClaimOf(w, r)
    BY <1>4, ClaimEffect
  <2>2. \A v \in Worker \ {w} : /\ stage'[v] = stage[v] /\ task'[v] = task[v]
                               /\ attempt'[v] = attempt[v]
    BY <2>1 DEF ClaimOf
  <2>3. FilesAccountedFor'
    <3>1. ASSUME NEW k \in objects
          PROVE  \/ Explained(k)'
                 \/ \E v \in Worker : stage'[v] \in {"stored", "cleaning"} /\ Key(v)' = k
      <4>1. CASE Explained(k)
        BY <2>1, <4>1 DEF ClaimOf
      <4>2. CASE \E v \in Worker : stage[v] \in {"stored", "cleaning"} /\ Key(v) = k
        BY <2>1, <2>2, <4>2 DEF ClaimOf
      <4>3. QED
        BY <4>1, <4>2
    <3>2. objects' = objects
      BY <1>4 DEF Claim
    <3>3. QED
      BY <3>1, <3>2
  <2>4. KeysOK' /\ SoleClaim'
    BY <2>1, <2>2 DEF ClaimOf
  <2>5. SweptFileIsGone' /\ ExpiredLeavesNoFile'
    BY <2>1 DEF ClaimOf
  <2>6. QED
    BY <2>3, <2>4, <2>5
<1>5. ASSUME NEW w \in Worker, Prepare(w)
      PROVE  Goal
  BY <1>5 DEF Prepare, Goto
<1>6. ASSUME NEW w \in Worker, Store(w)
      PROVE  Goal
  BY <1>6 DEF Store, Goto
<1>7. ASSUME NEW w \in Worker, Complete(w)
      PROVE  Goal
  <2>1. PICK r \in Request : r = task[w] /\ stage[w] = "stored"
    BY <1>7 DEF Complete
  <2>2. CASE status[r] = "PROCESSING"
    <3>1. /\ status' = [status EXCEPT ![r] = "COMPLETED"]
          /\ payload' = [payload EXCEPT ![r] = attempt[w]]
          /\ stage' = [stage EXCEPT ![w] = "completed"]
          /\ UNCHANGED <<claims, task, attempt, objects, abandoned, sweep, sweeping, dropping>>
      BY <1>7, <2>1, <2>2 DEF Complete, Goto, markRequestCompleted, GuardedUpdate, SetStatus
    <3>2. FilesAccountedFor'
      <4>1. ASSUME NEW k \in objects
            PROVE  \/ Explained(k)'
                   \/ \E v \in Worker : stage'[v] \in {"stored", "cleaning"} /\ Key(v)' = k
        <5>1. CASE Explained(k)
          BY <2>1, <2>2, <3>1, <5>1
        <5>2. CASE \E v \in Worker : stage[v] \in {"stored", "cleaning"} /\ Key(v) = k
          BY <2>1, <3>1, <5>2
        <5>3. QED
          BY <5>1, <5>2
      <4>2. QED
        BY <3>1, <4>1
    <3>3. KeysOK' /\ ExpiredLeavesNoFile'
      BY <2>1, <2>2, <3>1
    <3>4. SoleClaim'
      BY <2>1, <2>2, <3>1
    <3>5. SweptFileIsGone'
      <4>1. sweeping # NoRequest => sweeping \in Request /\ sweeping # r
        BY <2>1, <2>2
      <4>2. sweeping # NoRequest => payload'[sweeping] = payload[sweeping]
        BY <3>1, <4>1
      <4>3. QED
        BY <3>1, <4>2
    <3>6. QED
      BY <3>2, <3>3, <3>4, <3>5
  <2>3. CASE status[r] # "PROCESSING"
    <3>1. /\ stage' = [stage EXCEPT ![w] = "completed"]
          /\ UNCHANGED <<status, payload, claims, task, attempt, objects, abandoned,
                         sweep, sweeping, dropping>>
      BY <1>7, <2>1, <2>3 DEF Complete, Goto, markRequestCompleted, GuardedUpdate
    <3>2. Explained(Key(w))
      <4>1. claims[r] \in Nat /\ claims[r] >= 1
        BY <2>1
      <4>2. claims[r] = 1 => status[r] = "CANCELLED"
        BY <2>1, <2>3
      <4>3. Key(w)[1] = r
        BY <2>1
      <4>4. QED
        BY <4>1, <4>2, <4>3
    <3>3. FilesAccountedFor'
      <4>1. ASSUME NEW k \in objects
            PROVE  \/ Explained(k)
                   \/ \E v \in Worker : stage'[v] \in {"stored", "cleaning"} /\ Key(v) = k
        BY <2>1, <3>1, <3>2
      <4>2. QED
        BY <3>1, <4>1
    <3>4. KeysOK' /\ SoleClaim' /\ SweptFileIsGone' /\ ExpiredLeavesNoFile'
      BY <2>1, <3>1
    <3>5. QED
      BY <3>3, <3>4
  <2>4. QED
    BY <2>2, <2>3
<1>8. ASSUME NEW w \in Worker, Persist(w)
      PROVE  Goal
  BY <1>8 DEF Persist, Goto
<1>9. ASSUME NEW w \in Worker, NotifyReady(w)
      PROVE  Goal
  BY <1>9 DEF NotifyReady, Goto
<1>10. ASSUME NEW w \in Worker, Finish(w)
      PROVE  Goal
  BY <1>10 DEF Finish, Idle
<1>11. ASSUME NEW w \in Worker, Throw(w)
      PROVE  Goal
  <2>1. CASE OnError[stage[w]] = "idle"
    BY <1>11, <2>1 DEF Throw, OnError, Idle, Fault
  <2>2. CASE OnError[stage[w]] # "idle"
    BY <1>11, <2>2 DEF Throw, OnError, Goto, Fault
  <2>3. QED
    BY <2>1, <2>2
<1>12. ASSUME NEW w \in Worker, CleanUp(w)
      PROVE  Goal
  BY <1>12 DEF CleanUp, Goto, storageDelete, deleteFails, Fault
<1>13. ASSUME NEW w \in Worker, Abort(w)
      PROVE  Goal
  BY <1>13 DEF Abort, Goto, markRequestFailed, GuardedUpdate, SetStatus
<1>14. ASSUME NEW w \in Worker, FailRequest(w)
      PROVE  Goal
  BY <1>14 DEF FailRequest, Goto, markRequestFailed, GuardedUpdate, SetStatus
<1>15. ASSUME NEW w \in Worker, Report(w)
      PROVE  Goal
  BY <1>15 DEF Report, Idle
<1>16. ASSUME NEW w \in Worker, Crash(w)
      PROVE  Goal
  BY <1>16 DEF Crash, Idle, Fault
<1>17. ASSUME NEW r \in Request, SweepDelete(r)
      PROVE  Goal
  BY <1>17 DEF SweepDelete, storageDelete, deleteFails, Fault
<1>18. ASSUME NEW r \in Request, SweepMark(r)
      PROVE  Goal
  BY <1>18 DEF SweepMark, markRequestExpired, GuardedUpdate, SetStatus
<1>19. ASSUME NEW r \in Request, ExpireOnDownload(r)
      PROVE  Goal
  BY <1>19 DEF ExpireOnDownload, Expired, markRequestExpired, GuardedUpdate,
               SetStatus
<1>20. ASSUME NEW r \in Request, DropFile(r)
      PROVE  Goal
  BY <1>20 DEF DropFile, storageDelete, deleteFails, Fault
<1>21. CASE SweepStart
  BY <1>21 DEF SweepStart, Expired
<1>22. CASE SweepFails
  BY <1>22 DEF SweepFails, Fault
<1>23. CASE Tick
  BY <1>23 DEF Tick, AgeRows, Age
<1>24. ASSUME NEW w \in Worker, StoreThrows(w)
      PROVE  Goal
  BY <1>24 DEF StoreThrows, Goto, Fault
<1>27. ASSUME NEW w \in Worker, CompleteUnacknowledged(w)
      PROVE  Goal
  BY <1>27 DEF CompleteUnacknowledged, Goto, markRequestCompleted, GuardedUpdate,
               SetStatus, Fault
<1>25. CASE UNCHANGED vars
  BY <1>25 DEF vars
<1>26. QED
  BY <1>1, <1>2, <1>3, <1>4, <1>5, <1>6, <1>7, <1>8, <1>9, <1>10, <1>11,
     <1>12, <1>13, <1>14, <1>15, <1>16, <1>17, <1>18, <1>19, <1>20, <1>21,
     <1>22, <1>23, <1>24, <1>25, <1>27
     DEF Next, WorkerStep, SweepStep

(* The second invariant, on a storage whose delete works.                  *)
LEMMA DeletionInvariance == ASSUME Adapter = "S3" PROVE Spec => []DeletionInv
<1>1. Init /\ FilesInv => DeletionInv
  BY DEF Init, DeletionInv, KeysOK, FilesAccountedFor, SoleClaim, SweptFileIsGone,
         ExpiredLeavesNoFile
<1>2. DeletionInv /\ FilesInv' /\ [Next]_vars => DeletionInv'
  BY DeletionStep
<1>3. QED
  BY <1>1, <1>2, FilesInvariance, PTL DEF Spec

(* With a storage that deletes what it is told to, the only files no row   *)
(* accounts for are those of a crash, of a failed deletion, of a cancelled *)
(* request or of one that was claimed more than once.                      *)
THEOREM EveryOrphanIsExplained ==
  ASSUME Adapter = "S3" PROVE Spec => []OrphansAreExplained
<1>1. DeletionInv => OrphansAreExplained
  BY DEF DeletionInv, FilesAccountedFor, OrphansAreExplained, Orphan, Explained
<1>2. QED
  BY <1>1, DeletionInvariance, PTL

(* With such a storage, an expired export has no file, but for a moment    *)
(* during a download request, or because a deletion failed.                *)
THEOREM ExpiredHasNoFile ==
  ASSUME Adapter = "S3" PROVE Spec => []ExpiredLeavesNoFile
<1>1. DeletionInv => ExpiredLeavesNoFile
  BY DEF DeletionInv
<1>2. QED
  BY <1>1, DeletionInvariance, PTL
-----------------------------------------------------------------------------
(* What a worker that alone has claimed its row knows about the status, as *)
(* long as nothing went wrong.                                             *)
Verdict(w) ==
  /\ stage[w] \in {"started", "rendered", "stored", "aborting"}
       => status[task[w]] = "PROCESSING"
  /\ stage[w] \in {"completed", "persisted", "announced"}
       => status[task[w]] \in {"COMPLETED", "EXPIRED"}
  /\ stage[w] = "failing" => status[task[w]] \in {"PROCESSING", "FAILED"}
  /\ stage[w] = "reporting" => status[task[w]] = "FAILED"

Disturbed(r) == claims[r] > 1 \/ status[r] = "CANCELLED"

NoticesInv ==
  faults = 0 =>
    /\ \A w \in Worker : stage[w] # "cleaning"
    /\ \A w \in Worker : Busy(w) => Disturbed(task[w]) \/ Verdict(w)
    /\ NotificationsAreTrue

(* Only one worker is busy with a request that was claimed once.           *)
LEMMA OneWorker ==
  ASSUME FilesInv, NEW v \in Worker, NEW w \in Worker, Busy(v), Busy(w),
         task[v] = task[w], ~ Disturbed(task[w])
  PROVE  v = w
BY DEF FilesInv, TypeOK, TasksOK, AttemptsDiffer, Key, Disturbed

LEMMA NoticesStep == FilesInv /\ NoticesInv /\ [Next]_vars => NoticesInv'
<1> SUFFICES ASSUME FilesInv, NoticesInv, [Next]_vars, faults' = 0
             PROVE  /\ \A w \in Worker : stage'[w] # "cleaning"
                    /\ \A w \in Worker : Busy(w)' => Disturbed(task[w])' \/ Verdict(w)'
                    /\ NotificationsAreTrue'
  BY DEF NoticesInv
<1> DEFINE Goal == /\ \A w \in Worker : stage'[w] # "cleaning"
                   /\ \A w \in Worker : Busy(w)' => Disturbed(task[w])' \/ Verdict(w)'
                   /\ NotificationsAreTrue'
<1> USE NoRequestAssumption
<1> USE DEF TypeOK, TableTypeOK, Status, Stages, TasksOK, Busy, Disturbed, Verdict,
            NoticesInv, NotificationsAreTrue,
            tableVars, exportVars, workerVars, cleanupVars
<1> USE DEF FilesInv
<1>1. ASSUME NEW r \in Request, requestExport(r)
      PROVE  Goal
  BY <1>1 DEF requestExport, createRequest, SetStatus
<1>2. ASSUME NEW r \in Request, Cancel(r)
      PROVE  Goal
  BY <1>2 DEF Cancel, markRequestCancelled, GuardedUpdate, SetStatus
<1>3. ASSUME NEW r \in Request, Overdue(r)
      PROVE  Goal
  BY <1>3 DEF Overdue
<1>4. ASSUME NEW w \in Worker, Claim(w)
      PROVE  Goal
  <2>1. PICK r \in Request : ClaimOf(w, r)
    BY <1>4, ClaimEffect
  <2>2. \A v \in Worker \ {w} : stage'[v] = stage[v] /\ task'[v] = task[v]
    BY <2>1 DEF ClaimOf
  <2>3. stage'[w] = "started" /\ task'[w] = r /\ status'[r] = "PROCESSING"
    BY <2>1 DEF ClaimOf
  <2>4. /\ claims'[r] = claims[r] + 1
        /\ \A q \in Request \ {r} : claims'[q] = claims[q] /\ status'[q] = status[q]
    BY <2>1 DEF ClaimOf
  <2>5. faults = 0 /\ sent' = sent
    BY <2>1 DEF ClaimOf
  <2>6. \A v \in Worker \ {w} : Busy(v) /\ task[v] = r => claims[r] + 1 > 1
    OBVIOUS
  <2>7. \A v \in Worker : stage'[v] # "cleaning"
    BY <2>2, <2>3, <2>5
  <2>8. \A v \in Worker : Busy(v)' => Disturbed(task[v])' \/ Verdict(v)'
    BY <2>2, <2>3, <2>4, <2>5, <2>6
  <2>9. NotificationsAreTrue'
    <3>1. status[r] \in {"PENDING", "PROCESSING"}
      BY <2>1 DEF ClaimOf
    <3>2. claims[r] + 1 <= 1 => claims[r] <= 1
      OBVIOUS
    <3>3. QED
      BY <2>3, <2>4, <2>5, <3>1, <3>2
  <2>10. QED
    BY <2>7, <2>8, <2>9
<1>5. ASSUME NEW w \in Worker, Prepare(w)
      PROVE  Goal
  BY <1>5 DEF Prepare, Goto
<1>6. ASSUME NEW w \in Worker, Store(w)
      PROVE  Goal
  BY <1>6 DEF Store, Goto
<1>7. ASSUME NEW w \in Worker, Complete(w)
      PROVE  Goal
  BY <1>7, OneWorker DEF Complete, Goto, markRequestCompleted, GuardedUpdate, SetStatus
<1>8. ASSUME NEW w \in Worker, Persist(w)
      PROVE  Goal
  BY <1>8 DEF Persist, Goto
<1>9. ASSUME NEW w \in Worker, NotifyReady(w)
      PROVE  Goal
  BY <1>9 DEF NotifyReady, Goto
<1>10. ASSUME NEW w \in Worker, Finish(w)
      PROVE  Goal
  BY <1>10 DEF Finish, Idle
<1>11. ASSUME NEW w \in Worker, Throw(w) \/ Crash(w) \/ StoreThrows(w)
                                 \/ CompleteUnacknowledged(w)
      PROVE  Goal
  BY <1>11 DEF Throw, Crash, StoreThrows, CompleteUnacknowledged, Fault
<1>12. ASSUME NEW w \in Worker, CleanUp(w)
      PROVE  Goal
  <2>1. faults = 0
    BY <1>12 DEF CleanUp, deleteFails, Fault
  <2>2. QED
    BY <2>1, <1>12 DEF CleanUp
<1>13. ASSUME NEW w \in Worker, Abort(w)
      PROVE  Goal
  BY <1>13, OneWorker DEF Abort, Goto, markRequestFailed, GuardedUpdate, SetStatus
<1>14. ASSUME NEW w \in Worker, FailRequest(w)
      PROVE  Goal
  BY <1>14, OneWorker DEF FailRequest, Goto, markRequestFailed, GuardedUpdate, SetStatus
<1>15. ASSUME NEW w \in Worker, Report(w)
      PROVE  Goal
  BY <1>15 DEF Report, Idle
<1>17. ASSUME NEW r \in Request, SweepDelete(r) \/ DropFile(r)
      PROVE  Goal
  BY <1>17 DEF SweepDelete, DropFile, deleteFails, Fault
<1>18. ASSUME NEW r \in Request, SweepMark(r)
      PROVE  Goal
  BY <1>18 DEF SweepMark, markRequestExpired, GuardedUpdate, SetStatus
<1>19. ASSUME NEW r \in Request, ExpireOnDownload(r)
      PROVE  Goal
  BY <1>19 DEF ExpireOnDownload, Expired, markRequestExpired, GuardedUpdate,
               SetStatus
<1>21. CASE SweepStart
  BY <1>21 DEF SweepStart
<1>22. CASE SweepFails
  BY <1>22 DEF SweepFails, Fault
<1>23. CASE Tick
  BY <1>23 DEF Tick, AgeRows
<1>25. CASE UNCHANGED vars
  BY <1>25 DEF vars
<1>26. QED
  BY <1>1, <1>2, <1>3, <1>4, <1>5, <1>6, <1>7, <1>8, <1>9, <1>10, <1>11,
     <1>12, <1>13, <1>14, <1>15, <1>17, <1>18, <1>19, <1>21,
     <1>22, <1>23, <1>25
     DEF Next, WorkerStep, SweepStep

(* The owner is told the truth as long as nothing fails, the row is not    *)
(* cancelled, and it is claimed once: the worker that reports a verdict is *)
(* then the one whose guarded update gave it.                              *)
THEOREM OwnersAreToldTheTruth == Spec => []NotificationsAreTrue
<1>1. Init => NoticesInv
  BY DEF Init, NoticesInv, NotificationsAreTrue, Busy
<1>2. NoticesInv /\ FilesInv => NotificationsAreTrue
  BY DEF NoticesInv, NotificationsAreTrue, FilesInv, TypeOK
<1>3. QED
  BY <1>1, <1>2, NoticesStep, FilesInvariance, PTL DEF Spec
-----------------------------------------------------------------------------
(* How often a request is claimed.  Who gives it back undecided has failed, *)
(* so that every claim is that of a worker still at it, or cost a fault.   *)
On(r) == {w \in Worker : task[w] = r}

Undecided(r) == status[r] \in {"NONE", "PENDING", "PROCESSING"}

ClaimsInv ==
  /\ \A w \in Worker : Busy(w) => status[task[w]] \notin {"NONE", "PENDING"}
  /\ \A w \in Worker :
       stage[w] \in {"completed", "persisted", "announced", "reporting"}
         => status[task[w]] # "PROCESSING"
  /\ \A r \in Request : Undecided(r) => claims[r] <= Cardinality(On(r)) + faults
  /\ ClaimsAreBounded

LEMMA OnIsBounded ==
  ASSUME IsFiniteSet(Worker), NEW r
  PROVE  /\ IsFiniteSet(On(r)) /\ Cardinality(On(r)) \in Nat
         /\ Cardinality(Worker) \in Nat
         /\ Cardinality(On(r)) <= Cardinality(Worker)
BY FS_Subset, FS_CardinalityType DEF On

(* A step in which nobody claims or gives up a request.                    *)
LEMMA ClaimsKept ==
  ASSUME IsFiniteSet(Worker), TypeOK, TypeOK', ClaimsInv,
         task' = task, claims' = claims, faults' >= faults,
         \A r \in Request : Undecided(r)' => Undecided(r)
  PROVE  /\ \A r \in Request : Undecided(r)' => claims'[r] <= Cardinality(On(r)') + faults'
         /\ ClaimsAreBounded'
<1>1. \A r \in Request : On(r)' = On(r)
  BY DEF On
<1>2. QED
  BY <1>1, OnIsBounded DEF ClaimsInv, ClaimsAreBounded, TypeOK

(* A step in which a worker gives up a decided request, or fails.          *)
LEMMA ClaimsGivenUp ==
  ASSUME IsFiniteSet(Worker), TypeOK, TypeOK', ClaimsInv, NEW w \in Worker,
         task[w] \in Request, task' = [task EXCEPT ![w] = NoRequest],
         claims' = claims, status' = status,
         \/ faults' = faults /\ ~ Undecided(task[w])
         \/ faults' = faults + 1
  PROVE  /\ \A r \in Request : Undecided(r)' => claims'[r] <= Cardinality(On(r)') + faults'
         /\ ClaimsAreBounded'
<1>0. PICK q \in Request : q = task[w]
  OBVIOUS
<1>1. \A r \in Request : r # q => On(r)' = On(r)
  BY <1>0, NoRequestAssumption DEF On, TypeOK
<1>2. On(q)' = On(q) \ {w}
  BY <1>0, NoRequestAssumption DEF On, TypeOK
<1>3. w \in On(q)
  BY <1>0 DEF On
<1>4. Cardinality(On(q)') = Cardinality(On(q)) - 1
  BY <1>2, <1>3, OnIsBounded, FS_RemoveElement
<1>5. ASSUME NEW r \in Request, Undecided(r)'
      PROVE  claims'[r] <= Cardinality(On(r)') + faults'
  <2>0. /\ claims[r] \in Nat /\ faults \in Nat
        /\ Cardinality(On(r)) \in Nat /\ Cardinality(On(q)) \in Nat
    BY OnIsBounded, FaultsAssumption DEF TypeOK
  <2>1. Undecided(r) /\ claims[r] <= Cardinality(On(r)) + faults
    BY <1>5 DEF ClaimsInv, Undecided
  <2>2. CASE r = q
    <3>1. faults' = faults + 1
      BY <1>0, <2>1, <2>2
    <3>2. Cardinality(On(r)') = Cardinality(On(r)) - 1
      BY <1>4, <2>2
    <3>3. QED
      BY <2>0, <2>1, <3>1, <3>2
  <2>3. CASE r # q
    <3>1. On(r)' = On(r) /\ (faults' = faults \/ faults' = faults + 1)
      BY <1>1, <2>3
    <3>2. QED
      BY <2>0, <2>1, <3>1
  <2>4. QED
    BY <2>2, <2>3
<1>6. ClaimsAreBounded'
  BY OnIsBounded DEF ClaimsInv, ClaimsAreBounded, TypeOK
<1>7. QED
  BY <1>5, <1>6

LEMMA ClaimsStep ==
  ASSUME IsFiniteSet(Worker), FilesInv, FilesInv', ClaimsInv, [Next]_vars
  PROVE  ClaimsInv'
<1> DEFINE Stays == /\ \A w \in Worker :
                           Busy(w)' => status'[task'[w]] \notin {"NONE", "PENDING"}
                    /\ \A w \in Worker :
                           stage'[w] \in {"completed", "persisted", "announced", "reporting"}
                             => status'[task'[w]] # "PROCESSING"
           Bounded == /\ \A r \in Request :
                            Undecided(r)' => claims'[r] <= Cardinality(On(r)') + faults'
                      /\ ClaimsAreBounded'
           Same == /\ task' = task /\ claims' = claims /\ faults' >= faults
                   /\ \A r \in Request : Undecided(r)' => Undecided(r)
<1> SUFFICES Stays /\ Bounded
  BY DEF ClaimsInv
<1> USE NoRequestAssumption
<1>0. TypeOK /\ TypeOK' /\ TasksOK /\ TasksOK'
  BY DEF FilesInv
<1>a. Same => Bounded
  BY <1>0, ClaimsKept
<1>b. ASSUME NEW w \in Worker, task[w] \in Request,
             task' = [task EXCEPT ![w] = NoRequest], claims' = claims, status' = status,
             \/ faults' = faults /\ ~ Undecided(task[w])
             \/ faults' = faults + 1
      PROVE  Bounded
  BY <1>0, <1>b, ClaimsGivenUp
<1> HIDE DEF Bounded
<1> USE DEF TypeOK, TableTypeOK, Status, Stages, TasksOK, Busy, Undecided,
            tableVars, exportVars, workerVars, cleanupVars
<1> USE DEF ClaimsInv
<1>1. ASSUME NEW r \in Request, requestExport(r)
      PROVE  Stays /\ Bounded
  BY <1>1, <1>0, <1>a DEF requestExport, createRequest, SetStatus
<1>2. ASSUME NEW r \in Request, Cancel(r)
      PROVE  Stays /\ Bounded
  BY <1>2, <1>0, <1>a DEF Cancel, markRequestCancelled, GuardedUpdate, SetStatus
<1>3. ASSUME NEW r \in Request, Overdue(r)
      PROVE  Stays /\ Bounded
  BY <1>3, <1>0, <1>a DEF Overdue
<1>4. ASSUME NEW w \in Worker, Claim(w)
      PROVE  Stays /\ Bounded
  <2>1. PICK r \in Request : ClaimOf(w, r)
    BY <1>4, ClaimEffect
  <2>2. Stays
    BY <2>1, <1>0 DEF ClaimOf
  <2>3. On(r)' = On(r) \cup {w} /\ w \notin On(r)
    BY <2>1, <1>0 DEF ClaimOf, On
  <2>4. \A q \in Request \ {r} : On(q)' = On(q)
    BY <2>1, <1>0 DEF ClaimOf, On
  <2>5. Cardinality(On(r)') = Cardinality(On(r)) + 1
    BY <2>3, OnIsBounded, FS_AddElement
  <2>6. On(r)' \subseteq Worker
    BY DEF On
  <2>7. Cardinality(On(r)') <= Cardinality(Worker)
    BY <2>6, FS_Subset
  <2>8. claims[r] <= Cardinality(On(r)) + faults
    BY <2>1 DEF ClaimOf
  <2>9. /\ claims'[r] = claims[r] + 1 /\ faults' = faults
        /\ \A q \in Request \ {r} : claims'[q] = claims[q] /\ status'[q] = status[q]
    BY <2>1, <1>0 DEF ClaimOf
  <2>10. claims'[r] <= Cardinality(On(r)') + faults'
    BY <2>5, <2>8, <2>9, <1>0, OnIsBounded
  <2>11. ASSUME NEW q \in Request, Undecided(q)'
         PROVE  claims'[q] <= Cardinality(On(q)') + faults'
    BY <2>4, <2>9, <2>10, <2>11
  <2>12. ClaimsAreBounded'
    <3>1. claims'[r] <= Cardinality(Worker) + faults'
      BY <2>7, <2>10, <2>5, <1>0, OnIsBounded
    <3>2. QED
      BY <3>1, <2>9 DEF ClaimsAreBounded
  <2>13. QED
    BY <2>2, <2>11, <2>12 DEF Bounded
<1>5. ASSUME NEW w \in Worker, Prepare(w)
      PROVE  Stays /\ Bounded
  BY <1>5, <1>0, <1>a DEF Prepare, Goto
<1>6. ASSUME NEW w \in Worker, Store(w)
      PROVE  Stays /\ Bounded
  BY <1>6, <1>0, <1>a DEF Store, Goto
<1>7. ASSUME NEW w \in Worker, Complete(w)
      PROVE  Stays /\ Bounded
  BY <1>7, <1>0, <1>a DEF Complete, Goto, markRequestCompleted, GuardedUpdate, SetStatus
<1>8. ASSUME NEW w \in Worker, Persist(w)
      PROVE  Stays /\ Bounded
  BY <1>8, <1>0, <1>a DEF Persist, Goto
<1>9. ASSUME NEW w \in Worker, NotifyReady(w)
      PROVE  Stays /\ Bounded
  BY <1>9, <1>0, <1>a DEF NotifyReady, Goto
<1>10. ASSUME NEW w \in Worker, Finish(w) \/ Report(w)
       PROVE  Stays /\ Bounded
  <2>1. /\ task[w] \in Request /\ ~ Undecided(task[w])
        /\ task' = [task EXCEPT ![w] = NoRequest] /\ stage' = [stage EXCEPT ![w] = "idle"]
        /\ claims' = claims /\ status' = status /\ faults' = faults
    BY <1>10, <1>0 DEF Finish, Report, Idle
  <2>2. QED
    BY <2>1, <1>0, <1>b
<1>11. ASSUME NEW w \in Worker, Throw(w) \/ Crash(w)
       PROVE  Stays /\ Bounded
  <2>1. /\ task[w] \in Request /\ claims' = claims /\ status' = status
        /\ faults' = faults + 1
    BY <1>11, <1>0 DEF Throw, Crash, OnError, Fault
  <2>2. CASE Idle(w)
    BY <2>1, <2>2, <1>0, <1>b DEF Idle
  <2>3. CASE Throw(w) /\ Goto(w, OnError[stage[w]])
    BY <2>1, <2>3, <1>0, <1>a DEF Throw, Goto, OnError
  <2>4. QED
    BY <1>11, <2>2, <2>3 DEF Throw, Crash
<1>12. ASSUME NEW w \in Worker, CleanUp(w)
      PROVE  Stays /\ Bounded
  BY <1>12, <1>0, <1>a DEF CleanUp, Goto, deleteFails, Fault
<1>13. ASSUME NEW w \in Worker, Abort(w)
      PROVE  Stays /\ Bounded
  BY <1>13, <1>0, <1>a DEF Abort, Goto, markRequestFailed, GuardedUpdate, SetStatus
<1>14. ASSUME NEW w \in Worker, FailRequest(w)
      PROVE  Stays /\ Bounded
  BY <1>14, <1>0, <1>a DEF FailRequest, Goto, markRequestFailed, GuardedUpdate, SetStatus
<1>15. ASSUME NEW w \in Worker, StoreThrows(w)
      PROVE  Stays /\ Bounded
  BY <1>15, <1>0, <1>a DEF StoreThrows, Goto, Fault
<1>16. ASSUME NEW w \in Worker, CompleteUnacknowledged(w)
      PROVE  Stays /\ Bounded
  BY <1>16, <1>0, <1>a DEF CompleteUnacknowledged, Goto, markRequestCompleted,
                           GuardedUpdate, SetStatus, Fault
<1>17. ASSUME NEW r \in Request, SweepDelete(r) \/ DropFile(r)
      PROVE  Stays /\ Bounded
  BY <1>17, <1>0, <1>a DEF SweepDelete, DropFile, deleteFails, Fault
<1>18. ASSUME NEW r \in Request, SweepMark(r)
      PROVE  Stays /\ Bounded
  BY <1>18, <1>0, <1>a DEF SweepMark, markRequestExpired, GuardedUpdate, SetStatus
<1>19. ASSUME NEW r \in Request, ExpireOnDownload(r)
      PROVE  Stays /\ Bounded
  BY <1>19, <1>0, <1>a DEF ExpireOnDownload, Expired, markRequestExpired, GuardedUpdate,
               SetStatus
<1>21. CASE SweepStart \/ SweepFails
  BY <1>21, <1>0, <1>a DEF SweepStart, SweepFails, Fault
<1>23. CASE Tick
  BY <1>23, <1>0, <1>a DEF Tick, AgeRows
<1>25. CASE UNCHANGED vars
  BY <1>25, <1>0, <1>a DEF vars
<1>26. QED
  BY <1>1, <1>2, <1>3, <1>4, <1>5, <1>6, <1>7, <1>8, <1>9, <1>10, <1>11,
     <1>12, <1>13, <1>14, <1>15, <1>16, <1>17, <1>18, <1>19, <1>21,
     <1>23, <1>25
     DEF Next, WorkerStep, SweepStep

(* Claims do not go round and round: with finitely many workers a request  *)
(* is claimed once for each of them, and once more for each fault.         *)
THEOREM ClaimsStayBounded ==
  ASSUME IsFiniteSet(Worker) PROVE Spec => []ClaimsAreBounded
<1>1. ASSUME Init PROVE ClaimsInv
  <2>1. /\ \A r \in Request : claims[r] = 0
        /\ faults = 0
        /\ \A w \in Worker : stage[w] = "idle"
    BY <1>1 DEF Init
  <2>2. Cardinality(Worker) \in Nat /\ \A r : Cardinality(On(r)) \in Nat
    BY OnIsBounded
  <2>3. \A r \in Request : claims[r] <= Cardinality(On(r)) + faults
    BY <2>1, <2>2
  <2>4. ClaimsAreBounded
    BY <2>1, <2>2 DEF ClaimsAreBounded
  <2>5. QED
    BY <2>1, <2>3, <2>4 DEF ClaimsInv, Busy
<1>2. ClaimsInv /\ FilesInv /\ FilesInv' /\ [Next]_vars => ClaimsInv'
  BY ClaimsStep
<1>3. ClaimsInv => ClaimsAreBounded
  BY DEF ClaimsInv
<1>4. QED
  BY <1>1, <1>2, <1>3, FilesInvariance, PTL DEF Spec

-----------------------------------------------------------------------------
(* The pipeline together with the deletion of the account.                 *)

(* Every action of the composition is one of the pipeline, or leaves the   *)
(* variables of the pipeline alone.                                        *)
LEMMA StepIsPipelineStep == JointNext => [Next]_vars
<1> SUFFICES ASSUME JointStep PROVE [Next]_vars
  BY DEF JointNext
<1>1. ASSUME NEW c \in Call, Enter(c) PROVE [Next]_vars
  BY <1>1 DEF Enter
<1>2. ASSUME NEW r \in Request, AskForExport(r) \/ MeetOverdue(r) \/ CancelExport(r)
      PROVE  [Next]_vars
  BY <1>2 DEF AskForExport, MeetOverdue, CancelExport, Next
<1>3. CASE Write \/ markAsPendingDeletion \/ FindExports \/ CancellingFails \/ OpenDeletion
             \/ DeletionInterrupted \/ StartErasing \/ ErasingFails \/ anonymizeIdentity
  BY <1>3 DEF Write, markAsPendingDeletion, FindExports, CancellingFails, OpenDeletion,
              DeletionInterrupted, StartErasing, ErasingFails, anonymizeIdentity
<1>4. ASSUME NEW p \in Pass, EraseTable(p) PROVE [Next]_vars
  BY <1>4 DEF EraseTable
<1>5. ASSUME NEW w \in Worker,
             \/ ClaimExport(w) \/ Collect(w) \/ IdentityFails(w) \/ SourceFails(w)
             \/ BuildAndRender(w) \/ StoreFile(w) \/ CheckOwner(w) \/ WriteNotice(w)
             \/ GoOn(w) \/ Stop(w)
      PROVE  [Next]_vars
  <2>1. CASE ClaimExport(w)
    BY <2>1 DEF ClaimExport, Next
  <2>2. CASE Collect(w) \/ SourceFails(w)
    BY <2>2 DEF Collect, SourceFails
  <2>3. CASE IdentityFails(w) \/ BuildAndRender(w)
    BY <2>3 DEF IdentityFails, BuildAndRender, Next, WorkerStep
  <2>4. CASE StoreFile(w)
    BY <2>4 DEF StoreFile, Next, WorkerStep
  <2>5. CASE CheckOwner(w) \/ WriteNotice(w)
    BY <2>5 DEF CheckOwner, WriteNotice, Notify, Next, WorkerStep
  <2>6. CASE GoOn(w)
    BY <2>6 DEF GoOn, Pipeline, Next, WorkerStep
  <2>7. CASE Stop(w)
    BY <2>7 DEF Stop, Next
  <2> QED BY <1>5, <2>1, <2>2, <2>3, <2>4, <2>5, <2>6, <2>7
<1>6. CASE DeleteFile
  BY <1>6 DEF DeleteFile, Next, WorkerStep, SweepStep
<1>7. CASE Retention
  BY <1>7 DEF Retention, Next, SweepStep
<1> QED BY <1>1, <1>2, <1>3, <1>4, <1>5, <1>6, <1>7 DEF JointStep

(* The composition implements the pipeline: requests are still claimed,    *)
(* completed, failed, cancelled and expired as GdprExport has it.          *)
THEOREM JointImplementsExport == JointSpec => ImplementsExport
<1>1. JointInit => Init
  BY DEF JointInit
<1>2. [JointNext]_jointVars => [Next]_vars
  BY StepIsPipelineStep DEF jointVars
<1> QED BY <1>1, <1>2, PTL DEF JointSpec, ImplementsExport, Spec

(* What is offered for download is there, while the account is deleted     *)
(* around it.                                                              *)
THEOREM JointDownloadable == JointSpec => []DownloadableHasFile
BY JointImplementsExport, CompletedIsDownloadable, PTL DEF ImplementsExport

(* A file that no row announces has one of the causes of GdprExport: the   *)
(* deletion adds none.                                                     *)
THEOREM JointOrphansExplained ==
  ASSUME Adapter = "S3" PROVE JointSpec => []OrphansAreExplained
BY JointImplementsExport, EveryOrphanIsExplained, PTL DEF ImplementsExport

-----------------------------------------------------------------------------
(* Nothing that was under way could write when the account was locked.     *)
Undisturbed == late \cap {"write", "notice"} = {}

(* What is under way after the locking was under way before.               *)
UnderWay ==
  /\ ~ Locked => late = {}
  /\ Locked => /\ "write" \in calls => "write" \in late
               /\ \A w \in Worker : copy[w].reading = "notice" => "notice" \in late

(* The tables not yet passed by the erasure are all that may have rows.    *)
Erased ==
  Undisturbed =>
    /\ deletion = "erasing" => data \subseteq left["erase"]
    /\ deletion = "done" => data = {}

(* A collection that began after the erasure has found nothing.            *)
LateFindsNothing ==
  /\ \A w \in Worker :
       copy[w].reading \in Source /\ ~ copy[w].early => deletion = "done"
  /\ Undisturbed =>
       /\ \A w \in Worker : ~ copy[w].early => copy[w].got = {}
       /\ \A k \in objects : contents[k].has # {} => contents[k].early

ErasureTypes ==
  /\ copy \in [Worker -> Copy]
  /\ left \in [Pass -> SUBSET Table]
  /\ data \subseteq Table
  /\ deletion \in Deletion

ErasureInv == ErasureTypes /\ UnderWay /\ Erased /\ LateFindsNothing

LEMMA FollowingKind == \A s \in Source : Following(s) \in Source \cup {"built"}
<1> SUFFICES ASSUME NEW s \in Source PROVE Following(s) \in Source \cup {"built"}
  OBVIOUS
<1> DEFINE n == CHOOSE m \in 1 .. 4 : Sources[m] = s
<1>1. Following(s) = Sources[1 + n]
  BY DEF Following
<1>2. n \in 1 .. 4
  BY DEF Source
<1> HIDE DEF n
<1>3. Sources[5] = "built"
  BY DEF Sources
<1>4. \A m \in 1 .. 4 : Sources[m] \in Source
  BY DEF Source
<1>5. n = 4 \/ 1 + n \in 1 .. 4
  BY <1>2
<1>6. CASE n = 4
  <2>1. 1 + n = 5
    BY <1>6
  <2> QED BY <1>1, <1>3, <2>1
<1> QED BY <1>1, <1>4, <1>5, <1>6

LEMMA Kinds ==
  /\ Source = {"identity", "profile", "notifications", "preferences"}
  /\ Blank \in Copy /\ Blank.reading = "nothing" /\ Blank.got = {} /\ ~ Blank.early
<1>1. Source = {Sources[1], Sources[2], Sources[3], Sources[4]}
  BY DEF Source
<1> QED BY <1>1 DEF Sources, Blank, Copy

LEMMA ErasureTypesStep == ErasureTypes /\ [JointNext]_jointVars => ErasureTypes'
<1> SUFFICES ASSUME ErasureTypes, JointStep \/ UNCHANGED jointVars PROVE ErasureTypes'
  BY DEF JointNext
<1> USE Kinds DEF ErasureTypes, Becomes
<1>1. ASSUME NEW c \in Call, Enter(c) PROVE ErasureTypes'
  BY <1>1 DEF Enter
<1>2. ASSUME NEW r \in Request, AskForExport(r) \/ MeetOverdue(r) \/ CancelExport(r)
      PROVE  ErasureTypes'
  BY <1>2 DEF AskForExport, MeetOverdue, CancelExport
<1>3. CASE Write \/ markAsPendingDeletion \/ FindExports \/ CancellingFails
  BY <1>3 DEF Write, markAsPendingDeletion, FindExports, CancellingFails, Deletion, Table
<1>4. CASE OpenDeletion \/ DeletionInterrupted \/ StartErasing \/ ErasingFails
             \/ anonymizeIdentity
  <2>1. Immediate \subseteq Table
    BY DEF Immediate, Table
  <2>2. CASE OpenDeletion
    BY <2>1, <2>2 DEF OpenDeletion, Deletion
  <2>3. CASE DeletionInterrupted
    BY <2>3 DEF DeletionInterrupted, Deletion
  <2>4. CASE StartErasing
    BY <2>4 DEF StartErasing, Deletion
  <2>5. CASE ErasingFails
    BY <2>5 DEF ErasingFails, Deletion
  <2>6. CASE anonymizeIdentity
    BY <2>6 DEF anonymizeIdentity, Deletion
  <2> QED BY <1>4, <2>2, <2>3, <2>4, <2>5, <2>6
<1>5. ASSUME NEW p \in Pass, EraseTable(p) PROVE ErasureTypes'
  BY <1>5 DEF EraseTable
<1>6. ASSUME NEW w \in Worker,
             \/ ClaimExport(w) \/ Collect(w) \/ IdentityFails(w) \/ SourceFails(w)
             \/ BuildAndRender(w) \/ StoreFile(w) \/ CheckOwner(w) \/ WriteNotice(w)
             \/ GoOn(w) \/ Stop(w)
      PROVE  ErasureTypes'
  <2> USE DEF accountVars
  <2>1. CASE ClaimExport(w) \/ CheckOwner(w)
    <3>1. /\ [Blank EXCEPT !.reading = "identity", !.early = deletion # "done"] \in Copy
          /\ [Blank EXCEPT !.reading = "notice"] \in Copy
      BY DEF Copy, Blank
    <3>2. copy' \in [Worker -> Copy]
      BY <2>1, <3>1 DEF ClaimExport, CheckOwner
    <3> QED BY <2>1, <3>2 DEF ClaimExport, CheckOwner
  <2>2. CASE Collect(w)
    <3>1. Following(copy[w].reading) \in Source \cup {"built"}
      BY <2>2, FollowingKind DEF Collect
    <3>2. copy[w].got \cup {copy[w].reading} \subseteq Table \/ ~ Found(copy[w])
      BY DEF Found, Copy
    <3>3. copy' \in [Worker -> Copy]
      BY <2>2, <3>1, <3>2 DEF Collect, Copy
    <3> QED BY <2>2, <3>3 DEF Collect
  <2>3. CASE SourceFails(w)
    <3>1. Following(copy[w].reading) \in Source \cup {"built"}
      BY <2>3, FollowingKind DEF SourceFails
    <3> QED BY <2>3, <3>1 DEF SourceFails, Copy
  <2>4. CASE IdentityFails(w) \/ BuildAndRender(w) \/ StoreFile(w)
    BY <2>4 DEF IdentityFails, BuildAndRender, StoreFile
  <2>5. CASE WriteNotice(w)
    BY <2>5 DEF WriteNotice, Table
  <2>6. CASE GoOn(w) \/ Stop(w)
    BY <2>6 DEF GoOn, Stop
  <2> QED BY <1>6, <2>1, <2>2, <2>3, <2>4, <2>5, <2>6
<1>7. CASE DeleteFile \/ Retention \/ UNCHANGED jointVars
  BY <1>7 DEF DeleteFile, Retention, jointVars, accountVars
<1> QED BY <1>1, <1>2, <1>3, <1>4, <1>5, <1>6, <1>7 DEF JointStep

(* Enter needs an account that is not locked, and so does the check before *)
(* a notification; the locking takes down what is under way.               *)
LEMMA UnderWayStep == ErasureTypes /\ UnderWay /\ [JointNext]_jointVars => UnderWay'
<1> SUFFICES ASSUME ErasureTypes, UnderWay, JointStep \/ UNCHANGED jointVars PROVE UnderWay'
  BY DEF JointNext
<1> USE Kinds DEF ErasureTypes, UnderWay, Locked, Becomes
<1>1. ASSUME NEW c \in Call, Enter(c) PROVE UnderWay'
  BY <1>1 DEF Enter
<1>2. ASSUME NEW r \in Request, AskForExport(r) \/ MeetOverdue(r) \/ CancelExport(r)
      PROVE  UnderWay'
  BY <1>2 DEF AskForExport, MeetOverdue, CancelExport
<1>3. CASE markAsPendingDeletion
  BY <1>3 DEF markAsPendingDeletion
<1>4. CASE Write \/ FindExports \/ CancellingFails \/ OpenDeletion \/ DeletionInterrupted
             \/ StartErasing \/ ErasingFails \/ anonymizeIdentity
  <2>1. CASE Write
    BY <2>1 DEF Write
  <2>2. CASE FindExports \/ OpenDeletion \/ StartErasing
    BY <2>2 DEF FindExports, OpenDeletion, StartErasing
  <2>3. CASE CancellingFails
    BY <2>3 DEF CancellingFails
  <2>4. CASE DeletionInterrupted
    BY <2>4 DEF DeletionInterrupted
  <2>5. CASE ErasingFails \/ anonymizeIdentity
    BY <2>5 DEF ErasingFails, anonymizeIdentity
  <2> QED BY <1>4, <2>1, <2>2, <2>3, <2>4, <2>5
<1>5. ASSUME NEW p \in Pass, EraseTable(p) PROVE UnderWay'
  BY <1>5 DEF EraseTable
<1>6. ASSUME NEW w \in Worker,
             \/ ClaimExport(w) \/ Collect(w) \/ IdentityFails(w) \/ SourceFails(w)
             \/ BuildAndRender(w) \/ StoreFile(w) \/ CheckOwner(w) \/ WriteNotice(w)
             \/ GoOn(w) \/ Stop(w)
      PROVE  UnderWay'
  <2> USE DEF accountVars
  <2>1. CASE ClaimExport(w)
    <3>1. [Blank EXCEPT !.reading = "identity", !.early = deletion # "done"].reading
            = "identity"
      BY DEF Blank
    <3> QED BY <2>1, <3>1 DEF ClaimExport
  <2>2. CASE Collect(w) \/ SourceFails(w)
    <3>1. Following(copy[w].reading) # "notice"
      BY <2>2, FollowingKind DEF Collect, SourceFails
    <3>2. copy'[w].reading # "notice" /\ \A v \in Worker \ {w} : copy'[v] = copy[v]
      <4>1. CASE Collect(w)
        BY <3>1, <4>1 DEF Collect, Copy
      <4>2. CASE SourceFails(w)
        BY <3>1, <4>2 DEF SourceFails, Copy
      <4> QED BY <2>2, <4>1, <4>2
    <3>3. UNCHANGED <<calls, late, deletion>>
      BY <2>2 DEF Collect, SourceFails
    <3> QED BY <3>2, <3>3
  <2>3. CASE CheckOwner(w)
    BY <2>3 DEF CheckOwner, MayBeNotified
  <2>4. CASE IdentityFails(w) \/ BuildAndRender(w) \/ StoreFile(w) \/ WriteNotice(w)
    BY <2>4 DEF IdentityFails, BuildAndRender, StoreFile, WriteNotice
  <2>5. CASE GoOn(w) \/ Stop(w)
    BY <2>5 DEF GoOn, Stop
  <2> QED BY <1>6, <2>1, <2>2, <2>3, <2>4, <2>5
<1>7. CASE DeleteFile \/ Retention \/ UNCHANGED jointVars
  BY <1>7 DEF DeleteFile, Retention, jointVars, accountVars
<1> QED BY <1>1, <1>2, <1>3, <1>4, <1>5, <1>6, <1>7 DEF JointStep

(* A table is passed by when it is empty, and only a late call or          *)
(* notification fills it again.                                            *)
LEMMA ErasedStep ==
  ErasureTypes /\ UnderWay /\ Erased /\ [JointNext]_jointVars => Erased'
<1> SUFFICES ASSUME ErasureTypes, UnderWay, Erased, JointStep \/ UNCHANGED jointVars
             PROVE  Erased'
  BY DEF JointNext
<1> USE DEF ErasureTypes, Erased, Undisturbed
<1>1. ASSUME NEW c \in Call, Enter(c) PROVE Erased'
  BY <1>1 DEF Enter
<1>2. ASSUME NEW r \in Request, AskForExport(r) \/ MeetOverdue(r) \/ CancelExport(r)
      PROVE  Erased'
  BY <1>2 DEF AskForExport, MeetOverdue, CancelExport
<1>3. CASE Write
  BY <1>3 DEF Write, UnderWay, Locked
<1>4. CASE markAsPendingDeletion \/ FindExports \/ CancellingFails \/ OpenDeletion
  BY <1>4 DEF markAsPendingDeletion, FindExports, CancellingFails, OpenDeletion
<1>5. CASE DeletionInterrupted
  BY <1>5 DEF DeletionInterrupted
<1>6. CASE StartErasing
  BY <1>6 DEF StartErasing, Pass
<1>7. CASE ErasingFails \/ anonymizeIdentity
  BY <1>7 DEF ErasingFails, anonymizeIdentity
<1>8. ASSUME NEW p \in Pass, EraseTable(p) PROVE Erased'
  BY <1>8 DEF EraseTable, Pass
<1>9. ASSUME NEW w \in Worker,
             \/ ClaimExport(w) \/ Collect(w) \/ IdentityFails(w) \/ SourceFails(w)
             \/ BuildAndRender(w) \/ StoreFile(w) \/ CheckOwner(w) \/ WriteNotice(w)
             \/ GoOn(w) \/ Stop(w)
      PROVE  Erased'
  <2>1. CASE WriteNotice(w)
    BY <2>1 DEF WriteNotice, UnderWay, Locked
  <2>2. CASE ~ WriteNotice(w)
    BY <1>9, <2>2 DEF accountVars, ClaimExport, Collect, IdentityFails, SourceFails,
       BuildAndRender, StoreFile, CheckOwner, GoOn, Stop
  <2> QED BY <2>1, <2>2
<1>10. CASE DeleteFile \/ Retention \/ UNCHANGED jointVars
  BY <1>10 DEF DeleteFile, Retention, jointVars, accountVars
<1> QED BY <1>1, <1>2, <1>3, <1>4, <1>5, <1>6, <1>7, <1>8, <1>9, <1>10 DEF JointStep

(* The erasure is over when the account is anonymized, and nothing undoes  *)
(* that.                                                                   *)
LEMMA DoneStays == deletion = "done" /\ [JointNext]_jointVars => deletion' = "done"
<1> SUFFICES ASSUME deletion = "done", JointStep \/ UNCHANGED jointVars
             PROVE  deletion' = "done"
  BY DEF JointNext
<1>1. ASSUME NEW r \in Request, AskForExport(r) \/ MeetOverdue(r) \/ CancelExport(r)
      PROVE  deletion' = "done"
  BY <1>1 DEF AskForExport, MeetOverdue, CancelExport
<1>2. ASSUME NEW w \in Worker,
             \/ ClaimExport(w) \/ Collect(w) \/ IdentityFails(w) \/ SourceFails(w)
             \/ BuildAndRender(w) \/ StoreFile(w) \/ CheckOwner(w) \/ WriteNotice(w)
             \/ GoOn(w) \/ Stop(w)
      PROVE  deletion' = "done"
  BY <1>2 DEF accountVars, ClaimExport, Collect, IdentityFails, SourceFails,
     BuildAndRender, StoreFile, CheckOwner, WriteNotice, GoOn, Stop
<1>3. CASE DeleteFile \/ Retention \/ UNCHANGED jointVars
  BY <1>3 DEF DeleteFile, Retention, jointVars, accountVars
<1>4. CASE Write \/ markAsPendingDeletion \/ FindExports \/ CancellingFails \/ OpenDeletion
             \/ DeletionInterrupted \/ StartErasing \/ ErasingFails \/ anonymizeIdentity
  BY <1>4 DEF Write, markAsPendingDeletion, FindExports, CancellingFails, OpenDeletion,
     DeletionInterrupted, StartErasing, ErasingFails, anonymizeIdentity
<1>5. ASSUME NEW c \in Call, NEW p \in Pass, Enter(c) \/ EraseTable(p)
      PROVE  deletion' = "done"
  BY <1>5 DEF Enter, EraseTable
<1>6. Call # {} /\ Pass # {}
  BY DEF Call, Pass
<1> QED BY <1>1, <1>2, <1>3, <1>4, <1>5, <1>6 DEF JointStep

(* Only storing and deleting files changes what is stored.                 *)
LEMMA OthersAreNotFiles ==
  JointNext /\ ~ DeleteFile /\ (\A w \in Worker : ~ StoreFile(w))
    => UNCHANGED <<objects, contents>>
<1> DEFINE Same == UNCHANGED <<objects, contents>>
<1> SUFFICES ASSUME JointStep, ~ DeleteFile, \A w \in Worker : ~ StoreFile(w) PROVE Same
  BY DEF JointNext
<1>1. ASSUME NEW c \in Call, Enter(c) PROVE Same
  BY <1>1 DEF Enter, vars
<1>2. ASSUME NEW r \in Request, AskForExport(r) \/ MeetOverdue(r) \/ CancelExport(r)
      PROVE  Same
  BY <1>2 DEF AskForExport, MeetOverdue, CancelExport, requestExport, ExpireOnDownload, Cancel
<1>3. CASE Write \/ markAsPendingDeletion \/ FindExports \/ CancellingFails \/ OpenDeletion
             \/ DeletionInterrupted \/ StartErasing \/ ErasingFails \/ anonymizeIdentity
  BY <1>3 DEF vars, Write, markAsPendingDeletion, FindExports, CancellingFails,
     OpenDeletion, DeletionInterrupted, StartErasing, ErasingFails, anonymizeIdentity
<1>4. ASSUME NEW p \in Pass, EraseTable(p) PROVE Same
  BY <1>4 DEF EraseTable, vars
<1>5. ASSUME NEW w \in Worker,
             \/ ClaimExport(w) \/ Collect(w) \/ IdentityFails(w) \/ SourceFails(w)
             \/ BuildAndRender(w) \/ CheckOwner(w) \/ WriteNotice(w) \/ GoOn(w) \/ Stop(w)
      PROVE  Same
  <2>1. CASE ClaimExport(w) \/ Collect(w) \/ SourceFails(w)
    BY <2>1 DEF ClaimExport, Claim, Collect, SourceFails, vars
  <2>2. CASE IdentityFails(w) \/ BuildAndRender(w)
    BY <2>2 DEF IdentityFails, BuildAndRender, Prepare
  <2>3. CASE CheckOwner(w) \/ WriteNotice(w)
    BY <2>3 DEF CheckOwner, WriteNotice, Notify, NotifyReady, Report, vars
  <2>4. CASE GoOn(w)
    BY <2>4 DEF GoOn, Pipeline, Complete, Persist, Finish, Abort, FailRequest,
       CompleteUnacknowledged
  <2>5. CASE Stop(w)
    BY <2>5 DEF Stop, Throw, Crash
  <2> QED BY <1>5, <2>1, <2>2, <2>3, <2>4, <2>5
<1>6. CASE Retention
  BY <1>6 DEF Retention, Overdue, SweepMark, SweepStart, SweepFails, Tick
<1> QED BY <1>1, <1>2, <1>3, <1>4, <1>5, <1>6 DEF JointStep

(* Only storing a file adds to them.                                       *)
FilesKept == objects' \subseteq objects /\ \A k \in objects' : contents'[k] = contents[k]

LEMMA OthersKeepFiles ==
  JointNext /\ (\A w \in Worker : ~ StoreFile(w)) => FilesKept
<1> SUFFICES ASSUME JointNext, \A w \in Worker : ~ StoreFile(w) PROVE FilesKept
  OBVIOUS
<1>1. CASE DeleteFile
  <2>1. objects' \subseteq objects
    BY <1>1 DEF DeleteFile, CleanUp, SweepDelete, DropFile, storageDelete, deleteFails
  <2> QED BY <1>1, <2>1 DEF DeleteFile, FilesKept
<1>2. CASE ~ DeleteFile
  BY <1>2, OthersAreNotFiles DEF FilesKept
<1> QED BY <1>1, <1>2

(* What was disturbed stays so: late changes only at the locking.          *)
LEMMA UndisturbedBefore ==
  UnderWay /\ Undisturbed' /\ [JointNext]_jointVars => Undisturbed
<1> SUFFICES ASSUME UnderWay, Locked, JointStep \/ UNCHANGED jointVars
             PROVE  late' = late
  BY DEF Undisturbed, JointNext, UnderWay
<1>1. ASSUME NEW r \in Request, AskForExport(r) \/ MeetOverdue(r) \/ CancelExport(r)
      PROVE  late' = late
  BY <1>1 DEF AskForExport, MeetOverdue, CancelExport
<1>2. ASSUME NEW w \in Worker,
             \/ ClaimExport(w) \/ Collect(w) \/ IdentityFails(w) \/ SourceFails(w)
             \/ BuildAndRender(w) \/ StoreFile(w) \/ CheckOwner(w) \/ WriteNotice(w)
             \/ GoOn(w) \/ Stop(w)
      PROVE  late' = late
  BY <1>2 DEF accountVars, ClaimExport, Collect, IdentityFails, SourceFails,
     BuildAndRender, StoreFile, CheckOwner, WriteNotice, GoOn, Stop
<1>3. CASE DeleteFile \/ Retention \/ UNCHANGED jointVars
  BY <1>3 DEF DeleteFile, Retention, jointVars, accountVars
<1>4. CASE Write \/ markAsPendingDeletion \/ FindExports \/ CancellingFails \/ OpenDeletion
             \/ DeletionInterrupted \/ StartErasing \/ ErasingFails \/ anonymizeIdentity
  BY <1>4 DEF Locked, Write, markAsPendingDeletion, FindExports, CancellingFails,
     OpenDeletion, DeletionInterrupted, StartErasing, ErasingFails, anonymizeIdentity
<1>5. ASSUME NEW c \in Call, Enter(c) PROVE late' = late
  BY <1>5 DEF Enter
<1>6. ASSUME NEW p \in Pass, EraseTable(p) PROVE late' = late
  BY <1>6 DEF EraseTable
<1> QED BY <1>1, <1>2, <1>3, <1>4, <1>5, <1>6 DEF JointStep

LEMMA LateFindsNothingStep ==
  ErasureInv /\ [JointNext]_jointVars => LateFindsNothing'
<1> SUFFICES ASSUME ErasureInv, JointNext \/ UNCHANGED jointVars PROVE LateFindsNothing'
  OBVIOUS
<1>1. Undisturbed' => Undisturbed
  BY UndisturbedBefore DEF ErasureInv
<1>2. deletion = "done" => deletion' = "done"
  BY DoneStays
<1> DEFINE Early(w, c) ==
      /\ c.reading \in Source /\ ~ c.early => deletion = "done"
      /\ Undisturbed /\ ~ c.early => c.got = {}
<1>3. \A w \in Worker : Early(w, copy[w])
  BY DEF ErasureInv, LateFindsNothing
<1>4. \A w \in Worker : Early(w, copy'[w])
  <2>1. ASSUME NEW w \in Worker, copy' = copy \/ copy' = [copy EXCEPT ![w] = Blank]
        PROVE  \A v \in Worker : Early(v, copy'[v])
    BY <1>3, <2>1, Kinds DEF ErasureInv, ErasureTypes
  <2>2. CASE UNCHANGED copy
    BY <1>3, <2>2
  <2>3. ASSUME NEW w \in Worker, ClaimExport(w) PROVE \A v \in Worker : Early(v, copy'[v])
    <3> DEFINE c == [Blank EXCEPT !.reading = "identity", !.early = deletion # "done"]
    <3>1. Early(w, c)
      BY DEF Blank
    <3>2. copy' = [copy EXCEPT ![w] = c]
      BY <2>3 DEF ClaimExport, Becomes
    <3> HIDE DEF c, Early
    <3> QED BY <1>3, <3>1, <3>2 DEF ErasureInv, ErasureTypes
  <2>4. ASSUME NEW w \in Worker, Collect(w) \/ SourceFails(w)
        PROVE  \A v \in Worker : Early(v, copy'[v])
    <3> DEFINE c == copy[w]
    <3>1. PICK g \in {c.got, c.got \cup {c.reading}} :
            /\ copy' = [copy EXCEPT ![w] = [c EXCEPT !.got = g, !.reading = Following(@)]]
            /\ c.reading \in data \/ g = c.got
      <4>1. CASE Collect(w)
        BY <4>1 DEF Collect, Becomes, Found
      <4>2. CASE SourceFails(w)
        <5>1. [c EXCEPT !.reading = Following(@)]
                = [c EXCEPT !.got = c.got, !.reading = Following(@)]
          BY DEF ErasureInv, ErasureTypes, Copy
        <5> QED BY <4>2, <5>1 DEF SourceFails, Becomes
      <4> QED BY <2>4, <4>1, <4>2
    <3>2. c \in Copy /\ c.reading \in Source
      BY <2>4 DEF Collect, SourceFails, ErasureInv, ErasureTypes
    <3>3. Early(w, c)
      BY <1>3
    <3>4. ~ c.early => deletion = "done"
      BY <3>2, <3>3
    <3>5. Undisturbed /\ ~ c.early => g = {}
      BY <3>1, <3>3, <3>4 DEF ErasureInv, Erased
    <3> DEFINE n == [c EXCEPT !.got = g, !.reading = Following(@)]
    <3>6. n.early = c.early /\ n.got = g
      BY <3>2 DEF Copy
    <3>7. Early(w, n)
      BY <3>4, <3>5, <3>6
    <3>8. copy' = [copy EXCEPT ![w] = n]
      BY <3>1
    <3> HIDE DEF n, Early
    <3> QED BY <1>3, <3>7, <3>8 DEF ErasureInv, ErasureTypes
  <2>5. ASSUME NEW w \in Worker, CheckOwner(w) PROVE \A v \in Worker : Early(v, copy'[v])
    <3> DEFINE c == [Blank EXCEPT !.reading = "notice"]
    <3>1. Early(w, c)
      BY Kinds DEF Blank
    <3>2. copy' = [copy EXCEPT ![w] = c] \/ copy' = copy
      BY <2>5 DEF CheckOwner, Becomes
    <3> HIDE DEF c, Early
    <3> QED BY <1>3, <3>1, <3>2 DEF ErasureInv, ErasureTypes
  <2>6. ASSUME NEW w \in Worker,
               \/ IdentityFails(w) \/ BuildAndRender(w) \/ StoreFile(w) \/ WriteNotice(w)
               \/ GoOn(w) \/ Stop(w)
        PROVE  \A v \in Worker : Early(v, copy'[v])
    <3>1. copy' = copy \/ copy' = [copy EXCEPT ![w] = Blank]
      <4>1. CASE BuildAndRender(w)
        BY <4>1 DEF BuildAndRender, Becomes, ErasureInv, ErasureTypes
      <4>2. CASE ~ BuildAndRender(w)
        BY <2>6, <4>2 DEF IdentityFails, StoreFile, WriteNotice, GoOn, Stop, Becomes
      <4> QED BY <4>1, <4>2
    <3> QED BY <2>1, <3>1
  <2>7. ASSUME NEW r \in Request, AskForExport(r) \/ MeetOverdue(r) \/ CancelExport(r)
        PROVE  UNCHANGED copy
    BY <2>7 DEF AskForExport, MeetOverdue, CancelExport
  <2>8. ASSUME NEW c \in Call, Enter(c) PROVE UNCHANGED copy
    BY <2>8 DEF Enter
  <2>9. ASSUME NEW p \in Pass, EraseTable(p) PROVE UNCHANGED copy
    BY <2>9 DEF EraseTable
  <2>10. CASE Write \/ markAsPendingDeletion \/ FindExports \/ CancellingFails \/ OpenDeletion
             \/ DeletionInterrupted \/ StartErasing \/ ErasingFails \/ anonymizeIdentity
    BY <2>2, <2>10 DEF Write, markAsPendingDeletion, FindExports, CancellingFails,
       OpenDeletion, DeletionInterrupted, StartErasing, ErasingFails, anonymizeIdentity
  <2>11. CASE DeleteFile \/ Retention \/ UNCHANGED jointVars
    BY <2>2, <2>11 DEF DeleteFile, Retention, jointVars
  <2> HIDE DEF Early
  <2> QED BY <2>2, <2>3, <2>4, <2>5, <2>6, <2>7, <2>8, <2>9, <2>10, <2>11 DEF JointNext, JointStep
<1>5. Undisturbed => \A k \in objects' : contents'[k].has # {} => contents'[k].early
  <2> SUFFICES ASSUME Undisturbed
               PROVE  \A k \in objects' : contents'[k].has # {} => contents'[k].early
    OBVIOUS
  <2>1. \A k \in objects : contents[k].has # {} => contents[k].early
    BY DEF ErasureInv, LateFindsNothing
  <2>2. ASSUME NEW w \in Worker, StoreFile(w)
        PROVE  \A k \in objects' : contents'[k].has # {} => contents'[k].early
    <3>1. Document(w).has # {} => Document(w).early
      BY <1>3 DEF Document, Sections
    <3>2. \A k \in objects' : contents'[k] = IF k \in objects THEN contents[k] ELSE Document(w)
      BY <2>2 DEF StoreFile
    <3> QED BY <2>1, <3>1, <3>2
  <2>3. CASE FilesKept
    BY <2>1, <2>3 DEF FilesKept
  <2>4. CASE UNCHANGED jointVars
    BY <2>1, <2>4 DEF jointVars, vars
  <2> QED BY <2>2, <2>3, <2>4, OthersKeepFiles
<1> QED BY <1>1, <1>2, <1>4, <1>5 DEF LateFindsNothing

LEMMA ErasureInvInit == JointInit => ErasureInv
<1> SUFFICES ASSUME JointInit PROVE ErasureInv
  OBVIOUS
<1>1. ErasureTypes
  BY Kinds DEF JointInit, ErasureTypes, Deletion
<1>2. UnderWay /\ Erased
  BY DEF JointInit, UnderWay, Erased, Locked
<1>3. objects = {}
  BY DEF JointInit, Init
<1>4. \A w \in Worker : copy[w] = Blank
  BY DEF JointInit
<1>5. LateFindsNothing
  BY <1>3, <1>4, Kinds DEF LateFindsNothing
<1> QED BY <1>1, <1>2, <1>5 DEF ErasureInv

(* When the deletion is over nothing is left of the account, and no export *)
(* claimed afterwards has anything of it, whichever exports, calls, and    *)
(* errors came in between: only what was under way when the account was    *)
(* locked can bring something back.                                        *)
THEOREM WhatIsErasedStaysErased == JointSpec => []ErasedStaysErased
<1>1. JointInit => ErasureInv
  BY ErasureInvInit
<1>2. ErasureInv /\ [JointNext]_jointVars => ErasureInv'
  BY ErasureTypesStep, UnderWayStep, ErasedStep, LateFindsNothingStep DEF ErasureInv
<1>3. ErasureInv => ErasedStaysErased
  BY DEF ErasureInv, Erased, LateFindsNothing, ErasedStaysErased, Undisturbed
<1> QED BY <1>1, <1>2, <1>3, PTL DEF JointSpec

-----------------------------------------------------------------------------
(* The remaining variables of the account.                                 *)
AccountTypes ==
  /\ doomed \subseteq Request
  /\ calls \subseteq Call
  /\ late \subseteq Call \cup {"notice"}
  /\ mishaps \in 0 .. MaxFaults
  /\ contents \in [objects -> [has : SUBSET Table, early : BOOLEAN]]

LEMMA AccountTypesStep ==
  ErasureTypes /\ AccountTypes /\ [JointNext]_jointVars => AccountTypes'
<1> SUFFICES ASSUME ErasureTypes, AccountTypes, JointNext \/ UNCHANGED jointVars
             PROVE  AccountTypes'
  OBVIOUS
<1> DEFINE Small == /\ doomed \subseteq Request
                    /\ calls \subseteq Call
                    /\ late \subseteq Call \cup {"notice"}
                    /\ mishaps \in 0 .. MaxFaults
<1>1. Small'
  <2> USE FaultsAssumption DEF AccountTypes, Mishap
  <2>1. ASSUME NEW c \in Call, Enter(c) PROVE Small'
    BY <2>1 DEF Enter
  <2>2. ASSUME NEW r \in Request, AskForExport(r) \/ MeetOverdue(r) \/ CancelExport(r)
        PROVE  Small'
    BY <2>2 DEF AskForExport, MeetOverdue, CancelExport
  <2>3. CASE Write \/ OpenDeletion \/ StartErasing \/ anonymizeIdentity
    BY <2>3 DEF Write, OpenDeletion, StartErasing, anonymizeIdentity
  <2>4. CASE markAsPendingDeletion \/ FindExports
    BY <2>4 DEF markAsPendingDeletion, FindExports
  <2>5. CASE CancellingFails \/ DeletionInterrupted \/ ErasingFails
    BY <2>5 DEF CancellingFails, DeletionInterrupted, ErasingFails
  <2>6. ASSUME NEW p \in Pass, EraseTable(p) PROVE Small'
    BY <2>6 DEF EraseTable
  <2>7. ASSUME NEW w \in Worker,
               \/ ClaimExport(w) \/ Collect(w) \/ BuildAndRender(w) \/ StoreFile(w)
               \/ CheckOwner(w) \/ WriteNotice(w) \/ GoOn(w) \/ Stop(w)
        PROVE  Small'
    BY <2>7 DEF accountVars, ClaimExport, Collect, BuildAndRender, StoreFile, CheckOwner,
       WriteNotice, GoOn, Stop
  <2>8. ASSUME NEW w \in Worker, IdentityFails(w) \/ SourceFails(w) PROVE Small'
    BY <2>8 DEF IdentityFails, SourceFails
  <2>9. CASE DeleteFile \/ Retention \/ UNCHANGED jointVars
    BY <2>9 DEF DeleteFile, Retention, jointVars, accountVars
  <2> QED BY <2>1, <2>2, <2>3, <2>4, <2>5, <2>6, <2>7, <2>8, <2>9 DEF JointNext, JointStep
<1>2. contents' \in [objects' -> [has : SUBSET Table, early : BOOLEAN]]
  <2> DEFINE File == [has : SUBSET Table, early : BOOLEAN]
  <2> SUFFICES contents' \in [objects' -> File]
    OBVIOUS
  <2>1. contents \in [objects -> File]
    BY DEF AccountTypes
  <2>2. ASSUME NEW w \in Worker, StoreFile(w) PROVE contents' \in [objects' -> File]
    <3>1. Document(w) \in File
      BY DEF Document, Sections, ErasureTypes, Copy
    <3> HIDE DEF File
    <3> QED BY <2>1, <2>2, <3>1 DEF StoreFile
  <2>3. CASE DeleteFile
    <3>1. objects' \subseteq objects
      BY <2>3 DEF DeleteFile, CleanUp, SweepDelete, DropFile, storageDelete, deleteFails
    <3> HIDE DEF File
    <3> QED BY <2>1, <2>3, <3>1 DEF DeleteFile
  <2>4. CASE UNCHANGED jointVars
    BY <2>1, <2>4 DEF jointVars, vars
  <2>5. CASE JointNext /\ ~ DeleteFile /\ \A w \in Worker : ~ StoreFile(w)
    BY <2>1, <2>5, OthersAreNotFiles
  <2> QED BY <2>2, <2>3, <2>4, <2>5
<1> QED BY <1>1, <1>2 DEF AccountTypes

(* Every variable of the composition stays in its range.                   *)
THEOREM JointTypes == JointSpec => []JointTypeOK
<1>1. JointInit => ErasureInv /\ AccountTypes
  <2>1. JointInit => AccountTypes
    BY FaultsAssumption DEF JointInit, AccountTypes, Init
  <2> QED BY <2>1, ErasureInvInit
<1>2. ErasureInv /\ AccountTypes /\ [JointNext]_jointVars => (ErasureInv /\ AccountTypes)'
  BY ErasureTypesStep, UnderWayStep, ErasedStep, LateFindsNothingStep, AccountTypesStep
     DEF ErasureInv
<1>3. ErasureInv /\ AccountTypes /\ TypeOK => JointTypeOK
  BY DEF ErasureInv, ErasureTypes, AccountTypes, JointTypeOK
<1>4. Spec => []TypeOK
  BY TypeCorrect
<1> QED BY <1>1, <1>2, <1>3, <1>4, JointImplementsExport, PTL DEF JointSpec, ImplementsExport
-----------------------------------------------------------------------------
(* The pending exports of a locked account: those found and not yet        *)
(* cancelled.  A new one needs a call that came in before.                 *)
PendingInv ==
  /\ Locked => ("export" \in calls => "export" \in late)
  /\ deletion \in {"cancelling", "requested", "erasing", "done"} /\ mishaps = 0
       /\ "export" \notin late
     => \A r \in Request : status[r] = "PENDING" => r \in doomed

(* A worker makes no request PENDING.                                      *)
LEMMA WorkersOpenNothing ==
  ASSUME TypeOK, NEW w \in Worker,
         Claim(w) \/ WorkerStep(w) \/ StoreThrows(w) \/ CompleteUnacknowledged(w)
           \/ Throw(w) \/ Crash(w)
  PROVE  \A r \in Request : status'[r] = "PENDING" => status[r] = "PENDING"
<1> DEFINE Goal == \A r \in Request : status'[r] = "PENDING" => status[r] = "PENDING"
<1> USE DEF TypeOK, TableTypeOK, tableVars, SetStatus, GuardedUpdate
<1>1. CASE Claim(w)
  BY <1>1 DEF Claim, ClaimRows
<1>2. CASE WorkerStep(w)
  BY <1>2 DEF WorkerStep, Prepare, Store, Complete, Persist, NotifyReady, Finish, CleanUp,
              Abort, FailRequest, Report, markRequestCompleted, markRequestFailed
<1>3. CASE StoreThrows(w) \/ CompleteUnacknowledged(w) \/ Throw(w) \/ Crash(w)
  BY <1>3 DEF StoreThrows, CompleteUnacknowledged, Throw, Crash, markRequestCompleted
<1> QED BY <1>1, <1>2, <1>3

LEMMA PendingStep ==
  TypeOK /\ mishaps \in Nat /\ PendingInv /\ [JointNext]_jointVars => PendingInv'
<1> SUFFICES ASSUME TypeOK, mishaps \in Nat, PendingInv, JointNext \/ UNCHANGED jointVars PROVE PendingInv'
  OBVIOUS
<1> DEFINE Fewer == \A r \in Request : status'[r] = "PENDING" => status[r] = "PENDING"
<1> USE DEF PendingInv, Locked, Mishap
<1>1. ASSUME NEW w \in Worker,
             Claim(w) \/ WorkerStep(w) \/ StoreThrows(w) \/ CompleteUnacknowledged(w)
               \/ Throw(w) \/ Crash(w)
      PROVE  Fewer
  BY <1>1, WorkersOpenNothing
<1>2. ASSUME NEW r \in Request, AskForExport(r) PROVE PendingInv'
  BY <1>2 DEF AskForExport
<1>3. ASSUME NEW r \in Request, MeetOverdue(r) PROVE PendingInv'
  <2>1. Fewer
    BY <1>3 DEF MeetOverdue, ExpireOnDownload, markRequestExpired, GuardedUpdate, SetStatus,
                tableVars, TypeOK, TableTypeOK
  <2> QED BY <1>3, <2>1 DEF MeetOverdue
<1>4. ASSUME NEW r \in Request, CancelExport(r) PROVE PendingInv'
  <2>1. Fewer /\ status'[r] # "PENDING"
    BY <1>4 DEF CancelExport, Cancel, markRequestCancelled, GuardedUpdate, SetStatus,
                tableVars, TypeOK, TableTypeOK
  <2> QED BY <1>4, <2>1 DEF CancelExport
<1>5. CASE Write \/ markAsPendingDeletion \/ FindExports \/ CancellingFails \/ OpenDeletion
             \/ DeletionInterrupted \/ StartErasing \/ ErasingFails \/ anonymizeIdentity
  <2>1. status' = status
    BY <1>5 DEF vars, tableVars, Write, markAsPendingDeletion, FindExports, CancellingFails,
       OpenDeletion, DeletionInterrupted, StartErasing, ErasingFails, anonymizeIdentity
  <2>2. CASE Write \/ markAsPendingDeletion
    BY <2>1, <2>2 DEF Write, markAsPendingDeletion
  <2>3. CASE FindExports
    BY <2>1, <2>3 DEF FindExports
  <2>4. CASE CancellingFails \/ DeletionInterrupted \/ ErasingFails
    BY <2>1, <2>4 DEF CancellingFails, DeletionInterrupted, ErasingFails
  <2>5. CASE OpenDeletion \/ StartErasing \/ anonymizeIdentity
    BY <2>1, <2>5 DEF OpenDeletion, StartErasing, anonymizeIdentity
  <2> QED BY <1>5, <2>2, <2>3, <2>4, <2>5
<1>6. ASSUME NEW c \in Call, Enter(c) PROVE PendingInv'
  BY <1>6 DEF Enter, vars, tableVars
<1>7. ASSUME NEW p \in Pass, EraseTable(p) PROVE PendingInv'
  BY <1>7 DEF EraseTable, vars, tableVars
<1>8. ASSUME NEW w \in Worker,
             \/ ClaimExport(w) \/ Collect(w) \/ BuildAndRender(w) \/ StoreFile(w)
             \/ CheckOwner(w) \/ WriteNotice(w) \/ GoOn(w) \/ Stop(w)
      PROVE  PendingInv'
  <2>1. UNCHANGED <<deletion, doomed, calls, late, mishaps>>
    BY <1>8 DEF accountVars, ClaimExport, Collect, BuildAndRender, StoreFile, CheckOwner,
       WriteNotice, GoOn, Stop
  <2>2. Fewer
    <3>1. CASE Collect(w) \/ (CheckOwner(w) /\ UNCHANGED vars)
      BY <3>1 DEF Collect, vars
    <3>2. CASE ~ (Collect(w) \/ (CheckOwner(w) /\ UNCHANGED vars))
      BY <1>1, <1>8, <3>2 DEF ClaimExport, BuildAndRender, StoreFile, CheckOwner, WriteNotice,
         Notify, GoOn, Pipeline, Stop, WorkerStep
    <3> QED BY <3>1, <3>2
  <2> QED BY <2>1, <2>2
<1>9. ASSUME NEW w \in Worker, IdentityFails(w) \/ SourceFails(w) PROVE PendingInv'
  <2>1. UNCHANGED <<deletion, doomed, calls, late>>
    BY <1>9 DEF IdentityFails, SourceFails
  <2>2. status' = status
    BY <1>9 DEF IdentityFails, SourceFails, Prepare, vars, tableVars
  <2>3. mishaps' # 0
    BY <1>9 DEF IdentityFails, SourceFails
  <2> QED BY <2>1, <2>2, <2>3
<1>10. CASE DeleteFile \/ Retention \/ UNCHANGED jointVars
  <2>1. UNCHANGED <<deletion, doomed, calls, late, mishaps>>
    BY <1>10 DEF DeleteFile, Retention, jointVars, accountVars
  <2>2. Fewer
    <3>1. CASE DeleteFile
      BY <3>1 DEF DeleteFile, CleanUp, SweepDelete, DropFile, tableVars
    <3>2. CASE Retention
      BY <3>2 DEF Retention, Overdue, SweepMark, SweepStart, SweepFails, Tick, AgeRows,
         markRequestExpired, GuardedUpdate, SetStatus, tableVars, TypeOK, TableTypeOK
    <3>3. CASE UNCHANGED jointVars
      BY <3>3 DEF jointVars, vars
    <3> QED BY <1>10, <3>1, <3>2, <3>3
  <2> QED BY <2>1, <2>2
<1> QED BY <1>2, <1>3, <1>4, <1>5, <1>6, <1>7, <1>8, <1>9, <1>10 DEF JointNext, JointStep

(* "Cancel any in-progress GDPR export requests": without an error, and    *)
(* but for a call that had come in before, no export of the account waits  *)
(* to be collected once the deletion has been through with them.           *)
THEOREM NothingIsLeftPending == JointSpec => []NothingLeftPending
<1>1. JointInit => PendingInv
  BY DEF JointInit, PendingInv, Locked
<1>2. PendingInv => NothingLeftPending
  BY DEF PendingInv, NothingLeftPending
<1>3. JointTypeOK /\ PendingInv /\ [JointNext]_jointVars => PendingInv'
  BY PendingStep, FaultsAssumption DEF JointTypeOK
<1> QED BY <1>1, <1>2, <1>3, JointTypes, PTL DEF JointSpec
=============================================================================
