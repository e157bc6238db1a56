------------------------ MODULE GdprDeletion_proofs ------------------------
(***************************************************************************)
(* Proofs about GdprDeletion for any number of accounts, requests, callers,*)
(* workers and faults, with or without the job for expired grace periods.  *)
(***************************************************************************)
EXTENDS GdprDeletion, TLAPS

(* Ages are numbers, and a fresh row has one.                              *)
LEMMA AgeIsNat == Age \subseteq Nat /\ 0 \in Age
BY StaleAssumption DEF Age

-----------------------------------------------------------------------------
(* What the callers and the workers know.                                  *)
Finalizing(w) == stage[w] \in {"finalizing", "recreating", "reclaiming"}
Working(w) == stage[w] # "idle" /\ ~ Finalizing(w)

Requested(i) == i \in Identity /\ deletedAt[i] # "unset"

(* A row belongs to an identity whose deletion has been requested.         *)
RowsOK == \A r \in Request : status[r] # "NONE" => Requested(owner[r])

CallersOK ==
  \A c \in Client :
    /\ step[c] # "idle" => who[c] \in Identity
    /\ step[c] \in {"creating", "capturing", "purging"} => Requested(who[c])
    /\ step[c] \in {"capturing", "purging"} => row[c] \in Request

WorkersOK ==
  \A w \in Worker :
    /\ Finalizing(w) => Requested(target[w])
    /\ Working(w) => task[w] \in Request /\ status[task[w]] # "NONE"

(* Nothing is left of an identity but what a late call wrote.              *)
Gone(i) == data[i] = {} \/ i \in late

ErasedBeforeMarked ==
  \A w \in Worker :
    /\ stage[w] \in {"erased", "marked"} => Gone(owner[task[w]])
    /\ stage[w] = "marked" => anonymized[owner[task[w]]]

ErasureInv ==
  /\ TypeOK
  /\ RowsOK
  /\ CallersOK
  /\ WorkersOK
  /\ ErasedBeforeMarked
  /\ CompletedMeansErased

(* What a claim does, whoever makes it.                                    *)
ClaimOf(w, r) ==
  /\ status[r] \in {"PENDING", "PROCESSING"}
  /\ status' = [q \in Request |-> IF q = r THEN "PROCESSING" ELSE status[q]]
  /\ age' = [q \in Request |-> IF q = r THEN 0 ELSE age[q]]
  /\ stage' = [stage EXCEPT ![w] = "claimed"]
  /\ task' = [task EXCEPT ![w] = r]
  /\ target' = [target EXCEPT ![w] = NoIdentity]

(* Either job's claim, whichever rows it chooses from, is a ClaimOf.       *)
LEMMA ClaimEffect ==
  ASSUME NEW w \in Worker, NEW rows \in SUBSET Request, ClaimFrom(w, rows)
  PROVE  \E r \in Request : ClaimOf(w, r)
<1>1. PICK r \in Candidates(rows, 1) :
        /\ ClaimRows({r})
        /\ task' = [task EXCEPT ![w] = r]
        /\ stage' = [stage EXCEPT ![w] = "claimed"]
        /\ target' = [target EXCEPT ![w] = NoIdentity]
  BY DEF ClaimFrom
<1>2. r \in Request /\ status[r] \in {"PENDING", "PROCESSING"}
  BY DEF Candidates, Claimable, Stale
<1>3. ClaimOf(w, r)
  BY <1>1, <1>2 DEF ClaimOf, ClaimRows
<1>4. QED
  BY <1>2, <1>3

-----------------------------------------------------------------------------
(* No step breaks the invariant: one case per action.                      *)
LEMMA ErasureStep == ErasureInv /\ [Next]_vars => ErasureInv'
<1> SUFFICES ASSUME ErasureInv, [Next]_vars
             PROVE  ErasureInv'
  OBVIOUS
<1> USE AgeIsNat, NoRequestAssumption, NoIdentityAssumption, FaultsAssumption
<1> USE DEF ErasureInv, TypeOK, TableTypeOK, Status, Tables, Steps, Stages, Finalizing,
            Working, Requested, RowsOK, CallersOK, WorkersOK, Gone, ErasedBeforeMarked,
            CompletedMeansErased, tableVars, identityVars, recordVars, clientVars,
            workerVars
<1>1. ASSUME NEW i \in Identity, Enter(i)
      PROVE  ErasureInv'
  BY <1>1 DEF Enter
<1>2. ASSUME NEW i \in Identity, Write(i)
      PROVE  ErasureInv'
  BY <1>2 DEF Write
<1>3. ASSUME NEW i \in Identity, GracePasses(i)
      PROVE  ErasureInv'
  BY <1>3 DEF GracePasses
<1>4. ASSUME NEW c \in Client, NEW i \in Identity, requestDeletion(c, i)
      PROVE  ErasureInv'
  BY <1>4 DEF requestDeletion
<1>5. ASSUME NEW c \in Client, markAsPendingDeletion(c)
      PROVE  ErasureInv'
  BY <1>5 DEF markAsPendingDeletion, Continue
<1>6. ASSUME NEW c \in Client, CreateRow(c)
      PROVE  ErasureInv'
  BY <1>6 DEF CreateRow, createRequest, SetStatus
<1>7. ASSUME NEW c \in Client, captureEmailForDeletion(c)
      PROVE  ErasureInv'
  BY <1>7 DEF captureEmailForDeletion, Continue
<1>8. ASSUME NEW c \in Client, deleteImmediateTables(c)
      PROVE  ErasureInv'
  BY <1>8 DEF deleteImmediateTables, Leave
<1>9. ASSUME NEW c \in Client, Interrupted(c)
      PROVE  ErasureInv'
  BY <1>9 DEF Interrupted, Leave, Fault
<1>10. ASSUME NEW w \in Worker, Claim(w)
      PROVE  ErasureInv'
  <2>1. PICK r \in Request : ClaimOf(w, r)
    BY <1>10, ClaimEffect DEF Claim, Rows
  <2>2. QED
    BY <1>10, <2>1 DEF Claim, ClaimOf
<1>11. ASSUME NEW w \in Worker, FindExpired(w)
      PROVE  ErasureInv'
  BY <1>11 DEF FindExpired
<1>12. ASSUME NEW w \in Worker, ClaimForIdentity(w)
      PROVE  ErasureInv'
  <2>1. PICK r \in Request : ClaimOf(w, r)
    BY <1>12, ClaimEffect DEF ClaimForIdentity, Rows
  <2>2. QED
    BY <1>12, <2>1 DEF ClaimForIdentity, ClaimOf
<1>13. ASSUME NEW w \in Worker, NothingToClaim(w)
      PROVE  ErasureInv'
  BY <1>13 DEF NothingToClaim, Goto, Idle
<1>14. ASSUME NEW w \in Worker, Recreate(w)
      PROVE  ErasureInv'
  BY <1>14 DEF Recreate, createRequest, SetStatus, Goto
<1>15. ASSUME NEW w \in Worker, anonymize(w)
      PROVE  ErasureInv'
  BY <1>15 DEF anonymize, Goto
<1>16. ASSUME NEW w \in Worker, anonymizeIdentity(w)
      PROVE  ErasureInv'
  BY <1>16 DEF anonymizeIdentity, Goto
<1>17. ASSUME NEW w \in Worker, Complete(w)
      PROVE  ErasureInv'
  BY <1>17 DEF Complete, Goto, Idle, markRequestCompleted, GuardedUpdate,
              SetStatus
<1>18. ASSUME NEW w \in Worker, Fail(w)
      PROVE  ErasureInv'
  BY <1>18 DEF Fail, Goto, Idle, markRequestFailed, GuardedUpdate, SetStatus
<1>19. ASSUME NEW w \in Worker, Log(w)
      PROVE  ErasureInv'
  BY <1>19 DEF Log, Goto, Idle
<1>20. ASSUME NEW w \in Worker, sendAndDeleteConfirmation(w)
      PROVE  ErasureInv'
  BY <1>20 DEF sendAndDeleteConfirmation, Idle
<1>21. ASSUME NEW w \in Worker, Throw(w)
      PROVE  ErasureInv'
  <2>1. /\ data' \in [Identity -> SUBSET Tables]
        /\ \A i \in Identity : data'[i] \subseteq data[i]
    <3>1. CASE stage[w] = "claimed"
      <4>1. PICK rest \in SUBSET data[owner[task[w]]] :
              data' = [data EXCEPT ![owner[task[w]]] = rest]
        BY <1>21, <3>1 DEF Throw
      <4>2. owner[task[w]] \in Identity
        BY <3>1
      <4>3. rest \subseteq Tables
        BY <4>1, <4>2
      <4>4. data \in [Identity -> SUBSET Tables]
        OBVIOUS
      <4>5. rest \subseteq data[owner[task[w]]]
        OBVIOUS
      <4> HIDE DEF Tables, ErasureInv, TypeOK
      <4>6. QED
        BY <4>1, <4>2, <4>3, <4>4, <4>5
    <3>2. CASE stage[w] # "claimed"
      BY <1>21, <3>2 DEF Throw
    <3>3. QED
      BY <3>1, <3>2
  <2>2. /\ faults' \in 0 .. MaxFaults
        /\ stage' \in [Worker -> Stages]
        /\ task' \in [Worker -> Request \cup {NoRequest}]
        /\ target' \in [Worker -> Identity \cup {NoIdentity}]
    BY <1>21 DEF Throw, Goto, Idle, Fault
  <2>3. TypeOK' /\ RowsOK' /\ CallersOK'
    BY <1>21, <2>1, <2>2 DEF Throw
  <2>4. WorkersOK'
    BY <1>21 DEF Throw, Goto, Idle
  <2>5. \A i \in Identity : Gone(i) => Gone(i)'
    BY <1>21, <2>1 DEF Throw
  <2>6. ErasedBeforeMarked'
    BY <1>21, <2>5 DEF Throw, Goto, Idle
  <2>7. CompletedMeansErased'
    BY <1>21, <2>5 DEF Throw
  <2>8. QED
    BY <2>3, <2>4, <2>6, <2>7
<1>22. ASSUME NEW w \in Worker, Crash(w)
      PROVE  ErasureInv'
  BY <1>22 DEF Crash, Idle, Fault
<1>23. CASE Tick
  <2>1. age' \in [Request -> Age]
    BY <1>23, StaleAssumption DEF Tick, AgeRows, Age
  <2>2. QED
    BY <1>23, <2>1 DEF Tick, AgeRows
<1>24. CASE UNCHANGED vars
  BY <1>24 DEF vars
<1>25. QED
  BY <1>1, <1>2, <1>3, <1>4, <1>5, <1>6, <1>7, <1>8, <1>9, <1>10, <1>11,
     <1>12, <1>13, <1>14, <1>15, <1>16, <1>17, <1>18, <1>19, <1>20, <1>21, <1>22,
     <1>23, <1>24
     DEF Next, ClientStep, WorkerStep

(* The invariant holds in every state.                                     *)
LEMMA ErasureInvariance == Spec => []ErasureInv
<1>1. Init => ErasureInv
  BY AgeIsNat, FaultsAssumption
     DEF Init, TableInit, ErasureInv, TypeOK, TableTypeOK, Status, Steps, Stages,
         Finalizing, Working, RowsOK, CallersOK, WorkersOK, ErasedBeforeMarked,
         CompletedMeansErased
<1>2. QED
  BY <1>1, ErasureStep, PTL DEF Spec

(* Every variable keeps its type.                                          *)
THEOREM TypeCorrect == Spec => []TypeOK
<1>1. ErasureInv => TypeOK
  BY DEF ErasureInv
<1>2. QED
  BY <1>1, ErasureInvariance, PTL

(* A deletion request that says COMPLETED belongs to an identity that is   *)
(* marked as deleted and of which no row is left, whatever failed on the   *)
(* way and however many workers were at it.                                *)
THEOREM CompletedIsErased == Spec => []CompletedMeansErased
<1>1. ErasureInv => CompletedMeansErased
  BY DEF ErasureInv
<1>2. QED
  BY <1>1, ErasureInvariance, PTL

-----------------------------------------------------------------------------
(* The audit log.  Who gets to write the final entry of a request has just *)
(* ended it, which happens once.                                           *)
Logging(w) == stage[w] \in {"logging", "reporting"}

VerdictInv ==
  /\ \A w \in Worker : Logging(w) =>
       status[task[w]] \in {"COMPLETED", "FAILED"} /\ logged[task[w]] = 0
  /\ \A v, w \in Worker : Logging(v) /\ Logging(w) /\ task[v] = task[w] => v = w
  /\ \A r \in Request : logged[r] # 0 => status[r] \in {"COMPLETED", "FAILED"}
  /\ OneVerdictLogged

(* No step writes a second verdict, given the first invariant.             *)
LEMMA VerdictStep == ErasureInv /\ VerdictInv /\ [Next]_vars => VerdictInv'
<1> SUFFICES ASSUME ErasureInv, VerdictInv, [Next]_vars
             PROVE  VerdictInv'
  OBVIOUS
<1> USE DEF ErasureInv, TypeOK, TableTypeOK, Status, Stages, Finalizing, Working,
            WorkersOK, VerdictInv, Logging, OneVerdictLogged, tableVars, identityVars,
            recordVars, clientVars, workerVars
<1>1. ASSUME NEW i \in Identity, Enter(i)
      PROVE  VerdictInv'
  BY <1>1 DEF Enter
<1>2. ASSUME NEW i \in Identity, Write(i)
      PROVE  VerdictInv'
  BY <1>2 DEF Write
<1>3. ASSUME NEW i \in Identity, GracePasses(i)
      PROVE  VerdictInv'
  BY <1>3 DEF GracePasses
<1>4. ASSUME NEW c \in Client, NEW i \in Identity, requestDeletion(c, i)
      PROVE  VerdictInv'
  BY <1>4 DEF requestDeletion
<1>5. ASSUME NEW c \in Client, markAsPendingDeletion(c)
      PROVE  VerdictInv'
  BY <1>5 DEF markAsPendingDeletion, Continue
<1>6. ASSUME NEW c \in Client, CreateRow(c)
      PROVE  VerdictInv'
  BY <1>6 DEF CreateRow, createRequest, SetStatus
<1>7. ASSUME NEW c \in Client, captureEmailForDeletion(c)
      PROVE  VerdictInv'
  BY <1>7 DEF captureEmailForDeletion, Continue
<1>8. ASSUME NEW c \in Client, deleteImmediateTables(c)
      PROVE  VerdictInv'
  BY <1>8 DEF deleteImmediateTables, Leave
<1>9. ASSUME NEW c \in Client, Interrupted(c)
      PROVE  VerdictInv'
  BY <1>9 DEF Interrupted, Leave, Fault
<1>10. ASSUME NEW w \in Worker, Claim(w)
      PROVE  VerdictInv'
  <2>1. PICK r \in Request : ClaimOf(w, r)
    BY <1>10, ClaimEffect DEF Claim, Rows
  <2>2. QED
    BY <1>10, <2>1 DEF Claim, ClaimOf
<1>11. ASSUME NEW w \in Worker, FindExpired(w)
      PROVE  VerdictInv'
  BY <1>11 DEF FindExpired
<1>12. ASSUME NEW w \in Worker, ClaimForIdentity(w)
      PROVE  VerdictInv'
  <2>1. PICK r \in Request : ClaimOf(w, r)
    BY <1>12, ClaimEffect DEF ClaimForIdentity, Rows
  <2>2. QED
    BY <1>12, <2>1 DEF ClaimForIdentity, ClaimOf
<1>13. ASSUME NEW w \in Worker, NothingToClaim(w)
      PROVE  VerdictInv'
  BY <1>13 DEF NothingToClaim, Goto, Idle
<1>14. ASSUME NEW w \in Worker, Recreate(w)
      PROVE  VerdictInv'
  BY <1>14 DEF Recreate, createRequest, SetStatus, Goto
<1>15. ASSUME NEW w \in Worker, anonymize(w)
      PROVE  VerdictInv'
  BY <1>15 DEF anonymize, Goto
<1>16. ASSUME NEW w \in Worker, anonymizeIdentity(w)
      PROVE  VerdictInv'
  BY <1>16 DEF anonymizeIdentity, Goto
<1>17. ASSUME NEW w \in Worker, Complete(w)
      PROVE  VerdictInv'
  BY <1>17 DEF Complete, Goto, Idle, markRequestCompleted, GuardedUpdate,
              SetStatus
<1>18. ASSUME NEW w \in Worker, Fail(w)
      PROVE  VerdictInv'
  BY <1>18 DEF Fail, Goto, Idle, markRequestFailed, GuardedUpdate, SetStatus
<1>19. ASSUME NEW w \in Worker, Log(w)
      PROVE  VerdictInv'
  BY <1>19 DEF Log, Goto, Idle
<1>20. ASSUME NEW w \in Worker, sendAndDeleteConfirmation(w)
      PROVE  VerdictInv'
  BY <1>20 DEF sendAndDeleteConfirmation, Idle
<1>21. ASSUME NEW w \in Worker, Throw(w)
      PROVE  VerdictInv'
  BY <1>21 DEF Throw, Goto, Idle, Fault
<1>22. ASSUME NEW w \in Worker, Crash(w)
      PROVE  VerdictInv'
  BY <1>22 DEF Crash, Idle, Fault
<1>23. CASE Tick
  BY <1>23 DEF Tick, AgeRows, Age
<1>24. CASE UNCHANGED vars
  BY <1>24 DEF vars
<1>25. QED
  BY <1>1, <1>2, <1>3, <1>4, <1>5, <1>6, <1>7, <1>8, <1>9, <1>10, <1>11,
     <1>12, <1>13, <1>14, <1>15, <1>16, <1>17, <1>18, <1>19, <1>20, <1>21, <1>22,
     <1>23, <1>24
     DEF Next, ClientStep, WorkerStep

(* A deletion request never gets two entries with its final status in the  *)
(* audit log.                                                              *)
THEOREM OneVerdictIsLogged == Spec => []OneVerdictLogged
<1>1. Init => VerdictInv
  BY DEF Init, TableInit, VerdictInv, Logging, OneVerdictLogged
<1>2. VerdictInv => OneVerdictLogged
  BY DEF VerdictInv
<1>3. QED
  BY <1>1, <1>2, ErasureInvariance, VerdictStep, PTL DEF Spec
-----------------------------------------------------------------------------
(* The notification tables.  From the mark on the identity to the end of   *)
(* its call there is a caller for it, whether or not a row exists yet; a   *)
(* worker may create that row first.                                       *)
PurgedInv ==
  /\ \A c \in Client : step[c] = "idle" => who[c] = NoIdentity
  /\ \A i \in Identity : Requested(i) /\ faults = 0 =>
       \/ "immediate" \notin data[i]
       \/ i \in late
       \/ \E c \in Client : who[c] = i

(* No step leaves them behind, given the first invariant.                  *)
LEMMA PurgedStep == ErasureInv /\ PurgedInv /\ [Next]_vars => PurgedInv'
<1> SUFFICES ASSUME ErasureInv, PurgedInv, [Next]_vars
             PROVE  PurgedInv'
  OBVIOUS
<1> USE NoIdentityAssumption, FaultsAssumption
<1> USE DEF ErasureInv, TypeOK, TableTypeOK, Status, Stages, Finalizing, Working,
            RowsOK, WorkersOK, CallersOK, PurgedInv, Requested,
            Tables, Steps, tableVars, identityVars,
            recordVars, clientVars, workerVars
<1>1. ASSUME NEW i \in Identity, Enter(i)
      PROVE  PurgedInv'
  BY <1>1 DEF Enter
<1>2. ASSUME NEW i \in Identity, Write(i)
      PROVE  PurgedInv'
  BY <1>2 DEF Write
<1>3. ASSUME NEW i \in Identity, GracePasses(i)
      PROVE  PurgedInv'
  BY <1>3 DEF GracePasses
<1>4. ASSUME NEW c \in Client, NEW i \in Identity, requestDeletion(c, i)
      PROVE  PurgedInv'
  BY <1>4 DEF requestDeletion
<1>5. ASSUME NEW c \in Client, markAsPendingDeletion(c)
      PROVE  PurgedInv'
  BY <1>5 DEF markAsPendingDeletion, Continue
<1>6. ASSUME NEW c \in Client, CreateRow(c)
      PROVE  PurgedInv'
  BY <1>6 DEF CreateRow, createRequest, SetStatus
<1>7. ASSUME NEW c \in Client, captureEmailForDeletion(c)
      PROVE  PurgedInv'
  BY <1>7 DEF captureEmailForDeletion, Continue
<1>8. ASSUME NEW c \in Client, deleteImmediateTables(c)
      PROVE  PurgedInv'
  BY <1>8 DEF deleteImmediateTables, Leave
<1>9. ASSUME NEW c \in Client, Interrupted(c)
      PROVE  PurgedInv'
  BY <1>9 DEF Interrupted, Leave, Fault
<1>10. ASSUME NEW w \in Worker, Claim(w)
      PROVE  PurgedInv'
  <2>1. PICK r \in Request : ClaimOf(w, r)
    BY <1>10, ClaimEffect DEF Claim, Rows
  <2>2. QED
    BY <1>10, <2>1 DEF Claim, ClaimOf
<1>11. ASSUME NEW w \in Worker, FindExpired(w)
      PROVE  PurgedInv'
  BY <1>11 DEF FindExpired
<1>12. ASSUME NEW w \in Worker, ClaimForIdentity(w)
      PROVE  PurgedInv'
  <2>1. PICK r \in Request : ClaimOf(w, r)
    BY <1>12, ClaimEffect DEF ClaimForIdentity, Rows
  <2>2. QED
    BY <1>12, <2>1 DEF ClaimForIdentity, ClaimOf
<1>13. ASSUME NEW w \in Worker, NothingToClaim(w)
      PROVE  PurgedInv'
  BY <1>13 DEF NothingToClaim, Goto, Idle
<1>14. ASSUME NEW w \in Worker, Recreate(w)
      PROVE  PurgedInv'
  BY <1>14 DEF Recreate, createRequest, SetStatus, Goto
<1>15. ASSUME NEW w \in Worker, anonymize(w)
      PROVE  PurgedInv'
  BY <1>15 DEF anonymize, Goto
<1>16. ASSUME NEW w \in Worker, anonymizeIdentity(w)
      PROVE  PurgedInv'
  BY <1>16 DEF anonymizeIdentity, Goto
<1>17. ASSUME NEW w \in Worker, Complete(w)
      PROVE  PurgedInv'
  BY <1>17 DEF Complete, Goto, Idle, markRequestCompleted, GuardedUpdate,
              SetStatus
<1>18. ASSUME NEW w \in Worker, Fail(w)
      PROVE  PurgedInv'
  BY <1>18 DEF Fail, Goto, Idle, markRequestFailed, GuardedUpdate, SetStatus
<1>19. ASSUME NEW w \in Worker, Log(w)
      PROVE  PurgedInv'
  BY <1>19 DEF Log, Goto, Idle
<1>20. ASSUME NEW w \in Worker, sendAndDeleteConfirmation(w)
      PROVE  PurgedInv'
  BY <1>20 DEF sendAndDeleteConfirmation, Idle
<1>21. ASSUME NEW w \in Worker, Throw(w)
      PROVE  PurgedInv'
  BY <1>21 DEF Throw, Goto, Idle, Fault
<1>22. ASSUME NEW w \in Worker, Crash(w)
      PROVE  PurgedInv'
  BY <1>22 DEF Crash, Idle, Fault
<1>23. CASE Tick
  BY <1>23 DEF Tick, AgeRows, Age
<1>24. CASE UNCHANGED vars
  BY <1>24 DEF vars
<1>25. QED
  BY <1>1, <1>2, <1>3, <1>4, <1>5, <1>6, <1>7, <1>8, <1>9, <1>10, <1>11,
     <1>12, <1>13, <1>14, <1>15, <1>16, <1>17, <1>18, <1>19, <1>20, <1>21, <1>22,
     <1>23, <1>24
     DEF Next, ClientStep, WorkerStep

(* Without faults, nothing that a message could be sent from is left when  *)
(* the call for deletion is over, whatever workers do meanwhile; a late    *)
(* call is the one exception.                                              *)
THEOREM NothingIsLeftToSend == Spec => []NothingLeftToSend
<1>1. Init => PurgedInv
  BY DEF Init, PurgedInv, Requested
<1>2. PurgedInv /\ ErasureInv => NothingLeftToSend
  BY DEF PurgedInv, ErasureInv, RowsOK, Requested, NothingLeftToSend
<1>3. QED
  BY <1>1, <1>2, ErasureInvariance, PurgedStep, PTL DEF Spec
=============================================================================
