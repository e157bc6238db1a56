------------------- MODULE ScheduledNotifications_proofs -------------------
(***************************************************************************)
(* Proofs about the lock of a schedule, for any number of instances and    *)
(* runs and any time to live, and about the notifications job that runs    *)
(* under it, for any number of notifications, accounts and faults.         *)
(***************************************************************************)
EXTENDS ScheduledNotifications, FiniteSetTheorems, TLAPS

(* As long as nothing went wrong, whoever works under the lock has it, it  *)
(* is live, and nobody works without it.                                   *)
LockInv ==
  /\ LockTypeOK
  /\ \A x \in Run : phase[x] = "releasing" => locked[x]
  /\ \A x \in Run : phase[x] \in {"idle", "taking"} => ~ locked[x]
  /\ causes = {} =>
       /\ \A x \in Run : phase[x] = "running" => locked[x]
       /\ \A x \in Run : locked[x] => Live /\ lockedBy = InstanceOf[x]
       /\ \A x, y \in Run : locked[x] /\ locked[y] => x = y

LEMMA TtlIsPositive == Ttl \in Nat /\ Ttl > 0 /\ Ttl \in 0 .. Ttl /\ 0 \in 0 .. Ttl
BY TtlAssumption

LEMMA Ticking ==
  ASSUME NEW e \in 0 .. Ttl, e > 0
  PROVE  e - 1 \in 0 .. Ttl /\ (e # 1 => e - 1 > 0)
BY TtlAssumption

LEMMA LockInvInit == LockInit => LockInv
BY TtlAssumption DEF LockInit, LockInv, LockTypeOK, Phase, Cause

LEMMA TypeStep == LockInv /\ [LockNext]_lockVars => LockTypeOK'
<1> SUFFICES ASSUME LockInv, [LockNext]_lockVars
             PROVE  LockTypeOK'
  OBVIOUS
<1> USE TtlIsPositive, InstanceOfAssumption
<1> USE DEF LockInv, LockTypeOK, Phase, Cause, Enter, instanceVars
<1>1. ASSUME NEW x \in Run, acquireLock(x)
      PROVE  LockTypeOK'
  BY <1>1 DEF acquireLock
<1>2. ASSUME NEW x \in Run, WriteLock(x)
      PROVE  LockTypeOK'
  <2>1. InstanceOf[x] \in Instance
    OBVIOUS
  <2>2. causes' \subseteq Cause
    <3>1. {c \in {"same instance", "race"} :
             Live /\ (c = "same instance" <=> lockedBy = InstanceOf[x])} \subseteq Cause
      OBVIOUS
    <3>2. QED
      BY <1>2, <3>1 DEF WriteLock
  <2>3. lockedBy' \in Instance \cup {NoInstance} /\ expires' \in 0 .. Ttl
    BY <1>2, <2>1 DEF WriteLock
  <2>4. /\ phase' \in [Run -> Phase] /\ found' \in [Run -> BOOLEAN]
        /\ locked' \in [Run -> BOOLEAN] /\ mode' = mode
    BY <1>2 DEF WriteLock
  <2>5. QED
    BY <2>2, <2>3, <2>4
<1>3. ASSUME NEW x \in Run, AcquireFails(x)
      PROVE  LockTypeOK'
  BY <1>3 DEF AcquireFails
<1>4. ASSUME NEW x \in Run, StartUnlocked(x)
      PROVE  LockTypeOK'
  BY <1>4 DEF StartUnlocked
<1>5. ASSUME NEW x \in Run, FinishJobs(x)
      PROVE  LockTypeOK'
  BY <1>5 DEF FinishJobs
<1>6. ASSUME NEW x \in Run, releaseLock(x)
      PROVE  LockTypeOK'
  <2>1. expires' \in 0 .. Ttl
    BY <1>6 DEF releaseLock
  <2>2. QED
    BY <1>6, <2>1 DEF releaseLock
<1>7. ASSUME NEW x \in Run, ReleaseFails(x)
      PROVE  LockTypeOK'
  BY <1>7 DEF ReleaseFails
<1>8. ASSUME NEW i \in Instance, onApplicationShutdown(i)
      PROVE  LockTypeOK'
  BY <1>8 DEF onApplicationShutdown
<1>9. ASSUME NEW i \in Instance, Exit(i)
      PROVE  LockTypeOK'
  BY <1>9 DEF Exit
<1>10. CASE Tick
  <2>1. expires' \in 0 .. Ttl
    BY <1>10, Ticking DEF Tick
  <2>2. causes' \subseteq Cause
    BY <1>10 DEF Tick
  <2>3. QED
    BY <1>10, <2>1, <2>2 DEF Tick
<1>11. CASE UNCHANGED lockVars
  BY <1>11 DEF lockVars
<1>12. QED
  BY <1>1, <1>2, <1>3, <1>4, <1>5, <1>6, <1>7, <1>8, <1>9, <1>10, <1>11
     DEF LockNext, RunStep

LEMMA LockInvStep == LockInv /\ [LockNext]_lockVars => LockInv'
<1> SUFFICES ASSUME LockInv, [LockNext]_lockVars
             PROVE  LockInv'
  OBVIOUS
<1>0. LockTypeOK'
  BY TypeStep
<1> USE <1>0, TtlIsPositive, InstanceOfAssumption, NoInstanceAssumption
<1> USE DEF LockInv, LockTypeOK, Phase, Cause, Enter, instanceVars, Live
<1>1. ASSUME NEW x \in Run, acquireLock(x)
      PROVE  LockInv'
  BY <1>1 DEF acquireLock
<1>2. ASSUME NEW x \in Run, WriteLock(x)
      PROVE  LockInv'
  <2>1. CASE ~ found[x] /\ lockedBy # NoInstance
    <3>1. /\ phase' = [phase EXCEPT ![x] = "idle"] /\ phase[x] = "taking"
          /\ UNCHANGED <<lockedBy, expires, locked, causes>>
      BY <1>2, <2>1 DEF WriteLock
    <3>2. QED
      BY <3>1
  <2>2. CASE ~ (~ found[x] /\ lockedBy # NoInstance)
    <3>1. /\ phase[x] = "taking" /\ ~ locked[x]
          /\ lockedBy' = InstanceOf[x] /\ expires' = Ttl
          /\ locked' = [locked EXCEPT ![x] = TRUE]
          /\ phase' = [phase EXCEPT ![x] = "running"]
      BY <1>2, <2>2 DEF WriteLock
    <3>2. causes' = {} => causes = {} /\ ~ Live
      <4>1. ASSUME Live
            PROVE  \E c \in {"same instance", "race"} :
                     Live /\ (c = "same instance" <=> lockedBy = InstanceOf[x])
        BY <4>1
      <4>2. causes' = causes \cup
              {c \in {"same instance", "race"} :
                 Live /\ (c = "same instance" <=> lockedBy = InstanceOf[x])}
        BY <1>2, <2>2 DEF WriteLock
      <4>3. QED
        BY <4>1, <4>2
    <3>3. causes' = {} => \A y \in Run : ~ locked[y]
      BY <3>2
    <3>4. \A y \in Run : phase'[y] = "releasing" => locked'[y]
      BY <3>1
    <3>5. \A y \in Run : phase'[y] \in {"idle", "taking"} => ~ locked'[y]
      BY <3>1
    <3>6. ASSUME causes' = {}
          PROVE  /\ \A y \in Run : phase'[y] = "running" => locked'[y]
                 /\ \A y \in Run : locked'[y] => Live' /\ lockedBy' = InstanceOf[y]
                 /\ \A y, z \in Run : locked'[y] /\ locked'[z] => y = z
      <4>1. Live'
        <5>1. InstanceOf[x] \in Instance
          BY InstanceOfAssumption
        <5>2. lockedBy' # NoInstance
          BY <3>1, <5>1, NoInstanceAssumption
        <5>3. expires' > 0
          BY <3>1, TtlIsPositive
        <5>4. QED
          BY <5>2, <5>3
      <4>2. \A y \in Run : locked'[y] => y = x
        BY <3>1, <3>3, <3>6
      <4>3. \A y \in Run : phase'[y] = "running" => locked'[y]
        BY <3>1, <3>2, <3>6
      <4>4. QED
        BY <3>1, <4>1, <4>2, <4>3
    <3>7. QED
      BY <3>4, <3>5, <3>6
  <2>3. QED
    BY <2>1, <2>2
<1>3. ASSUME NEW x \in Run, AcquireFails(x)
      PROVE  LockInv'
  BY <1>3 DEF AcquireFails
<1>4. ASSUME NEW x \in Run, StartUnlocked(x)
      PROVE  LockInv'
  BY <1>4 DEF StartUnlocked
<1>5. ASSUME NEW x \in Run, FinishJobs(x)
      PROVE  LockInv'
  BY <1>5 DEF FinishJobs
<1>6. ASSUME NEW x \in Run, releaseLock(x)
      PROVE  LockInv'
  <2>1. /\ phase[x] = "releasing" /\ phase' = [phase EXCEPT ![x] = "idle"]
        /\ locked' = [locked EXCEPT ![x] = FALSE]
        /\ UNCHANGED <<lockedBy, causes>>
    BY <1>6 DEF releaseLock
  <2>2. causes = {} => \A y \in Run : ~ locked'[y]
    BY <2>1
  <2>3. causes = {} => \A y \in Run : phase'[y] # "running"
    BY <2>1
  <2>4. /\ \A y \in Run : phase'[y] = "releasing" => locked'[y]
        /\ \A y \in Run : phase'[y] \in {"idle", "taking"} => ~ locked'[y]
    BY <2>1
  <2>5. QED
    BY <2>1, <2>2, <2>3, <2>4
<1>7. ASSUME NEW x \in Run, ReleaseFails(x)
      PROVE  LockInv'
  BY <1>7 DEF ReleaseFails
<1>8. ASSUME NEW i \in Instance, onApplicationShutdown(i)
      PROVE  LockInv'
  BY <1>8 DEF onApplicationShutdown
<1>9. ASSUME NEW i \in Instance, Exit(i)
      PROVE  LockInv'
  BY <1>9 DEF Exit
<1>10. CASE Tick
  <2>1. /\ expires > 0 /\ expires' = expires - 1
        /\ UNCHANGED <<lockedBy, mode, locked, phase, found>>
    BY <1>10 DEF Tick
  <2>2. causes' = {} => causes = {} /\ (expires = 1 => \A y \in Run : ~ locked[y])
    BY <1>10 DEF Tick
  <2>3. expires # 1 => expires' > 0
    BY <2>1, Ticking
  <2>4. causes' = {} => \A y \in Run : locked[y] => Live' /\ lockedBy' = InstanceOf[y]
    BY <2>1, <2>2, <2>3
  <2>5. QED
    BY <2>1, <2>2, <2>4
<1>11. CASE UNCHANGED lockVars
  BY <1>11 DEF lockVars
<1>12. QED
  BY <1>1, <1>2, <1>3, <1>4, <1>5, <1>6, <1>7, <1>8, <1>9, <1>10, <1>11
     DEF LockNext, RunStep

LEMMA LockInvariance == LockSpec => []LockInv
BY LockInvInit, LockInvStep, PTL DEF LockSpec

(* Every variable of the lock stays in its range.                          *)
THEOREM LockTypes == LockSpec => []LockTypeOK
<1>1. LockInv => LockTypeOK
  BY DEF LockInv
<1>2. QED
  BY <1>1, LockInvariance, PTL

(* The four causes are all there are: without one of them the jobs of the  *)
(* schedule are run by one run at a time, in however many instances.       *)
THEOREM OverlapsHaveCauses == LockSpec => []OverlapHasACause
<1>1. LockInv => OverlapHasACause
  BY DEF LockInv, OverlapHasACause
<1>2. QED
  BY <1>1, LockInvariance, PTL

-----------------------------------------------------------------------------
(* One run more or less in a transaction adds or removes at most its       *)
(* instance from the contenders.                                           *)
LEMMA ContendersEnter ==
  ASSUME LockTypeOK, NEW x \in Run, NEW ph \in Phase, Enter(x, ph), phase[x] = "taking",
         ph # "taking"
  PROVE  /\ InstanceOf[x] \in Contenders
         /\ Contenders' \in {Contenders, Contenders \ {InstanceOf[x]}}
<1>1. \A y \in Run \ {x} : phase'[y] = phase[y]
  BY DEF LockTypeOK, Enter
<1>2. phase'[x] # "taking"
  BY DEF LockTypeOK, Enter
<1>3. \A i : i # InstanceOf[x] => (i \in Contenders' <=> i \in Contenders)
  BY <1>1, <1>2 DEF Contenders
<1>4. InstanceOf[x] \in Contenders
  BY DEF Contenders
<1>5. QED
  BY <1>3, <1>4

LEMMA ContendersStay ==
  ASSUME LockTypeOK, NEW x \in Run, NEW ph \in Phase, Enter(x, ph), phase[x] # "taking",
         ph # "taking"
  PROVE  Contenders' = Contenders
<1>1. \A y \in Run : phase'[y] = "taking" <=> phase[y] = "taking"
  BY DEF LockTypeOK, Enter
<1>2. QED
  BY <1>1 DEF Contenders

(* Every step of the lock is a step of the lease, or leaves it alone.      *)
LEMMA LeaseStep ==
  ASSUME LockInv, LockInv', [LockNext]_lockVars
  PROVE  [TheLease!Next]_<<LeaseOwner, Contenders>>
<1>0. LockTypeOK /\ LockTypeOK'
  BY DEF LockInv
<1> DEFINE Goal == TheLease!Next \/ UNCHANGED <<LeaseOwner, Contenders>>
<1>a. "idle" \in Phase /\ "taking" \in Phase /\ "running" \in Phase /\ "releasing" \in Phase
  BY DEF Phase
<1> USE InstanceOfAssumption
<1>b. ASSUME NEW x \in Run, acquireLock(x)
      PROVE  Goal
  <2>1. LeaseOwner \in {NoInstance, InstanceOf[x]} /\ LeaseOwner' = LeaseOwner
    BY <1>b DEF acquireLock, LeaseOwner, Live
  <2>2. \A y \in Run : phase'[y] = "taking" <=> y = x \/ phase[y] = "taking"
    BY <1>0, <1>b DEF acquireLock, Enter, LockTypeOK
  <2>3. Contenders' = Contenders \cup {InstanceOf[x]}
    BY <2>2 DEF Contenders
  <2>4. InstanceOf[x] \in Instance /\ TheLease!Look(InstanceOf[x])
    BY <2>1, <2>3 DEF TheLease!Look
  <2>5. QED
    BY <2>4 DEF TheLease!Next
<1>c. ASSUME NEW x \in Run, WriteLock(x)
      PROVE  Goal
  <2>1. phase[x] = "taking" /\ \E ph \in {"idle", "running"} : Enter(x, ph)
    BY <1>c DEF WriteLock
  <2>2. /\ InstanceOf[x] \in Contenders
        /\ TheLease!Decided(InstanceOf[x])
    BY <1>0, <1>a, <2>1, ContendersEnter DEF TheLease!Decided
  <2>3. CASE UNCHANGED <<lockedBy, expires>>
    <3>1. TheLease!GiveUp(InstanceOf[x])
      BY <2>2, <2>3 DEF TheLease!GiveUp, LeaseOwner, Live
    <3>2. QED
      BY <3>1 DEF TheLease!Next
  <2>4. CASE lockedBy' = InstanceOf[x] /\ expires' = Ttl
    <3>1. LeaseOwner' = InstanceOf[x]
      BY <2>4, TtlAssumption, NoInstanceAssumption DEF LeaseOwner, Live
    <3>2. TheLease!Take(InstanceOf[x])
      BY <2>2, <3>1 DEF TheLease!Take
    <3>3. QED
      BY <3>2 DEF TheLease!Next
  <2>5. QED
    BY <1>c, <2>3, <2>4 DEF WriteLock
<1>d. ASSUME NEW x \in Run, AcquireFails(x)
      PROVE  Goal
  <2>1. /\ InstanceOf[x] \in Contenders
        /\ TheLease!Decided(InstanceOf[x])
    BY <1>0, <1>a, <1>d, ContendersEnter DEF AcquireFails, TheLease!Decided
  <2>2. TheLease!GiveUp(InstanceOf[x])
    BY <1>d, <2>1 DEF AcquireFails, TheLease!GiveUp, LeaseOwner, Live
  <2>3. QED
    BY <2>2 DEF TheLease!Next
<1>e. ASSUME NEW x \in Run, StartUnlocked(x) \/ FinishJobs(x) \/ ReleaseFails(x)
      PROVE  Goal
  <2>1. Contenders' = Contenders
    BY <1>0, <1>a, <1>e, ContendersStay DEF StartUnlocked, FinishJobs, ReleaseFails
  <2>2. LeaseOwner' = LeaseOwner
    BY <1>e DEF StartUnlocked, FinishJobs, ReleaseFails, LeaseOwner, Live
  <2>3. QED
    BY <2>1, <2>2
<1>f. ASSUME NEW x \in Run, releaseLock(x)
      PROVE  Goal
  <2>1. Contenders' = Contenders
    BY <1>0, <1>a, <1>f, ContendersStay DEF releaseLock
  <2>2. LeaseOwner' = LeaseOwner \/ LeaseOwner' = NoInstance
    BY <1>f DEF releaseLock, LeaseOwner, Live
  <2>3. QED
    BY <2>1, <2>2 DEF TheLease!Next, TheLease!Lapse
<1>g. ASSUME NEW i \in Instance, onApplicationShutdown(i)
      PROVE  Goal
  BY <1>g DEF onApplicationShutdown, LeaseOwner, Live, Contenders
<1>h. ASSUME NEW i \in Instance, Exit(i)
      PROVE  Goal
  <2>1. LeaseOwner' = LeaseOwner
    BY <1>h DEF Exit, LeaseOwner, Live
  <2>2. \A y \in Run : phase'[y] = "taking" <=> phase[y] = "taking" /\ InstanceOf[y] # i
    BY <1>0, <1>h DEF Exit, LockTypeOK
  <2>3. Contenders' = Contenders \ {i}
    BY <2>2 DEF Contenders
  <2>4. CASE i \in Contenders
    <3>1. TheLease!GiveUp(i)
      BY <2>1, <2>3, <2>4 DEF TheLease!GiveUp, TheLease!Decided
    <3>2. QED
      BY <3>1 DEF TheLease!Next
  <2>5. CASE i \notin Contenders
    BY <2>1, <2>3, <2>5
  <2>6. QED
    BY <2>4, <2>5
<1>i. CASE Tick
  <2>1. Contenders' = Contenders
    BY <1>i DEF Tick, Contenders
  <2>2. LeaseOwner' = LeaseOwner \/ LeaseOwner' = NoInstance
    BY <1>i DEF Tick, LeaseOwner, Live
  <2>3. QED
    BY <2>1, <2>2 DEF TheLease!Next, TheLease!Lapse
<1>j. CASE UNCHANGED lockVars
  BY <1>j DEF lockVars, LeaseOwner, Live, Contenders
<1>k. QED
  BY <1>b, <1>c, <1>d, <1>e, <1>f, <1>g, <1>h, <1>i, <1>j DEF LockNext, RunStep

(* The row of the lock and its transactions implement the lease.           *)
THEOREM RefinesLease == LockSpec => ImplementsLease
<1>1. LockInit => TheLease!Init
  BY DEF LockInit, TheLease!Init, LeaseOwner, Live, Contenders
<1>2. LockInv /\ LockInv' /\ [LockNext]_lockVars => [TheLease!Next]_(TheLease!leaseVars)
  BY LeaseStep DEF TheLease!leaseVars
<1>3. QED
  BY <1>1, <1>2, LockInvariance, PTL DEF LockSpec, ImplementsLease, TheLease!Spec

-----------------------------------------------------------------------------
(* The notifications job.  The row a run works on is the first of its      *)
(* batch.                                                                  *)
Current(x, n) == n \in todo[x] /\ \A m \in todo[x] : n <= m

(* The runs that have taken n up and may still log it; those that have     *)
(* logged it and may still send it.                                        *)
Logging(n) ==
  {x \in Run : job[x] \in {"checking", "routing", "executing"} /\ Current(x, n)}
Sending(n) == {x \in Run : job[x] \in {"delivering", "sending"} /\ Current(x, n)}

NotificationTypes ==
  /\ status \in [Notification -> Status]
  /\ recipient \in [Notification -> Identity \cup {NoIdentity}]
  /\ logs \in [Notification -> Nat]
  /\ sends \in [Notification -> Nat]
  /\ leaving \in [Identity -> Leaving]
  /\ enabled \in [Identity -> BOOLEAN]
  /\ channels \subseteq Identity

JobTypes ==
  /\ job \in [Run -> Job]
  /\ todo \in [Run -> SUBSET Notification]
  /\ fresh \in [Run -> BOOLEAN]
  /\ lost \in BOOLEAN
  /\ faults \in 0 .. MaxFaults

(* A batch is worked on while the schedule runs, and has rows that exist.  *)
JobsOK ==
  \A x \in Run :
    /\ job[x] # "start" => phase[x] = "running"
    /\ job[x] = "start" => todo[x] = {}
    /\ \A n \in todo[x] : status[n] # "NONE"

RowsOK ==
  \A n \in Notification :
    /\ status[n] # "NONE" => recipient[n] \in Identity
    /\ status[n] \in {"NONE", "PENDING"} => logs[n] = 0

(* Nobody takes up again what was logged, whoever overlaps: every run logs *)
(* a notification at most once, and sends what it has logged.              *)
Counted(n) ==
  /\ logs[n] + Cardinality(Logging(n)) <= Cardinality(Run)
  /\ sends[n] + Cardinality(Sending(n)) <= logs[n]

(* Without overlapping runs nothing is logged before its verdict, and what *)
(* a run has yet to work on is not logged.                                 *)
Agrees(n) ==
  /\ \/ logs[n] = IF status[n] = "EXECUTED" THEN 1 ELSE 0
     \/ logs[n] <= 1 /\ (status[n] = "DELETED" \/ lost)
  /\ \A x \in Run : n \in todo[x] =>
       \/ logs[n] = 0
       \/ Current(x, n) /\ job[x] \in {"delivering", "sending"}
       \/ Current(x, n) /\ job[x] = "failing" /\ lost

(* A run that may log or send a notification took it up for an account     *)
(* that was not leaving.                                                   *)
TakenFresh(x, n) ==
  Current(x, n) =>
    /\ job[x] = "checking" /\ leaving[recipient[n]] = "no" => fresh[x]
    /\ job[x] \in {"routing", "executing", "delivering", "sending"} => fresh[x]

JobInv ==
  /\ LockInv /\ NotificationTypes /\ JobTypes /\ JobsOK /\ RowsOK
  /\ \A n \in Notification : Counted(n)
  /\ causes = {} => \A n \in Notification : Agrees(n)
  /\ \A x \in Run, n \in Notification : TakenFresh(x, n)

LEMMA CurrentIsUnique ==
  ASSUME NotificationTypes, JobTypes, NEW x \in Run,
         NEW m \in Notification, NEW n \in Notification, Current(x, m), Current(x, n)
  PROVE  m = n
BY NotificationAssumption DEF Current, JobTypes

(* Whatever the job does, the lock sees one of its own steps.              *)
LEMMA JobStepIsLockStep == Next => [LockNext]_lockVars
<1> SUFFICES ASSUME Next PROVE [LockNext]_lockVars
  OBVIOUS
<1> USE DEF LockNext, RunStep
<1>1. ASSUME NEW x \in Run, EndRun(x) \/ Locking(x) \/ LockFault(x)
      PROVE  LockNext
  BY <1>1 DEF EndRun, Locking, LockFault
<1>2. ASSUME NEW i \in Instance, InstanceExits(i)
      PROVE  LockNext
  BY <1>2 DEF InstanceExits
<1>3. CASE TimePasses
  BY <1>3 DEF TimePasses
<1>4. ASSUME NEW i \in Identity,
             \/ \E n \in Notification : createScheduled(n, i)
             \/ updateProfile(i) \/ markAsPendingDeletion(i)
             \/ cancelAllPendingForIdentity(i) \/ disableNotificationsForIdentity(i)
             \/ deleteImmediateTables(i)
      PROVE  UNCHANGED lockVars
  BY <1>4 DEF createScheduled, updateProfile, markAsPendingDeletion,
              cancelAllPendingForIdentity, disableNotificationsForIdentity,
              deleteImmediateTables
<1>5. ASSUME NEW x \in Run, NEW n \in Notification,
             ProcessOne(x, n) \/ AnswerLost(x, n) \/ Throw(x, n)
      PROVE  UNCHANGED lockVars
  BY <1>5 DEF ProcessOne, ReadRow, CheckIdentity, CheckChannels,
              cancelScheduledNotification, executeScheduledNotification, LoadChannels,
              sendEmail, markScheduledNotificationFailed, AnswerLost, Throw
<1>6. ASSUME NEW x \in Run, findPending(x)
      PROVE  UNCHANGED lockVars
  BY <1>6 DEF findPending
<1>7. QED
  BY <1>1, <1>2, <1>3, <1>4, <1>5, <1>6 DEF Next

LEMMA NotificationTypesStep == JobInv /\ [Next]_vars => NotificationTypes'
<1> SUFFICES ASSUME JobInv, [Next]_vars
             PROVE  NotificationTypes'
  OBVIOUS
<1> USE DEF JobInv, NotificationTypes, Status, Leaving, At, rowVars, accountVars, jobVars
<1>1. ASSUME NEW n0 \in Notification, NEW i \in Identity, createScheduled(n0, i)
      PROVE  NotificationTypes'
  BY <1>1 DEF createScheduled
<1>2. ASSUME NEW i \in Identity, updateProfile(i)
      PROVE  NotificationTypes'
  BY <1>2 DEF updateProfile
<1>3. ASSUME NEW i \in Identity, markAsPendingDeletion(i)
      PROVE  NotificationTypes'
  BY <1>3 DEF markAsPendingDeletion
<1>4. ASSUME NEW i \in Identity, cancelAllPendingForIdentity(i)
      PROVE  NotificationTypes'
  BY <1>4 DEF cancelAllPendingForIdentity
<1>5. ASSUME NEW i \in Identity, disableNotificationsForIdentity(i)
      PROVE  NotificationTypes'
  BY <1>5 DEF disableNotificationsForIdentity
<1>6. ASSUME NEW i \in Identity, deleteImmediateTables(i)
      PROVE  NotificationTypes'
  BY <1>6 DEF deleteImmediateTables
<1>7. ASSUME NEW x \in Run, findPending(x)
      PROVE  NotificationTypes'
  BY <1>7 DEF findPending, Unprocessed
<1>8. ASSUME NEW x \in Run, EndRun(x)
      PROVE  NotificationTypes'
  BY <1>8 DEF EndRun, Fault
<1>9. ASSUME NEW x \in Run, Locking(x)
      PROVE  NotificationTypes'
  BY <1>9 DEF Locking
<1>10. ASSUME NEW x \in Run, LockFault(x)
      PROVE  NotificationTypes'
  BY <1>10 DEF LockFault, Fault
<1>11. ASSUME NEW x \in Run, NEW k \in Notification, ReadRow(x, k)
      PROVE  NotificationTypes'
  BY <1>11 DEF ReadRow, Drop, Unprocessed
<1>12. ASSUME NEW x \in Run, NEW k \in Notification, CheckIdentity(x, k)
      PROVE  NotificationTypes'
  BY <1>12 DEF CheckIdentity, Goto
<1>13. ASSUME NEW x \in Run, NEW k \in Notification, CheckChannels(x, k)
      PROVE  NotificationTypes'
  BY <1>13 DEF CheckChannels, Goto
<1>14. ASSUME NEW x \in Run, NEW k \in Notification, cancelScheduledNotification(x, k)
      PROVE  NotificationTypes'
  BY <1>14 DEF cancelScheduledNotification, Goto, Drop
<1>15. ASSUME NEW x \in Run, NEW k \in Notification, executeScheduledNotification(x, k)
      PROVE  NotificationTypes'
  BY <1>15 DEF executeScheduledNotification, Goto
<1>16. ASSUME NEW x \in Run, NEW k \in Notification, AnswerLost(x, k)
      PROVE  NotificationTypes'
  BY <1>16 DEF AnswerLost, Goto, Fault
<1>17. ASSUME NEW x \in Run, NEW k \in Notification, LoadChannels(x, k)
      PROVE  NotificationTypes'
  BY <1>17 DEF LoadChannels, Goto, Drop, Fault
<1>18. ASSUME NEW x \in Run, NEW k \in Notification, sendEmail(x, k)
      PROVE  NotificationTypes'
  BY <1>18 DEF sendEmail, Drop
<1>19. ASSUME NEW x \in Run, NEW k \in Notification, Throw(x, k)
      PROVE  NotificationTypes'
  BY <1>19 DEF Throw, Goto, Fault
<1>20. ASSUME NEW x \in Run, NEW k \in Notification, markScheduledNotificationFailed(x, k)
      PROVE  NotificationTypes'
  BY <1>20 DEF markScheduledNotificationFailed, Drop, Fault
<1>21. ASSUME NEW i \in Instance, InstanceExits(i)
      PROVE  NotificationTypes'
  BY <1>21 DEF InstanceExits, Fault
<1>22. CASE TimePasses
  BY <1>22 DEF TimePasses
<1>23. CASE UNCHANGED vars
  BY <1>23 DEF vars
<1>24. QED
  BY <1>1, <1>2, <1>3, <1>4, <1>5, <1>6, <1>7, <1>8, <1>9, <1>10, <1>11,
     <1>12, <1>13, <1>14, <1>15, <1>16, <1>17, <1>18, <1>19, <1>20, <1>21,
     <1>22, <1>23
     DEF Next, ProcessOne

LEMMA JobTypesStep == JobInv /\ [Next]_vars => JobTypes'
<1> SUFFICES ASSUME JobInv, [Next]_vars
             PROVE  JobTypes'
  OBVIOUS
<1> USE FaultsAssumption
<1> USE DEF JobInv, JobTypes, Job, At, rowVars, accountVars, jobVars
<1>1. ASSUME NEW n0 \in Notification, NEW i \in Identity, createScheduled(n0, i)
      PROVE  JobTypes'
  BY <1>1 DEF createScheduled
<1>2. ASSUME NEW i \in Identity, updateProfile(i)
      PROVE  JobTypes'
  BY <1>2 DEF updateProfile
<1>3. ASSUME NEW i \in Identity, markAsPendingDeletion(i)
      PROVE  JobTypes'
  BY <1>3 DEF markAsPendingDeletion
<1>4. ASSUME NEW i \in Identity, cancelAllPendingForIdentity(i)
      PROVE  JobTypes'
  BY <1>4 DEF cancelAllPendingForIdentity
<1>5. ASSUME NEW i \in Identity, disableNotificationsForIdentity(i)
      PROVE  JobTypes'
  BY <1>5 DEF disableNotificationsForIdentity
<1>6. ASSUME NEW i \in Identity, deleteImmediateTables(i)
      PROVE  JobTypes'
  BY <1>6 DEF deleteImmediateTables
<1>7. ASSUME NEW x \in Run, findPending(x)
      PROVE  JobTypes'
  BY <1>7 DEF findPending, Unprocessed
<1>8. ASSUME NEW x \in Run, EndRun(x)
      PROVE  JobTypes'
  BY <1>8 DEF EndRun, Fault
<1>9. ASSUME NEW x \in Run, Locking(x)
      PROVE  JobTypes'
  BY <1>9 DEF Locking
<1>10. ASSUME NEW x \in Run, LockFault(x)
      PROVE  JobTypes'
  BY <1>10 DEF LockFault, Fault
<1>11. ASSUME NEW x \in Run, NEW k \in Notification, ReadRow(x, k)
      PROVE  JobTypes'
  BY <1>11 DEF ReadRow, Drop, Unprocessed
<1>12. ASSUME NEW x \in Run, NEW k \in Notification, CheckIdentity(x, k)
      PROVE  JobTypes'
  BY <1>12 DEF CheckIdentity, Goto
<1>13. ASSUME NEW x \in Run, NEW k \in Notification, CheckChannels(x, k)
      PROVE  JobTypes'
  BY <1>13 DEF CheckChannels, Goto
<1>14. ASSUME NEW x \in Run, NEW k \in Notification, cancelScheduledNotification(x, k)
      PROVE  JobTypes'
  BY <1>14 DEF cancelScheduledNotification, Goto, Drop
<1>15. ASSUME NEW x \in Run, NEW k \in Notification, executeScheduledNotification(x, k)
      PROVE  JobTypes'
  BY <1>15 DEF executeScheduledNotification, Goto
<1>16. ASSUME NEW x \in Run, NEW k \in Notification, AnswerLost(x, k)
      PROVE  JobTypes'
  BY <1>16 DEF AnswerLost, Goto, Fault
<1>17. ASSUME NEW x \in Run, NEW k \in Notification, LoadChannels(x, k)
      PROVE  JobTypes'
  <2>1. faults' \in 0 .. MaxFaults
    BY <1>17 DEF LoadChannels, Fault
  <2>2. CASE Goto(x, "sending")
    BY <1>17, <2>1, <2>2 DEF LoadChannels, Goto
  <2>3. CASE Drop(x, k)
    BY <1>17, <2>1, <2>3 DEF LoadChannels, Drop
  <2>4. QED
    BY <1>17, <2>2, <2>3 DEF LoadChannels
<1>18. ASSUME NEW x \in Run, NEW k \in Notification, sendEmail(x, k)
      PROVE  JobTypes'
  BY <1>18 DEF sendEmail, Drop
<1>19. ASSUME NEW x \in Run, NEW k \in Notification, Throw(x, k)
      PROVE  JobTypes'
  BY <1>19 DEF Throw, Goto, Fault
<1>20. ASSUME NEW x \in Run, NEW k \in Notification, markScheduledNotificationFailed(x, k)
      PROVE  JobTypes'
  BY <1>20 DEF markScheduledNotificationFailed, Drop, Fault
<1>21. ASSUME NEW i \in Instance, InstanceExits(i)
      PROVE  JobTypes'
  BY <1>21 DEF InstanceExits, Fault
<1>22. CASE TimePasses
  BY <1>22 DEF TimePasses
<1>23. CASE UNCHANGED vars
  BY <1>23 DEF vars
<1>24. QED
  BY <1>1, <1>2, <1>3, <1>4, <1>5, <1>6, <1>7, <1>8, <1>9, <1>10, <1>11,
     <1>12, <1>13, <1>14, <1>15, <1>16, <1>17, <1>18, <1>19, <1>20, <1>21,
     <1>22, <1>23
     DEF Next, ProcessOne

LEMMA JobsStep == JobInv /\ [Next]_vars => JobsOK'
<1> SUFFICES ASSUME JobInv, [Next]_vars
             PROVE  JobsOK'
  OBVIOUS
<1>0. JobTypes' /\ NotificationTypes' /\ LockTypeOK
  BY JobTypesStep, NotificationTypesStep DEF JobInv, LockInv
<1> USE <1>0
<1> USE DEF JobInv, JobsOK, JobTypes, NotificationTypes, LockTypeOK, At, Enter, rowVars,
            accountVars, jobVars, lockVars, instanceVars
<1>1. ASSUME NEW n0 \in Notification, NEW i \in Identity, createScheduled(n0, i)
      PROVE  JobsOK'
  BY <1>1 DEF createScheduled
<1>2. ASSUME NEW i \in Identity, updateProfile(i)
      PROVE  JobsOK'
  BY <1>2 DEF updateProfile
<1>3. ASSUME NEW i \in Identity, markAsPendingDeletion(i)
      PROVE  JobsOK'
  BY <1>3 DEF markAsPendingDeletion
<1>4. ASSUME NEW i \in Identity, cancelAllPendingForIdentity(i)
      PROVE  JobsOK'
  BY <1>4 DEF cancelAllPendingForIdentity
<1>5. ASSUME NEW i \in Identity, disableNotificationsForIdentity(i)
      PROVE  JobsOK'
  BY <1>5 DEF disableNotificationsForIdentity
<1>6. ASSUME NEW i \in Identity, deleteImmediateTables(i)
      PROVE  JobsOK'
  BY <1>6 DEF deleteImmediateTables
<1>7. ASSUME NEW x \in Run, findPending(x)
      PROVE  JobsOK'
  BY <1>7 DEF findPending, Unprocessed
<1>8. ASSUME NEW x \in Run, EndRun(x)
      PROVE  JobsOK'
  BY <1>8 DEF EndRun, Fault, FinishJobs
<1>9. ASSUME NEW x \in Run, Locking(x)
      PROVE  JobsOK'
  BY <1>9
     DEF Locking, acquireLock, WriteLock, StartUnlocked, releaseLock
<1>10. ASSUME NEW x \in Run, LockFault(x)
      PROVE  JobsOK'
  BY <1>10 DEF LockFault, Fault, AcquireFails, ReleaseFails
<1>11. ASSUME NEW x \in Run, NEW k \in Notification, ReadRow(x, k)
      PROVE  JobsOK'
  BY <1>11 DEF ReadRow, Drop, Unprocessed
<1>12. ASSUME NEW x \in Run, NEW k \in Notification, CheckIdentity(x, k)
      PROVE  JobsOK'
  BY <1>12 DEF CheckIdentity, Goto
<1>13. ASSUME NEW x \in Run, NEW k \in Notification, CheckChannels(x, k)
      PROVE  JobsOK'
  BY <1>13 DEF CheckChannels, Goto
<1>14. ASSUME NEW x \in Run, NEW k \in Notification, cancelScheduledNotification(x, k)
      PROVE  JobsOK'
  BY <1>14 DEF cancelScheduledNotification, Goto, Drop
<1>15. ASSUME NEW x \in Run, NEW k \in Notification, executeScheduledNotification(x, k)
      PROVE  JobsOK'
  BY <1>15 DEF executeScheduledNotification, Goto
<1>16. ASSUME NEW x \in Run, NEW k \in Notification, AnswerLost(x, k)
      PROVE  JobsOK'
  BY <1>16 DEF AnswerLost, Goto, Fault
<1>17. ASSUME NEW x \in Run, NEW k \in Notification, LoadChannels(x, k)
      PROVE  JobsOK'
  BY <1>17 DEF LoadChannels, Goto, Drop, Fault
<1>18. ASSUME NEW x \in Run, NEW k \in Notification, sendEmail(x, k)
      PROVE  JobsOK'
  BY <1>18 DEF sendEmail, Drop
<1>19. ASSUME NEW x \in Run, NEW k \in Notification, Throw(x, k)
      PROVE  JobsOK'
  BY <1>19 DEF Throw, Goto, Fault
<1>20. ASSUME NEW x \in Run, NEW k \in Notification, markScheduledNotificationFailed(x, k)
      PROVE  JobsOK'
  BY <1>20 DEF markScheduledNotificationFailed, Drop, Fault
<1>21. ASSUME NEW i \in Instance, InstanceExits(i)
      PROVE  JobsOK'
  BY <1>21 DEF InstanceExits, Fault, Exit
<1>22. CASE TimePasses
  BY <1>22 DEF TimePasses, Tick
<1>23. CASE UNCHANGED vars
  BY <1>23 DEF vars
<1>24. QED
  BY <1>1, <1>2, <1>3, <1>4, <1>5, <1>6, <1>7, <1>8, <1>9, <1>10, <1>11,
     <1>12, <1>13, <1>14, <1>15, <1>16, <1>17, <1>18, <1>19, <1>20, <1>21,
     <1>22, <1>23
     DEF Next, ProcessOne

LEMMA RowsStep == JobInv /\ [Next]_vars => RowsOK'
<1> SUFFICES ASSUME JobInv, [Next]_vars
             PROVE  RowsOK'
  OBVIOUS
<1> USE DEF JobInv, RowsOK, JobsOK, JobTypes, NotificationTypes, Status, At, rowVars,
            accountVars, jobVars
<1>1. ASSUME NEW n0 \in Notification, NEW i \in Identity, createScheduled(n0, i)
      PROVE  RowsOK'
  BY <1>1 DEF createScheduled
<1>2. ASSUME NEW i \in Identity, updateProfile(i)
      PROVE  RowsOK'
  BY <1>2 DEF updateProfile
<1>3. ASSUME NEW i \in Identity, markAsPendingDeletion(i)
      PROVE  RowsOK'
  BY <1>3 DEF markAsPendingDeletion
<1>4. ASSUME NEW i \in Identity, cancelAllPendingForIdentity(i)
      PROVE  RowsOK'
  BY <1>4 DEF cancelAllPendingForIdentity
<1>5. ASSUME NEW i \in Identity, disableNotificationsForIdentity(i)
      PROVE  RowsOK'
  BY <1>5 DEF disableNotificationsForIdentity
<1>6. ASSUME NEW i \in Identity, deleteImmediateTables(i)
      PROVE  RowsOK'
  BY <1>6 DEF deleteImmediateTables
<1>7. ASSUME NEW x \in Run, findPending(x)
      PROVE  RowsOK'
  BY <1>7 DEF findPending, Unprocessed
<1>8. ASSUME NEW x \in Run, EndRun(x)
      PROVE  RowsOK'
  BY <1>8 DEF EndRun, Fault
<1>9. ASSUME NEW x \in Run, Locking(x)
      PROVE  RowsOK'
  BY <1>9 DEF Locking
<1>10. ASSUME NEW x \in Run, LockFault(x)
      PROVE  RowsOK'
  BY <1>10 DEF LockFault, Fault
<1>11. ASSUME NEW x \in Run, NEW k \in Notification, ReadRow(x, k)
      PROVE  RowsOK'
  BY <1>11 DEF ReadRow, Drop, Unprocessed
<1>12. ASSUME NEW x \in Run, NEW k \in Notification, CheckIdentity(x, k)
      PROVE  RowsOK'
  BY <1>12 DEF CheckIdentity, Goto
<1>13. ASSUME NEW x \in Run, NEW k \in Notification, CheckChannels(x, k)
      PROVE  RowsOK'
  BY <1>13 DEF CheckChannels, Goto
<1>14. ASSUME NEW x \in Run, NEW k \in Notification, cancelScheduledNotification(x, k)
      PROVE  RowsOK'
  BY <1>14 DEF cancelScheduledNotification, Goto, Drop
<1>15. ASSUME NEW x \in Run, NEW k \in Notification, executeScheduledNotification(x, k)
      PROVE  RowsOK'
  BY <1>15 DEF executeScheduledNotification, Goto
<1>16. ASSUME NEW x \in Run, NEW k \in Notification, AnswerLost(x, k)
      PROVE  RowsOK'
  BY <1>16 DEF AnswerLost, Goto, Fault
<1>17. ASSUME NEW x \in Run, NEW k \in Notification, LoadChannels(x, k)
      PROVE  RowsOK'
  BY <1>17 DEF LoadChannels, Goto, Drop, Fault
<1>18. ASSUME NEW x \in Run, NEW k \in Notification, sendEmail(x, k)
      PROVE  RowsOK'
  BY <1>18 DEF sendEmail, Drop
<1>19. ASSUME NEW x \in Run, NEW k \in Notification, Throw(x, k)
      PROVE  RowsOK'
  BY <1>19 DEF Throw, Goto, Fault
<1>20. ASSUME NEW x \in Run, NEW k \in Notification, markScheduledNotificationFailed(x, k)
      PROVE  RowsOK'
  BY <1>20 DEF markScheduledNotificationFailed, Drop, Fault
<1>21. ASSUME NEW i \in Instance, InstanceExits(i)
      PROVE  RowsOK'
  BY <1>21 DEF InstanceExits, Fault
<1>22. CASE TimePasses
  BY <1>22 DEF TimePasses
<1>23. CASE UNCHANGED vars
  BY <1>23 DEF vars
<1>24. QED
  BY <1>1, <1>2, <1>3, <1>4, <1>5, <1>6, <1>7, <1>8, <1>9, <1>10, <1>11,
     <1>12, <1>13, <1>14, <1>15, <1>16, <1>17, <1>18, <1>19, <1>20, <1>21,
     <1>22, <1>23
     DEF Next, ProcessOne

-----------------------------------------------------------------------------
LEMMA Counting ==
  ASSUME NEW S \in SUBSET Run, NEW T \in SUBSET Run
  PROVE  /\ Cardinality(S) \in Nat
         /\ T \subseteq S => Cardinality(T) <= Cardinality(S)
         /\ \A x \in S : T \subseteq S \ {x} => Cardinality(T) + 1 <= Cardinality(S)
         /\ \A x : T \subseteq S \cup {x} => Cardinality(T) <= Cardinality(S) + 1
<1>1. IsFiniteSet(S) /\ IsFiniteSet(T) /\ Cardinality(S) \in Nat /\ Cardinality(T) \in Nat
  BY RunAssumption, FS_Subset, FS_CardinalityType
<1>2. T \subseteq S => Cardinality(T) <= Cardinality(S)
  BY <1>1, FS_Subset
<1>3. ASSUME NEW x \in S, T \subseteq S \ {x}
      PROVE  Cardinality(T) + 1 <= Cardinality(S)
  <2>1. IsFiniteSet(S \ {x}) /\ Cardinality(S \ {x}) = Cardinality(S) - 1
    BY <1>1, FS_RemoveElement
  <2>2. Cardinality(T) <= Cardinality(S \ {x})
    BY <1>3, <2>1, FS_Subset
  <2>3. QED
    BY <1>1, <2>1, <2>2
<1>4. ASSUME NEW x, T \subseteq S \cup {x}
      PROVE  Cardinality(T) <= Cardinality(S) + 1
  <2>1. /\ IsFiniteSet(S \cup {x})
        /\ Cardinality(S \cup {x}) \in {Cardinality(S), Cardinality(S) + 1}
    BY <1>1, FS_AddElement
  <2>2. Cardinality(T) <= Cardinality(S \cup {x})
    BY <1>4, <2>1, FS_Subset
  <2>3. QED
    BY <1>1, <2>1, <2>2
<1>5. QED
  BY <1>1, <1>2, <1>3, <1>4

(* The four ways in which a step can concern the counts of n: not at all,  *)
(* by a run that takes it up, logs it, or sends it.                        *)
CountStep(n) ==
  \/ /\ UNCHANGED <<logs, sends>>
     /\ Logging(n)' \subseteq Logging(n) /\ Sending(n)' \subseteq Sending(n)
  \/ /\ UNCHANGED <<logs, sends>>
     /\ status[n] = "PENDING" /\ Sending(n)' \subseteq Sending(n)
  \/ \E x \in Logging(n) :
       /\ logs' = [logs EXCEPT ![n] = @ + 1] /\ UNCHANGED sends
       /\ Logging(n)' \subseteq Logging(n) \ {x} /\ Sending(n)' \subseteq Sending(n) \cup {x}
  \/ \E x \in Sending(n) :
       /\ sends' = [sends EXCEPT ![n] = @ + 1] /\ UNCHANGED logs
       /\ Sending(n)' \subseteq Sending(n) \ {x} /\ Logging(n)' \subseteq Logging(n)
  \/ /\ logs'[n] = logs[n] /\ sends'[n] = sends[n]
     /\ Logging(n)' \subseteq Logging(n) /\ Sending(n)' \subseteq Sending(n)

LEMMA CountStepKeepsCount ==
  ASSUME JobInv, NEW n \in Notification, CountStep(n)
  PROVE  Counted(n)'
<1>1. /\ logs[n] \in Nat /\ sends[n] \in Nat /\ Counted(n)
      /\ logs \in [Notification -> Nat] /\ sends \in [Notification -> Nat]
      /\ status[n] = "PENDING" => logs[n] = 0
  BY DEF JobInv, NotificationTypes, RowsOK
<1>2. /\ Logging(n) \subseteq Run /\ Logging(n)' \subseteq Run
      /\ Sending(n) \subseteq Run /\ Sending(n)' \subseteq Run
  BY DEF Logging, Sending
<1>3. /\ Cardinality(Logging(n)) \in Nat /\ Cardinality(Logging(n)') \in Nat
      /\ Cardinality(Sending(n)) \in Nat /\ Cardinality(Sending(n)') \in Nat
      /\ Cardinality(Logging(n)') <= Cardinality(Run) /\ Cardinality(Run) \in Nat
  BY <1>2, Counting
<1>4. Logging(n)' \subseteq Logging(n) => Cardinality(Logging(n)') <= Cardinality(Logging(n))
  BY <1>2, Counting
<1>5. Sending(n)' \subseteq Sending(n) => Cardinality(Sending(n)') <= Cardinality(Sending(n))
  BY <1>2, Counting
<1>6. CASE /\ logs'[n] = logs[n] /\ sends'[n] = sends[n]
           /\ Logging(n)' \subseteq Logging(n) /\ Sending(n)' \subseteq Sending(n)
  BY <1>1, <1>3, <1>4, <1>5, <1>6 DEF Counted
<1>7. CASE /\ UNCHANGED <<logs, sends>>
           /\ status[n] = "PENDING" /\ Sending(n)' \subseteq Sending(n)
  BY <1>1, <1>3, <1>5, <1>7 DEF Counted
<1>8. ASSUME NEW x \in Logging(n),
             logs' = [logs EXCEPT ![n] = @ + 1] /\ UNCHANGED sends,
             Logging(n)' \subseteq Logging(n) \ {x}, Sending(n)' \subseteq Sending(n) \cup {x}
      PROVE  Counted(n)'
  <2>1. Cardinality(Logging(n)') + 1 <= Cardinality(Logging(n))
    BY <1>2, <1>8, Counting
  <2>2. Cardinality(Sending(n)') <= Cardinality(Sending(n)) + 1
    BY <1>2, <1>8, Counting
  <2>3. QED
    BY <1>1, <1>3, <1>8, <2>1, <2>2 DEF Counted
<1>9. ASSUME NEW x \in Sending(n),
             sends' = [sends EXCEPT ![n] = @ + 1] /\ UNCHANGED logs,
             Sending(n)' \subseteq Sending(n) \ {x}, Logging(n)' \subseteq Logging(n)
      PROVE  Counted(n)'
  <2>1. Cardinality(Sending(n)') + 1 <= Cardinality(Sending(n))
    BY <1>2, <1>9, Counting
  <2>2. QED
    BY <1>1, <1>3, <1>4, <1>9, <2>1 DEF Counted
<1>10. QED
  BY <1>6, <1>7, <1>8, <1>9 DEF CountStep

LEMMA CountsStep ==
  ASSUME JobInv, [Next]_vars, NEW n \in Notification
  PROVE  Counted(n)'
<1> SUFFICES CountStep(n)
  BY CountStepKeepsCount
<1>0. JobTypes /\ NotificationTypes /\ JobTypes'
  BY JobTypesStep DEF JobInv
<1> USE <1>0, CurrentIsUnique
<1> USE DEF CountStep, Logging, Sending, Current, JobTypes, NotificationTypes, At, rowVars,
            accountVars, jobVars
<1>1. ASSUME NEW n0 \in Notification, NEW i \in Identity, createScheduled(n0, i)
      PROVE  CountStep(n)
  BY <1>1 DEF createScheduled
<1>2. ASSUME NEW i \in Identity, updateProfile(i)
      PROVE  CountStep(n)
  BY <1>2 DEF updateProfile
<1>3. ASSUME NEW i \in Identity, markAsPendingDeletion(i)
      PROVE  CountStep(n)
  BY <1>3 DEF markAsPendingDeletion
<1>4. ASSUME NEW i \in Identity, cancelAllPendingForIdentity(i)
      PROVE  CountStep(n)
  BY <1>4 DEF cancelAllPendingForIdentity
<1>5. ASSUME NEW i \in Identity, disableNotificationsForIdentity(i)
      PROVE  CountStep(n)
  BY <1>5 DEF disableNotificationsForIdentity
<1>6. ASSUME NEW i \in Identity, deleteImmediateTables(i)
      PROVE  CountStep(n)
  BY <1>6 DEF deleteImmediateTables
<1>7. ASSUME NEW x \in Run, findPending(x)
      PROVE  CountStep(n)
  BY <1>7 DEF findPending, Unprocessed
<1>8. ASSUME NEW x \in Run, EndRun(x)
      PROVE  CountStep(n)
  BY <1>8 DEF EndRun, Fault
<1>9. ASSUME NEW x \in Run, Locking(x)
      PROVE  CountStep(n)
  BY <1>9 DEF Locking
<1>10. ASSUME NEW x \in Run, LockFault(x)
      PROVE  CountStep(n)
  BY <1>10 DEF LockFault, Fault
<1>11. ASSUME NEW x \in Run, NEW k \in Notification, ReadRow(x, k)
      PROVE  CountStep(n)
  BY <1>11 DEF ReadRow, Drop, Unprocessed
<1>12. ASSUME NEW x \in Run, NEW k \in Notification, CheckIdentity(x, k)
      PROVE  CountStep(n)
  BY <1>12 DEF CheckIdentity, Goto
<1>13. ASSUME NEW x \in Run, NEW k \in Notification, CheckChannels(x, k)
      PROVE  CountStep(n)
  BY <1>13 DEF CheckChannels, Goto
<1>14. ASSUME NEW x \in Run, NEW k \in Notification, cancelScheduledNotification(x, k)
      PROVE  CountStep(n)
  BY <1>14 DEF cancelScheduledNotification, Goto, Drop
<1>15. ASSUME NEW x \in Run, NEW k \in Notification, executeScheduledNotification(x, k)
      PROVE  CountStep(n)
  BY <1>15 DEF executeScheduledNotification, Goto
<1>16. ASSUME NEW x \in Run, NEW k \in Notification, AnswerLost(x, k)
      PROVE  CountStep(n)
  BY <1>16 DEF AnswerLost, Goto, Fault
<1>17. ASSUME NEW x \in Run, NEW k \in Notification, LoadChannels(x, k)
      PROVE  CountStep(n)
  BY <1>17 DEF LoadChannels, Goto, Drop, Fault
<1>18. ASSUME NEW x \in Run, NEW k \in Notification, sendEmail(x, k)
      PROVE  CountStep(n)
  BY <1>18 DEF sendEmail, Drop
<1>19. ASSUME NEW x \in Run, NEW k \in Notification, Throw(x, k)
      PROVE  CountStep(n)
  BY <1>19 DEF Throw, Goto, Fault
<1>20. ASSUME NEW x \in Run, NEW k \in Notification, markScheduledNotificationFailed(x, k)
      PROVE  CountStep(n)
  BY <1>20 DEF markScheduledNotificationFailed, Drop, Fault
<1>21. ASSUME NEW i \in Instance, InstanceExits(i)
      PROVE  CountStep(n)
  BY <1>21 DEF InstanceExits, Fault
<1>22. CASE TimePasses
  BY <1>22 DEF TimePasses
<1>23. CASE UNCHANGED vars
  BY <1>23 DEF vars
<1>24. QED
  BY <1>1, <1>2, <1>3, <1>4, <1>5, <1>6, <1>7, <1>8, <1>9, <1>10, <1>11,
     <1>12, <1>13, <1>14, <1>15, <1>16, <1>17, <1>18, <1>19, <1>20, <1>21,
     <1>22, <1>23
     DEF Next, ProcessOne

LEMMA CausesStay == [LockNext]_lockVars /\ causes' = {} => causes = {}
BY DEF LockNext, RunStep, acquireLock, WriteLock, AcquireFails, StartUnlocked, FinishJobs,
       releaseLock, ReleaseFails, onApplicationShutdown, Exit, Tick, lockVars

LEMMA AgreesStep ==
  ASSUME JobInv, [Next]_vars, causes' = {}, NEW n \in Notification
  PROVE  Agrees(n)'
<1>0. /\ JobTypes /\ NotificationTypes /\ JobTypes' /\ NotificationTypes'
      /\ causes = {} /\ Agrees(n) /\ JobsOK
      /\ status[n] \in {"NONE", "PENDING"} => logs[n] = 0
      /\ \A x, y \in Run : phase[x] = "running" /\ phase[y] = "running" => x = y
  <2>1. [LockNext]_lockVars
    BY JobStepIsLockStep DEF vars, lockVars
  <2>2. causes = {}
    BY <2>1, CausesStay
  <2>3. \A x, y \in Run : phase[x] = "running" /\ phase[y] = "running" => x = y
    BY <2>2 DEF JobInv, LockInv
  <2>4. QED
    BY <2>2, <2>3, JobTypesStep, NotificationTypesStep DEF JobInv, RowsOK
<1> USE <1>0, CurrentIsUnique
<1> USE DEF Agrees, Current, JobTypes, JobsOK, NotificationTypes, At, rowVars, accountVars, jobVars
<1>1. ASSUME NEW n0 \in Notification, NEW i \in Identity, createScheduled(n0, i)
      PROVE  Agrees(n)'
  BY <1>1 DEF createScheduled
<1>2. ASSUME NEW i \in Identity, updateProfile(i)
      PROVE  Agrees(n)'
  BY <1>2 DEF updateProfile
<1>3. ASSUME NEW i \in Identity, markAsPendingDeletion(i)
      PROVE  Agrees(n)'
  BY <1>3 DEF markAsPendingDeletion
<1>4. ASSUME NEW i \in Identity, cancelAllPendingForIdentity(i)
      PROVE  Agrees(n)'
  BY <1>4 DEF cancelAllPendingForIdentity
<1>5. ASSUME NEW i \in Identity, disableNotificationsForIdentity(i)
      PROVE  Agrees(n)'
  BY <1>5 DEF disableNotificationsForIdentity
<1>6. ASSUME NEW i \in Identity, deleteImmediateTables(i)
      PROVE  Agrees(n)'
  BY <1>6 DEF deleteImmediateTables
<1>7. ASSUME NEW x \in Run, findPending(x)
      PROVE  Agrees(n)'
  BY <1>7 DEF findPending, Unprocessed
<1>8. ASSUME NEW x \in Run, EndRun(x)
      PROVE  Agrees(n)'
  BY <1>8 DEF EndRun, Fault
<1>9. ASSUME NEW x \in Run, Locking(x)
      PROVE  Agrees(n)'
  BY <1>9 DEF Locking
<1>10. ASSUME NEW x \in Run, LockFault(x)
      PROVE  Agrees(n)'
  BY <1>10 DEF LockFault, Fault
<1>11. ASSUME NEW x \in Run, NEW k \in Notification, ReadRow(x, k)
      PROVE  Agrees(n)'
  BY <1>11 DEF ReadRow, Drop, Unprocessed
<1>12. ASSUME NEW x \in Run, NEW k \in Notification, CheckIdentity(x, k)
      PROVE  Agrees(n)'
  BY <1>12 DEF CheckIdentity, Goto
<1>13. ASSUME NEW x \in Run, NEW k \in Notification, CheckChannels(x, k)
      PROVE  Agrees(n)'
  BY <1>13 DEF CheckChannels, Goto
<1>14. ASSUME NEW x \in Run, NEW k \in Notification, cancelScheduledNotification(x, k)
      PROVE  Agrees(n)'
  <2>1. CASE Goto(x, "failing") /\ UNCHANGED status
    BY <1>14, <2>1 DEF cancelScheduledNotification, Goto
  <2>2. CASE Drop(x, k) /\ status' = [status EXCEPT ![k] = "CANCELLED"]
    BY <1>14, <2>2 DEF cancelScheduledNotification, Drop
  <2>3. QED
    BY <1>14, <2>1, <2>2 DEF cancelScheduledNotification
<1>15. ASSUME NEW x \in Run, NEW k \in Notification, executeScheduledNotification(x, k)
      PROVE  Agrees(n)'
  BY <1>15 DEF executeScheduledNotification, Goto
<1>16. ASSUME NEW x \in Run, NEW k \in Notification, AnswerLost(x, k)
      PROVE  Agrees(n)'
  BY <1>16 DEF AnswerLost, Goto, Fault
<1>17. ASSUME NEW x \in Run, NEW k \in Notification, LoadChannels(x, k)
      PROVE  Agrees(n)'
  BY <1>17 DEF LoadChannels, Goto, Drop, Fault
<1>18. ASSUME NEW x \in Run, NEW k \in Notification, sendEmail(x, k)
      PROVE  Agrees(n)'
  BY <1>18 DEF sendEmail, Drop
<1>19. ASSUME NEW x \in Run, NEW k \in Notification, Throw(x, k)
      PROVE  Agrees(n)'
  BY <1>19 DEF Throw, Goto, Fault
<1>20. ASSUME NEW x \in Run, NEW k \in Notification, markScheduledNotificationFailed(x, k)
      PROVE  Agrees(n)'
  BY <1>20 DEF markScheduledNotificationFailed, Drop, Fault
<1>21. ASSUME NEW i \in Instance, InstanceExits(i)
      PROVE  Agrees(n)'
  BY <1>21 DEF InstanceExits, Fault
<1>22. CASE TimePasses
  BY <1>22 DEF TimePasses
<1>23. CASE UNCHANGED vars
  BY <1>23 DEF vars
<1>24. QED
  BY <1>1, <1>2, <1>3, <1>4, <1>5, <1>6, <1>7, <1>8, <1>9, <1>10, <1>11,
     <1>12, <1>13, <1>14, <1>15, <1>16, <1>17, <1>18, <1>19, <1>20, <1>21,
     <1>22, <1>23
     DEF Next, ProcessOne

LEMMA FreshStep ==
  ASSUME JobInv, [Next]_vars, NEW n \in Notification, NEW y \in Run
  PROVE  TakenFresh(y, n)'
<1>0. /\ JobTypes /\ NotificationTypes /\ JobTypes' /\ NotificationTypes'
      /\ TakenFresh(y, n) /\ JobsOK
      /\ status[n] # "NONE" => recipient[n] \in Identity
  BY JobTypesStep, NotificationTypesStep DEF JobInv, RowsOK
<1> USE <1>0, CurrentIsUnique
<1> USE DEF TakenFresh, Current, JobTypes, JobsOK, NotificationTypes, At, rowVars, accountVars, jobVars
<1>1. ASSUME NEW n0 \in Notification, NEW i \in Identity, createScheduled(n0, i)
      PROVE  TakenFresh(y, n)'
  BY <1>1 DEF createScheduled
<1>2. ASSUME NEW i \in Identity, updateProfile(i)
      PROVE  TakenFresh(y, n)'
  BY <1>2 DEF updateProfile
<1>3. ASSUME NEW i \in Identity, markAsPendingDeletion(i)
      PROVE  TakenFresh(y, n)'
  BY <1>3 DEF markAsPendingDeletion
<1>4. ASSUME NEW i \in Identity, cancelAllPendingForIdentity(i)
      PROVE  TakenFresh(y, n)'
  BY <1>4 DEF cancelAllPendingForIdentity
<1>5. ASSUME NEW i \in Identity, disableNotificationsForIdentity(i)
      PROVE  TakenFresh(y, n)'
  BY <1>5 DEF disableNotificationsForIdentity
<1>6. ASSUME NEW i \in Identity, deleteImmediateTables(i)
      PROVE  TakenFresh(y, n)'
  BY <1>6 DEF deleteImmediateTables
<1>7. ASSUME NEW x \in Run, findPending(x)
      PROVE  TakenFresh(y, n)'
  BY <1>7 DEF findPending, Unprocessed
<1>8. ASSUME NEW x \in Run, EndRun(x)
      PROVE  TakenFresh(y, n)'
  BY <1>8 DEF EndRun, Fault
<1>9. ASSUME NEW x \in Run, Locking(x)
      PROVE  TakenFresh(y, n)'
  BY <1>9 DEF Locking
<1>10. ASSUME NEW x \in Run, LockFault(x)
      PROVE  TakenFresh(y, n)'
  BY <1>10 DEF LockFault, Fault
<1>11. ASSUME NEW x \in Run, NEW k \in Notification, ReadRow(x, k)
      PROVE  TakenFresh(y, n)'
  <2>1. CASE Unprocessed(k)
    BY <1>11, <2>1 DEF ReadRow, Unprocessed
  <2>2. CASE Drop(x, k)
    BY <1>11, <2>2 DEF ReadRow, Drop
  <2>3. QED
    BY <1>11, <2>1, <2>2 DEF ReadRow
<1>12. ASSUME NEW x \in Run, NEW k \in Notification, CheckIdentity(x, k)
      PROVE  TakenFresh(y, n)'
  BY <1>12 DEF CheckIdentity, Goto
<1>13. ASSUME NEW x \in Run, NEW k \in Notification, CheckChannels(x, k)
      PROVE  TakenFresh(y, n)'
  BY <1>13 DEF CheckChannels, Goto
<1>14. ASSUME NEW x \in Run, NEW k \in Notification, cancelScheduledNotification(x, k)
      PROVE  TakenFresh(y, n)'
  BY <1>14 DEF cancelScheduledNotification, Goto, Drop
<1>15. ASSUME NEW x \in Run, NEW k \in Notification, executeScheduledNotification(x, k)
      PROVE  TakenFresh(y, n)'
  BY <1>15 DEF executeScheduledNotification, Goto
<1>16. ASSUME NEW x \in Run, NEW k \in Notification, AnswerLost(x, k)
      PROVE  TakenFresh(y, n)'
  BY <1>16 DEF AnswerLost, Goto, Fault
<1>17. ASSUME NEW x \in Run, NEW k \in Notification, LoadChannels(x, k)
      PROVE  TakenFresh(y, n)'
  BY <1>17 DEF LoadChannels, Goto, Drop, Fault
<1>18. ASSUME NEW x \in Run, NEW k \in Notification, sendEmail(x, k)
      PROVE  TakenFresh(y, n)'
  BY <1>18 DEF sendEmail, Drop
<1>19. ASSUME NEW x \in Run, NEW k \in Notification, Throw(x, k)
      PROVE  TakenFresh(y, n)'
  BY <1>19 DEF Throw, Goto, Fault
<1>20. ASSUME NEW x \in Run, NEW k \in Notification, markScheduledNotificationFailed(x, k)
      PROVE  TakenFresh(y, n)'
  BY <1>20 DEF markScheduledNotificationFailed, Drop, Fault
<1>21. ASSUME NEW i \in Instance, InstanceExits(i)
      PROVE  TakenFresh(y, n)'
  BY <1>21 DEF InstanceExits, Fault
<1>22. CASE TimePasses
  BY <1>22 DEF TimePasses
<1>23. CASE UNCHANGED vars
  BY <1>23 DEF vars
<1>24. QED
  BY <1>1, <1>2, <1>3, <1>4, <1>5, <1>6, <1>7, <1>8, <1>9, <1>10, <1>11,
     <1>12, <1>13, <1>14, <1>15, <1>16, <1>17, <1>18, <1>19, <1>20, <1>21,
     <1>22, <1>23
     DEF Next, ProcessOne

LEMMA JobInvInit == Init => JobInv
<1> SUFFICES ASSUME Init
             PROVE  JobInv
  OBVIOUS
<1>1. LockInv
  BY LockInvInit DEF Init
<1>2. NotificationTypes /\ JobTypes
  <2>1. "NONE" \in Status /\ "no" \in Leaving /\ "start" \in Job
    BY DEF Status, Leaving, Job
  <2>2. NotificationTypes
    BY <2>1 DEF Init, NotificationTypes
  <2>3. JobTypes
    <3>1. job \in [Run -> Job] /\ todo \in [Run -> SUBSET Notification]
      BY <2>1 DEF Init
    <3>2. fresh \in [Run -> BOOLEAN] /\ lost \in BOOLEAN
      <4> FALSE \in BOOLEAN
        OBVIOUS
      <4> QED
        BY DEF Init
    <3>3. faults \in 0 .. MaxFaults
      BY FaultsAssumption DEF Init
    <3>4. QED
      BY <3>1, <3>2, <3>3 DEF JobTypes
  <2>4. QED
    BY <2>2, <2>3
<1>3. JobsOK /\ RowsOK
  BY DEF Init, JobsOK, RowsOK
<1>4. \A n \in Notification :
        /\ Logging(n) = {} /\ Sending(n) = {} /\ logs[n] = 0 /\ sends[n] = 0
        /\ Agrees(n)
  BY DEF Init, Logging, Sending, Agrees, Current
<1>5. \A n \in Notification : Counted(n)
  <2>1. Cardinality({}) = 0 /\ Cardinality(Run) \in Nat
    BY RunAssumption, FS_EmptySet, FS_CardinalityType
  <2>2. QED
    BY <1>4, <2>1 DEF Counted
<1>6. \A x \in Run, n \in Notification : TakenFresh(x, n)
  BY DEF Init, TakenFresh, Current
<1>7. QED
  BY <1>1, <1>2, <1>3, <1>4, <1>5, <1>6 DEF JobInv

LEMMA JobInvStep == JobInv /\ [Next]_vars => JobInv'
<1> SUFFICES ASSUME JobInv, [Next]_vars
             PROVE  JobInv'
  OBVIOUS
<1>1. LockInv'
  <2>1. [LockNext]_lockVars
    BY JobStepIsLockStep DEF vars, lockVars
  <2>2. QED
    BY <2>1, LockInvStep DEF JobInv
<1>2. QED
  BY <1>1, NotificationTypesStep, JobTypesStep, JobsStep, RowsStep, CountsStep,
     AgreesStep, FreshStep
     DEF JobInv

LEMMA JobInvariance == Spec => []JobInv
BY JobInvInit, JobInvStep, PTL DEF Spec

(* Every variable of the job stays in its range; in particular no more     *)
(* entries are written, and mails sent, for a notification than there are  *)
(* runs, however they overlap.                                             *)
THEOREM NotificationsTypeCorrect == Spec => []TypeOK
<1>1. JobInv => TypeOK
  <2> SUFFICES ASSUME JobInv, NEW n \in Notification
               PROVE  logs[n] \in 0 .. Cardinality(Run) /\ sends[n] \in 0 .. Cardinality(Run)
    BY DEF JobInv, LockInv, NotificationTypes, JobTypes, TypeOK
  <2>1. logs[n] \in Nat /\ sends[n] \in Nat /\ Counted(n)
    BY DEF JobInv, NotificationTypes
  <2>2. Logging(n) \subseteq Run /\ Sending(n) \subseteq Run
    BY DEF Logging, Sending
  <2>3. /\ Cardinality(Logging(n)) \in Nat /\ Cardinality(Sending(n)) \in Nat
        /\ Cardinality(Run) \in Nat
    BY <2>2, Counting
  <2>4. QED
    BY <2>1, <2>3 DEF Counted
<1>2. QED
  BY <1>1, JobInvariance, PTL

(* A notification is logged once if it was executed and never if it was    *)
(* cancelled or failed, unless runs could overlap or a verdict got lost,   *)
(* and it is never sent more often than it is logged.                      *)
THEOREM VerdictsAreLogged == Spec => []LogsMatchVerdicts
<1>1. JobInv => LogsMatchVerdicts
  <2> SUFFICES ASSUME JobInv, NEW n \in Notification
               PROVE  /\ sends[n] <= logs[n]
                      /\ \/ logs[n] = IF status[n] = "EXECUTED" THEN 1 ELSE 0
                         \/ logs[n] <= 1 /\ (status[n] = "DELETED" \/ lost)
                         \/ causes # {}
    BY DEF LogsMatchVerdicts
  <2>1. logs[n] \in Nat /\ sends[n] \in Nat /\ Counted(n)
    BY DEF JobInv, NotificationTypes
  <2>2. Sending(n) \subseteq Run
    BY DEF Sending
  <2>3. Cardinality(Sending(n)) \in Nat
    BY <2>2, Counting
  <2>4. sends[n] <= logs[n]
    BY <2>1, <2>3 DEF Counted
  <2>5. QED
    BY <2>4 DEF JobInv, Agrees
<1>2. QED
  BY <1>1, JobInvariance, PTL

(* What is logged or sent was taken up for an account that was not leaving *)
(* then, by the very run that logs or sends it.                            *)
THEOREM LeavingGetNothing == Spec => DeletedGetNothing
<1> DEFINE Quiet ==
      \A n \in Notification :
        logs'[n] + sends'[n] > logs[n] + sends[n] =>
          \E x \in Run : n \in todo[x] /\ job[x] \in {"executing", "sending"} /\ fresh[x]
<1>1. JobInv /\ [Next]_vars => [Quiet]_vars
  <2> SUFFICES ASSUME JobInv, [Next]_vars, NEW n \in Notification,
                      logs'[n] + sends'[n] > logs[n] + sends[n]
               PROVE  \E x \in Run : /\ n \in todo[x] /\ job[x] \in {"executing", "sending"}
                                    /\ fresh[x]
    OBVIOUS
  <2>1. logs \in [Notification -> Nat] /\ sends \in [Notification -> Nat]
    BY DEF JobInv, NotificationTypes
  <2>2. ~ UNCHANGED <<logs, sends>>
    BY <2>1
  <2>3. PICK x \in Run, k \in Notification :
          \/ executeScheduledNotification(x, k) \/ AnswerLost(x, k) \/ sendEmail(x, k)
    BY <2>2 DEF Next, ProcessOne, vars, rowVars, createScheduled, updateProfile,
                markAsPendingDeletion, cancelAllPendingForIdentity,
                disableNotificationsForIdentity, deleteImmediateTables, findPending,
                EndRun, Locking, LockFault, ReadRow, CheckIdentity, CheckChannels,
                cancelScheduledNotification, LoadChannels, Throw,
                markScheduledNotificationFailed, InstanceExits, TimePasses
  <2>4. /\ Current(x, k) /\ job[x] \in {"executing", "sending"}
        /\ logs' = [logs EXCEPT ![k] = @ + 1] \/ UNCHANGED logs
        /\ sends' = [sends EXCEPT ![k] = @ + 1] \/ UNCHANGED sends
    BY <2>3 DEF executeScheduledNotification, AnswerLost, sendEmail, At, Current
  <2>5. n = k
    BY <2>1, <2>4
  <2>6. QED
    BY <2>4, <2>5 DEF JobInv, TakenFresh, Current
<1>2. QED
  BY <1>1, JobInvariance, PTL DEF Spec, DeletedGetNothing

(* The job is one more user of the lock: what was proved of the lock by    *)
(* itself holds while notifications are sent, accounts leave and instances *)
(* exit with a batch half done.                                            *)
THEOREM JobImplementsLock == Spec => LockSpec
<1>1. Init => LockInit
  BY DEF Init
<1>2. [Next]_vars => [LockNext]_lockVars
  BY JobStepIsLockStep DEF vars
<1>3. QED
  BY <1>1, <1>2, PTL DEF Spec, LockSpec

(* So two runs of the job work at the same time only for one of the four   *)
(* causes, and its lock changes hands as a lease does.                     *)
THEOREM JobOverlapsHaveCauses == Spec => []OverlapHasACause /\ ImplementsLease
BY JobImplementsLock, OverlapsHaveCauses, RefinesLease, PTL
=============================================================================
