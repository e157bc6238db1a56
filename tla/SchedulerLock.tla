---------------------------- MODULE SchedulerLock ----------------------------
(***************************************************************************)
(* The lock of one schedule, and the runs of the schedule in all the       *)
(* instances of the program.                                               *)
(*                                                                         *)
(* The lock is a row of scheduler_locks: who locked it and until when.  It *)
(* is read and then written in one transaction, which at PostgreSQL's      *)
(* default level does not keep two transactions from reading the same row. *)
(* Every instance runs the schedule when its clock says so, whether or not *)
(* its previous run has ended; the name in the lock is that of the         *)
(* instance, not of the run.                                               *)
(*                                                                         *)
(* A tick is a long time compared with a transaction, which is aborted     *)
(* after five seconds.  Left out: lastRunAt, which nothing here reads, and *)
(* cleanupStaleLocks, which nothing calls.                                 *)
(***************************************************************************)
EXTENDS Naturals

CONSTANTS
  Instance, NoInstance,   \* the processes; a restarted process is another one
  Run,                    \* executions of the schedule that may be in progress
  InstanceOf,             \* the instance of a run
  Ttl                     \* defaultLockTtlMs, in ticks

ASSUME NoInstanceAssumption == NoInstance \notin Instance
ASSUME InstanceOfAssumption == InstanceOf \in [Run -> Instance]
ASSUME TtlAssumption == Ttl \in Nat \ {0}

VARIABLES
  lockedBy,   \* the column, NoInstance before the row exists
  expires,    \* ticks until expiresAt, 0 when it has passed
  mode,       \* mode[i]: whether instance i is up, shutting down or gone
  phase,      \* phase[x]: where run x is
  found,      \* found[x]: whether x has found a row
  locked,     \* locked[x]: whether x works under the lock
  causes      \* history: why runs may overlap

instanceVars == <<mode, locked>>
lockVars == <<lockedBy, expires, mode, phase, found, locked, causes>>

Phase == {"idle", "taking", "running", "releasing"}
Cause == {"unlocked", "outlived", "same instance", "race"}

LockTypeOK ==
  /\ lockedBy \in Instance \cup {NoInstance}
  /\ expires \in 0 .. Ttl
  /\ mode \in [Instance -> {"up", "stopping", "gone"}]
  /\ phase \in [Run -> Phase]
  /\ found \in [Run -> BOOLEAN]
  /\ locked \in [Run -> BOOLEAN]
  /\ causes \subseteq Cause

LockInit ==
  /\ lockedBy = NoInstance
  /\ expires = 0
  /\ mode = [i \in Instance |-> "up"]
  /\ phase = [x \in Run |-> "idle"]
  /\ found = [x \in Run |-> FALSE]
  /\ locked = [x \in Run |-> FALSE]
  /\ causes = {}

Live == lockedBy # NoInstance /\ expires > 0

Enter(x, ph) == phase' = [phase EXCEPT ![x] = ph]

-----------------------------------------------------------------------------
(* MUTANT of acquireLock: expiresAt is not looked at.                      *)
acquireAnyLock(x) ==
  /\ phase[x] = "idle" /\ mode[InstanceOf[x]] = "up"
  /\ found' = [found EXCEPT ![x] = lockedBy # NoInstance]
  /\ Enter(x, "taking")
  /\ UNCHANGED <<lockedBy, expires, instanceVars, causes>>

(* MUTANT of acquireLock: the lock of another instance is never taken over. *)
acquireOwnLock(x) ==
  /\ phase[x] = "idle" /\ mode[InstanceOf[x]] = "up"
  /\ lockedBy \in {NoInstance, InstanceOf[x]}
  /\ found' = [found EXCEPT ![x] = lockedBy # NoInstance]
  /\ Enter(x, "taking")
  /\ UNCHANGED <<lockedBy, expires, instanceVars, causes>>

(* executeJob reads the lock; one that is live and not its own ends the    *)
(* run.                                                                    *)
acquireLock(x) ==
  /\ phase[x] = "idle" /\ mode[InstanceOf[x]] = "up"
  /\ Live => lockedBy = InstanceOf[x]
  /\ found' = [found EXCEPT ![x] = lockedBy # NoInstance]
  /\ Enter(x, "taking")
  /\ UNCHANGED <<lockedBy, expires, instanceVars, causes>>

(* The row it found is updated, whatever it says by now; a row it did not  *)
(* find is created, unless somebody else has.                              *)
WriteLock(x) ==
  /\ phase[x] = "taking"
  /\ IF ~ found[x] /\ lockedBy # NoInstance
       THEN /\ Enter(x, "idle")
            /\ UNCHANGED <<lockedBy, expires, locked, causes>>
       ELSE /\ lockedBy' = InstanceOf[x]
            /\ expires' = Ttl
            /\ locked' = [locked EXCEPT ![x] = TRUE]
            /\ causes' = causes \cup
                 {c \in {"same instance", "race"} :
                    Live /\ (c = "same instance" <=> lockedBy = InstanceOf[x])}
            /\ Enter(x, "running")
  /\ found' = [found EXCEPT ![x] = FALSE]
  /\ UNCHANGED mode

(* The transaction fails, times out or is rolled back.                     *)
AcquireFails(x) ==
  /\ phase[x] = "taking"
  /\ found' = [found EXCEPT ![x] = FALSE]
  /\ Enter(x, "idle")
  /\ UNCHANGED <<lockedBy, expires, mode, locked, causes>>

(* The scheduler's uptime mode and the command run-all take no lock.       *)
StartUnlocked(x) ==
  /\ phase[x] = "idle" /\ mode[InstanceOf[x]] = "up"
  /\ Enter(x, "running")
  /\ causes' = causes \cup {"unlocked"}
  /\ UNCHANGED <<lockedBy, expires, instanceVars, found>>

(* The last job has ended, or thrown.                                      *)
FinishJobs(x) ==
  /\ phase[x] = "running"
  /\ Enter(x, IF locked[x] THEN "releasing" ELSE "idle")
  /\ UNCHANGED <<lockedBy, expires, instanceVars, found, causes>>

(* MUTANT of releaseLock: the jobs are not awaited.                        *)
releaseAtOnce(x) ==
  /\ phase[x] \in {"running", "releasing"} /\ locked[x]
  /\ expires' = IF lockedBy = InstanceOf[x] THEN 0 ELSE expires
  /\ locked' = [locked EXCEPT ![x] = FALSE]
  /\ Enter(x, IF phase[x] = "releasing" THEN "idle" ELSE "running")
  /\ UNCHANGED <<lockedBy, mode, found, causes>>

(* The lock is given back if it is still, or again, that of the instance.  *)
releaseLock(x) ==
  /\ phase[x] = "releasing"
  /\ expires' = IF lockedBy = InstanceOf[x] THEN 0 ELSE expires
  /\ locked' = [locked EXCEPT ![x] = FALSE]
  /\ Enter(x, "idle")
  /\ UNCHANGED <<lockedBy, mode, found, causes>>

(* An error is logged; the lock stays until it expires.                    *)
ReleaseFails(x) ==
  /\ phase[x] = "releasing"
  /\ locked' = [locked EXCEPT ![x] = FALSE]
  /\ Enter(x, "idle")
  /\ UNCHANGED <<lockedBy, expires, mode, found, causes>>

-----------------------------------------------------------------------------
(* onApplicationShutdown starts no more runs; those in progress go on until *)
(* the process exits.  A crash does not wait for them either.              *)
onApplicationShutdown(i) ==
  /\ mode[i] = "up"
  /\ mode' = [mode EXCEPT ![i] = "stopping"]
  /\ UNCHANGED <<lockedBy, expires, phase, found, locked, causes>>

Exit(i) ==
  /\ mode[i] # "gone"
  /\ mode' = [mode EXCEPT ![i] = "gone"]
  /\ phase' = [x \in Run |-> IF InstanceOf[x] = i THEN "idle" ELSE phase[x]]
  /\ locked' = [x \in Run |-> locked[x] /\ InstanceOf[x] # i]
  /\ found' = [x \in Run |-> found[x] /\ InstanceOf[x] # i]
  /\ UNCHANGED <<lockedBy, expires, causes>>

(* Time passes; the lock may expire under a run that is still at work.     *)
Tick ==
  /\ expires > 0
  /\ \A x \in Run : phase[x] # "taking"
  /\ expires' = expires - 1
  /\ causes' = IF expires = 1 /\ \E x \in Run : locked[x]
                 THEN causes \cup {"outlived"} ELSE causes
  /\ UNCHANGED <<lockedBy, instanceVars, phase, found>>

RunStep(x) ==
  \/ acquireLock(x) \/ WriteLock(x) \/ AcquireFails(x) \/ StartUnlocked(x)
  \/ FinishJobs(x) \/ releaseLock(x) \/ ReleaseFails(x)

LockNext ==
  \/ \E x \in Run : RunStep(x)
  \/ \E i \in Instance : onApplicationShutdown(i) \/ Exit(i)
  \/ Tick

LockSpec == LockInit /\ [][LockNext]_lockVars

-----------------------------------------------------------------------------
(* The jobs of the schedule are run by one run at a time, except for the   *)
(* four reasons the code leaves open: a run without the lock, a run that   *)
(* outlived its lock, a second run of the instance that has the lock, and  *)
(* two transactions that read the same expired row.                        *)
OverlapHasACause ==
  causes = {} => \A x, y \in Run : {phase[x], phase[y]} = {"running"} => x = y

(* "Ensures only one instance executes a job at a time in multi-replica    *)
(* deployments."  Runs without the lock are not counted.                   *)
OneInstanceAtATime ==
  \A x, y \in Run :
    /\ {phase[x], phase[y]} = {"running"}
    /\ locked[x] /\ locked[y]
    => InstanceOf[x] = InstanceOf[y]

LeaseOwner == IF Live THEN lockedBy ELSE NoInstance
Contenders == {InstanceOf[x] : x \in {y \in Run : phase[y] = "taking"}}

TheLease == INSTANCE Lease WITH owner <- LeaseOwner, contenders <- Contenders

(* The lock changes hands only as a lease does: it is taken by one who saw *)
(* it free, or his own, and otherwise can only end.                        *)
ImplementsLease == TheLease!Spec
=============================================================================
