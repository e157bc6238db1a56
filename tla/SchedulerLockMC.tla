-------------------------- MODULE SchedulerLockMC --------------------------
(* A small instance of SchedulerLock for TLC: one instance may run the     *)
(* schedule twice at the same time, two others once.                       *)
EXTENDS SchedulerLock, TLC

CONSTANTS i1, i2, i3, x1, x2, x3, x4

Instances == {i1, i2, i3}
Runs == {x1, x2, x3, x4}
RunsOn == x1 :> i1 @@ x2 :> i1 @@ x3 :> i2 @@ x4 :> i3
=============================================================================
