--------------------------- MODULE SchedulerAlertsMC ---------------------------
(* SchedulerAlerts for TLC: the watchdog in two instances, and one other   *)
(* schedule.                                                               *)
EXTENDS SchedulerAlerts, TLC

CONSTANTS own, daily, i1, i2

TwoInstances == {i1, i2}
=============================================================================
