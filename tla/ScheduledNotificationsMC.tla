---------------------- MODULE ScheduledNotificationsMC ----------------------
(* A small instance of ScheduledNotifications for TLC: two instances that  *)
(* run the schedule once at a time each.                                   *)
EXTENDS ScheduledNotifications, TLC

CONSTANTS i1, i2, x1, x2, MaxNotification

Rows == 1 .. MaxNotification
Runs == {x1, x2}
Instances == {i1, i2}
RunsOn == x1 :> i1 @@ x2 :> i2
=============================================================================
