------------------------ MODULE ExportMeetsDeletionMC ------------------------
(* ExportMeetsDeletion for TLC: one export, one worker, storage on S3.     *)
EXTENDS ExportMeetsDeletion, TLC

CONSTANTS w1

OneRequest == 1 .. 1
OneWorker == {w1}
=============================================================================
