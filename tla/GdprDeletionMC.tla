--------------------------- MODULE GdprDeletionMC ---------------------------
(* Small instances of GdprDeletion for TLC.                                *)
EXTENDS GdprDeletion, TLC

CONSTANTS MaxRequest

Ids == 1 .. MaxRequest
=============================================================================
