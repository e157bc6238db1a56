-------------------------- MODULE GdprSuspensionMC --------------------------
(* Small instances of GdprSuspension for TLC.                              *)
EXTENDS GdprSuspension, TLC

CONSTANTS MaxRequest, MaxSuspension

Ids == 1 .. MaxRequest
Records == 1 .. MaxSuspension
=============================================================================
