---------------------------- MODULE GdprRequestsMC --------------------------
(* Small instances of GdprRequests for TLC.  Workers are alike, and so are *)
(* identities; Request is ordered and is not.                              *)
EXTENDS GdprRequests, TLC

CONSTANTS MaxRequest

Ids == 1 .. MaxRequest

Symmetry == Permutations(Worker) \cup Permutations(Identity)
=============================================================================
