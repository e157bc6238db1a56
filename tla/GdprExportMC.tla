---------------------------- MODULE GdprExportMC ----------------------------
(* Small instances of GdprExport for TLC.                                  *)
EXTENDS GdprExport, TLC

CONSTANTS MaxRequest

Ids == 1 .. MaxRequest

Symmetry == Permutations(Worker)
=============================================================================
