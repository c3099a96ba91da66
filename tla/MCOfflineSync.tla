--------------------------- MODULE MCOfflineSync ---------------------------
(* Small instances: rows are the times a place was read at.                *)
EXTENDS OfflineSync, TLC

CONSTANTS d1, d2, b1, b2

MCRows == [at : 0 .. MaxTime]
MCBlank == [at |-> 0]
Symmetry == Permutations(Devices) \cup Permutations(Books)
============================================================================
