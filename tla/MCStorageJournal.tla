--------------------------- MODULE MCStorageJournal ---------------------------
(* Finite instances of StorageJournal for TLC. *)
EXTENDS StorageJournal, TLC

CONSTANTS u1, u2, c1, c2

CleanerSymmetry == Permutations(Cleaners)
===============================================================================
