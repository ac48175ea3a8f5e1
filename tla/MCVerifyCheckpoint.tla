------------------------- MODULE MCVerifyCheckpoint -------------------------
(* Finite instances of VerifyCheckpoint for TLC. *)
EXTENDS VerifyCheckpointInvariant, TLC

CONSTANTS v1, v2

RunSymmetry == Permutations(Runs)
=============================================================================
