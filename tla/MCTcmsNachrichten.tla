-------------------------- MODULE MCTcmsNachrichten --------------------------
(* Finite instances of TcmsNachrichten for TLC. *)
EXTENDS TcmsNachrichtenInvariant, TLC

CONSTANTS l1, l2

LaufSymmetry == Permutations(Laeufe)
=============================================================================
