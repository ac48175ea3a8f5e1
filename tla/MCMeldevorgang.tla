---------------------------- MODULE MCMeldevorgang ----------------------------
(* Finite instances of Meldevorgang for TLC. *)
EXTENDS MeldevorgangInvariant, TLC

CONSTANTS r1, r2, r3

\* Nothing tells one request from another before they act; used for invariants only.
AnyRequest == Permutations(Anfragen)
=============================================================================
