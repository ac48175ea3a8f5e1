----------------------------- MODULE MCMailOutbox -----------------------------
(* Finite instances of MailOutbox for TLC.  Times are abstract units; the   *)
(* delays keep the order the code's values have (retry < in-flight timeout, *)
(* doubling retries).                                                       *)
EXTENDS MailOutboxRefinement, MailOutboxInvariant, TLC

CONSTANTS o1, o2, w1, w2, p1

(* retryDelayMs: 60 s, 120 s, ... *)
Doubling == [n \in 1 .. MaxAttempts |-> 2 ^ (n - 1)]
Symmetry == Permutations(Workers)
OrderSymmetry == Permutations(Orders)
OneProcess == [o \in Orders |-> p1]
==============================================================================
