---------------------------- MODULE MCN8nDelivery -----------------------------
(* Finite instances of N8nDelivery for TLC. *)
EXTENDS N8nDeliveryInvariant

CONSTANTS d1, d2, w1, w2, a1
===============================================================================
