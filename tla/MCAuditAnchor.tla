--------------------------- MODULE MCAuditAnchor ---------------------------
(* Finite instances of AuditAnchor for TLC. *)
EXTENDS AuditAnchorInvariant, TLC

CONSTANTS r1, r2
=============================================================================
