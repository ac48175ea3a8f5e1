----------------------------- MODULE MCPortalInbox -----------------------------
(* Finite instances of PortalInbox for TLC. *)
EXTENDS PortalInboxInvariant, TLC

CONSTANTS a1, a2, u1, u2, s1, s2
=============================================================================
