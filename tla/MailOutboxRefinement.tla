------------------------- MODULE MailOutboxRefinement -------------------------
(* The job of MailOutbox implements the promise of MailDelivery: the       *)
(* refinement mapping.                                                     *)
EXTENDS MailOutbox

phaseOf(status) ==
  CASE status = "ABSENT" -> "none"
    [] status \in Waiting -> "open"
    [] status = "SENDING" -> "trying"
    [] status \in {"PROVIDER_ACCEPTED", "PARTIAL_FAILURE"} -> "delivered"
    [] status = "FAILED" -> "undelivered"
    [] status = "UNKNOWN" -> "doubtful"
    [] status \in {"SKIPPED", "NO_RECIPIENT"} -> "ended"
    [] status = "PURGED" -> "forgotten"

phaseBar == [o \in Orders |-> phaseOf(row[o].status)]
pendingBar ==
  {<<claim[w].id, claim[w].cycle>> : w \in {v \in Workers : claim[v] # NoClaim}}
takenBar == {<<h[1], h[2]>> : h \in handed}

Delivery == INSTANCE MailDelivery WITH
  MaxRounds <- MaxCycles, phase <- phaseBar, round <- cycle,
  pending <- pendingBar, taken <- takenBar, confirmed <- confirmed

(* Every step of the outbox, with its rows, times and racing runs, is one  *)
(* MailDelivery allows, or none at all: at most one attempt per round is   *)
(* uncertain, and a status never claims more than is known.                *)
ImplementsDelivery == Delivery!Spec
===============================================================================
