----------------------------- MODULE MailDelivery -----------------------------
(***************************************************************************)
(* What the mail outbox promises about a delivery order, without saying    *)
(* how: no rows, clocks, claims or runs.  An order is delivered in rounds; *)
(* the first begins when it is placed, each further one when the staff     *)
(* resubmit it.  In a round at most one attempt is ever made of which it   *)
(* is not certain that the provider took nothing.                          *)
(* MailOutbox implements this specification (MailOutboxRefinement).        *)
(***************************************************************************)
EXTENDS Naturals

CONSTANTS Orders, MaxRounds

VARIABLES
  phase,      \* where an order stands
  round,      \* its current round
  pending,    \* <<order, round>>: an attempt is under way, known or forgotten
  taken,      \* <<order, round>>: the provider took a mail
  confirmed   \* <<order, round>>: begun in spite of a possible duplicate

vars == <<phase, round, pending, taken, confirmed>>

Phase == {"none", "open", "trying", "delivered", "undelivered", "doubtful",
          "ended", "forgotten"}

current(o) == <<o, round[o]>>

Init ==
  /\ phase = [o \in Orders |-> "none"]
  /\ round = [o \in Orders |-> 1]
  /\ pending = {} /\ taken = {} /\ confirmed = {}

Place(o) ==
  /\ phase[o] = "none"
  /\ phase' = [phase EXCEPT ![o] = "open"]
  /\ UNCHANGED <<round, pending, taken, confirmed>>

(* Nobody wants it any more. *)
Drop(o) ==
  /\ phase[o] = "open"
  /\ phase' = [phase EXCEPT ![o] = "ended"]
  /\ UNCHANGED <<round, pending, taken, confirmed>>

Try(o) ==
  /\ phase[o] = "open" /\ current(o) \notin pending \cup taken
  /\ phase' = [phase EXCEPT ![o] = "trying"]
  /\ pending' = pending \cup {current(o)}
  /\ UNCHANGED <<round, taken, confirmed>>

(* The provider takes a mail, even if nobody waits for the answer.         *)
Take(p) ==
  /\ p \in pending
  /\ taken' = taken \cup {p}
  /\ UNCHANGED <<phase, round, pending, confirmed>>

(* The attempt is over and its result known: it is open again or counts as *)
(* undelivered only if surely nothing was taken.                           *)
Conclude(o, result) ==
  /\ phase[o] = "trying" /\ current(o) \in pending
  /\ result \in {"open", "undelivered", "ended"} => current(o) \notin taken
  /\ result = "delivered" => current(o) \in taken
  /\ phase' = [phase EXCEPT ![o] = result]
  /\ pending' = pending \ {current(o)}
  /\ UNCHANGED <<round, taken, confirmed>>

(* The attempt may still be going on, but nobody counts on it.             *)
GiveUp(o) ==
  /\ phase[o] = "trying"
  /\ phase' = [phase EXCEPT ![o] = "doubtful"]
  /\ UNCHANGED <<round, pending, taken, confirmed>>

(* An attempt is over and its result lost.                                 *)
Vanish(p) ==
  /\ p \in pending
  /\ pending' = pending \ {p}
  /\ UNCHANGED <<phase, round, taken, confirmed>>

(* Orders are resubmitted together; with a mail out, only knowingly.       *)
Resubmit(S, knowing) ==
  /\ \A o \in S : phase[o] \in {"undelivered", "doubtful"}
  /\ \A o \in S : current(o) \in pending \cup taken => knowing
  /\ \A o \in S : round[o] < MaxRounds
  /\ phase' = [o \in Orders |-> IF o \in S THEN "open" ELSE phase[o]]
  /\ round' = [o \in Orders |-> IF o \in S THEN round[o] + 1 ELSE round[o]]
  /\ confirmed' = IF knowing
                  THEN confirmed \cup {<<o, round[o] + 1>> : o \in S}
                  ELSE confirmed
  /\ UNCHANGED <<pending, taken>>

Retire(S) ==
  /\ \A o \in S : phase[o] \in {"undelivered", "doubtful"}
  /\ phase' = [o \in Orders |-> IF o \in S THEN "ended" ELSE phase[o]]
  /\ UNCHANGED <<round, pending, taken, confirmed>>

Forget(S) ==
  /\ \A o \in S : phase[o] \in {"delivered", "undelivered", "doubtful", "ended"}
  /\ phase' = [o \in Orders |-> IF o \in S THEN "forgotten" ELSE phase[o]]
  /\ UNCHANGED <<round, pending, taken, confirmed>>

Next ==
  \/ \E o \in Orders : Place(o) \/ Drop(o) \/ Try(o) \/ GiveUp(o)
  \/ \E o \in Orders :
       \E result \in {"open", "delivered", "undelivered", "doubtful", "ended"} :
         Conclude(o, result)
  \/ \E p \in pending : Take(p) \/ Vanish(p)
  \/ \E S \in SUBSET Orders :
       \/ \E knowing \in BOOLEAN : Resubmit(S, knowing)
       \/ Retire(S) \/ Forget(S)

Spec == Init /\ [][Next]_vars
===============================================================================
