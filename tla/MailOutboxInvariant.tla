-------------------------- MODULE MailOutboxInvariant --------------------------
(***************************************************************************)
(* The inductive invariant of MailOutbox: why at most one attempt of a     *)
(* round is ever in doubt, and why nobody writes over another's attempt.   *)
(***************************************************************************)
EXTENDS MailOutbox

(* A waiting order has an attempt left; a run holds a claim exactly while  *)
(* it delivers.                                                            *)
AttemptLeft ==
  \A o \in Orders : row[o].status \in Waiting => row[o].attempts < MaxAttempts
ClaimHeld ==
  \A w \in Workers : pc[w] \in {"preparing", "sending"} <=> claim[w] # NoClaim

TypeInv == TypeOK /\ AttemptLeft /\ ClaimHeld

(* What a run read lies in the past; a stranded attempt is old enough.     *)
ScanIsPast ==
  \A w \in Workers :
    /\ now[w] <= clock
    /\ \A s \in stranded[w] : s.lastAt + InFlightTimeout <= clock

(* A claim of the current round is the row's own, or was given up.         *)
CurrentClaim(w) ==
  LET c == claim[w]
      r == row[c.id]
  IN \/ ownClaim(w)
     \/ r.status = "UNKNOWN" /\ r.attempts = c.attemptNo /\ c.attemptAt < clock
     \/ r.status = "SKIPPED" /\ r.attempts = c.attemptNo
     \/ r.status = "PURGED"

(* A claim of an earlier round was given up before the staff confirmed the *)
(* next one, hence before any later attempt began.                         *)
FormerClaim(w) ==
  LET c == claim[w]
      r == row[c.id]
  IN /\ c.attemptAt < clock
     /\ r.status = "SENDING" => c.attemptAt < r.lastAt
     /\ <<c.id, c.cycle + 1>> \in confirmed

ClaimState ==
  \A w \in Workers :
    claim[w] # NoClaim =>
      /\ claim[w].cycle <= cycle[claim[w].id]
      /\ claim[w].cycle = cycle[claim[w].id] => CurrentClaim(w)
      /\ claim[w].cycle < cycle[claim[w].id] => FormerClaim(w)

OneClaimPerRound ==
  \A v, w \in Workers :
    /\ claim[v] # NoClaim /\ claim[v].id = claim[w].id
    /\ claim[v].cycle = claim[w].cycle
    => v = w

(* What was handed over in the round of a claim, this claim handed over.   *)
HandedByClaim ==
  \A w \in Workers, h \in handed :
    h[1] = claim[w].id /\ h[2] = claim[w].cycle => h[3] = claim[w].attemptNo

HandedState ==
  \A h \in handed :
    LET r == row[h[1]]
    IN /\ h[2] <= cycle[h[1]]
       /\ h[2] = cycle[h[1]] =>
            \/ /\ r.status \in {"SENDING", "UNKNOWN", "SKIPPED",
                                "PROVIDER_ACCEPTED", "PARTIAL_FAILURE"}
               /\ r.attempts = h[3]
            \/ r.status = "PURGED"
       /\ h[2] < cycle[h[1]] => <<h[1], h[2] + 1>> \in confirmed

(* A run knows of what it handed over, at least that it may have.          *)
TallyIsTrue ==
  \A w \in Workers :
    /\ pc[w] = "preparing" => Attempt(w) \notin handed
    /\ pc[w] = "sending" =>
         /\ tally[w].left <= tally[w].of
         /\ tally[w].ok > 0 => Attempt(w) \in handed
         /\ Attempt(w) \in handed =>
              tally[w].of > 0 /\ (tally[w].unsure \/ tally[w].ok > 0)

DeliveredWasHanded ==
  \A o \in Orders :
    row[o].status \in {"PROVIDER_ACCEPTED", "PARTIAL_FAILURE"} =>
      <<o, cycle[o], row[o].attempts>> \in handed

RoundInv ==
  /\ ClaimState /\ OneClaimPerRound
  /\ HandedByClaim /\ HandedState /\ NoAutomaticDuplicate
  /\ TallyIsTrue /\ DeliveredWasHanded

(* The whole: preserved by every step, and each safety property of         *)
(* delivery follows from it.                                               *)
DeliveryInv == TypeInv /\ ScanIsPast /\ RoundInv
-----------------------------------------------------------------------------
(* What the table may say of an order in round c of which n notices were   *)
(* written.  Beyond TableChecks and ToldOnce it says that an order under   *)
(* way bears no trace of an earlier escalation: persistTerminal clears the *)
(* mark or sets it, and only a resend leaves an escalated status again.    *)
RowSound(o, r, c, n) ==
  /\ (r.status \in Waiting) = (r.nextAt # NoTime)
  /\ r.status \in Waiting \cup {"SENDING"} => r.content
  /\ r.attempted # NoTime /\ r.accepted # NoTime => r.accepted <= r.attempted
  /\ r.content => r.status \in Waiting \cup {"SENDING"} \cup Resendable
  /\ r.content /\ o \in Tcms => r.status \in Waiting \cup {"SENDING"}
  /\ r.status \in Escalated => r.escalatedAt # NoTime
  /\ r.status \in Waiting \cup {"SENDING", "ABSENT"} => r.escalatedAt = NoTime
  /\ r.status # "PURGED" =>
       n = (c - 1) + (IF r.escalatedAt = NoTime THEN 0 ELSE 1)

(* A run never counts more recipients served than it has tried.            *)
TallyBounded == \A w \in Workers : tally[w].ok + tally[w].left <= tally[w].of

TableInv ==
  /\ \A o \in Orders : RowSound(o, row[o], cycle[o], notices[o])
  /\ TallyBounded
===============================================================================
