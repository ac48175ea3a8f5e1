------------------------- MODULE N8nDeliveryInvariant -------------------------
(***************************************************************************)
(* The inductive invariants of N8nDelivery.  What holds however many       *)
(* administrators there are: the lock of the outbox row serialises the     *)
(* transactions, what one has read still adds up at its commit, and what a *)
(* decision rewrites is in nobody's hands, a retry's reset excepted.  What *)
(* holds while no retry resets a delivery that another has reset before:   *)
(* who sends holds the lease.                                              *)
(***************************************************************************)
EXTENDS N8nDelivery

JobTyp   == [state : {"none", "waiting", "active", "stalled", "done"},
             made : 0..(MaxAttempts - 1)]
RunTyp   == [pc : {"prepare", "send", "caught", "commit"}, d : Deliveries, k : Keys,
             caught : BOOLEAN]
ClickTyp == [pc : {"reset", "commit", "enqueue", "undo"}, d : Deliveries, k : Keys,
             after : {"enqueue"}]
TxTyp    == [rows : SUBSET Deliveries, to : {"none", "PENDING"} \cup Terminal,
             seen : {"none", "PENDING", "PARTIAL"} \cup Terminal,
             routes : SUBSET Deliveries]

TypeInv ==
  /\ TypeOK
  /\ tx \in [Actors -> TxTyp]
  /\ job \in [Deliveries -> [Keys -> JobTyp]]
  /\ run \in [Workers -> {Idle} \cup RunTyp]
  /\ admin \in [Admins -> {Idle, Committing} \cup ClickTyp]
  /\ clicks \in Nat

\* Actor a has a transaction open.
Commits(a) ==
  \/ a \in Workers /\ At(a, "commit")
  \/ a \in Admins /\ AdminAt(a, "commit")

\* One transaction at a time; the status it read is that of its commit.
LockInv ==
  \A a \in Actors :
    /\ lock = a <=> Commits(a)
    /\ lock # a => tx[a] = NoTx
    /\ lock = a => /\ tx[a].to # "none" /\ Planned
                   /\ tx[a].seen = AggregateStatus(Visible(tx[a].rows, tx[a].to))

\* A worker concludes the delivery it claimed, while it holds the lease.
OwnInv ==
  \A w \in Workers :
    lock = w => tx[w].rows = {run[w].d} /\ Holds(w, run[w].d)

\* Before the deliveries are planned there is nothing to do.
Untouched ==
  /\ \A d \in Deliveries : row[d] = Written("none")
  /\ \A d \in Deliveries, k \in Keys : job[d][k] = NoJob
  /\ \A w \in Workers : run[w] = Idle
  /\ \A a \in Admins : admin[a] = Idle

PlanInv == OutboxTold /\ (~Planned => Untouched)

DeliveryInv == TypeInv /\ LockInv /\ OwnInv /\ PlanInv

-----------------------------------------------------------------------------
\* What a decision other than a retry rewrites has failed, or waits, and stays so
\* until its commit: its rows are locked.
DecisionInv ==
  \A a \in Admins :
    lock = a /\ tx[a].to # "PENDING" =>
      \A d \in tx[a].rows : row[d].status \in {"FAILED", "PENDING"}

\* A claimed lease that ran out did so under its holder; who sends holds it.
LeaseInv ==
  \A w \in Workers :
    /\ ~At(w, "idle") /\ Holds(w, run[w].d) /\ row[run[w].d].expired => run[w].d \in overrun
    /\ At(w, "send") /\ run[w].d \notin overrun => Holds(w, run[w].d)

\* What an open transaction of an administrator rewrites has failed, or waits.
GraspInv ==
  \A a \in Admins :
    lock = a => \A d \in tx[a].rows : row[d].status \in {"FAILED", "PENDING"}

HoldInv == LeaseInv /\ GraspInv

\* The update of a retry, by the delivery's id alone, meets what its read saw:
\* not so where a second administrator is done with the same delivery meanwhile.
ResetsAreFresh ==
  \A a \in Admins : AdminAt(a, "reset") => row[admin[a].d].status = "FAILED"
===============================================================================
