--------------------------- MODULE N8nDeliveryProofs ---------------------------
(***************************************************************************)
(* Proof that DeliveryInv and DecisionInv are inductive for any number of  *)
(* administrators, and HoldInv while every reset of a retry meets a failed *)
(* row; and with them the safety properties of N8nDelivery, for any number *)
(* of deliveries, workers, attempts and faults.                            *)
(***************************************************************************)
EXTENDS N8nDeliveryInvariant, FiniteSetTheorems, TLAPS

RowTyp == [status : Active \cup Terminal \cup {"none"}, holder : Workers \cup {Nobody},
           expired : BOOLEAN]

(* The status of the event                                                  *)

LEMMA AggregateDepends ==
  ASSUME NEW s, NEW t,
         \A d \in Deliveries : s[d] = t[d] \/ {s[d], t[d]} \subseteq Active
  PROVE  AggregateStatus(s) = AggregateStatus(t)
  <1>1. CASE \E d \in Deliveries : s[d] \in Active
    <2>1. \E d \in Deliveries : t[d] \in Active
      <3>1. PICK d \in Deliveries : s[d] \in Active
        BY <1>1
      <3> QED
        BY <3>1
    <2>2. /\ \A x \in Terminal : ~ \A d \in Deliveries : s[d] = x
          /\ \A x \in Terminal : ~ \A d \in Deliveries : t[d] = x
      BY <1>1, <2>1 DEF Active, Terminal
    <2>3. AggregateStatus(s) = "PENDING" /\ AggregateStatus(t) = "PENDING"
      BY <1>1, <2>1, <2>2 DEF AggregateStatus, Terminal
    <2> QED
      BY <2>3
  <1>2. CASE ~ \E d \in Deliveries : s[d] \in Active
    <2>1. \A d \in Deliveries : s[d] = t[d]
      BY <1>2
    <2> QED
      BY <2>1 DEF AggregateStatus
  <1> QED
    BY <1>1, <1>2

LEMMA AggregateRange ==
  ASSUME NEW s
  PROVE  AggregateStatus(s) \in {"PENDING", "PARTIAL"} \cup Terminal
  BY DEF AggregateStatus, Terminal

(* Jobs, executions, administrators                                         *)

LEMMA JobFacts ==
  /\ NoJob \in JobTyp /\ New \in JobTyp
  /\ \A k : Ended(k) \in JobTyp /\ Ended(k).state # "active"
  BY NAssumption DEF NoJob, New, Ended, JobTyp

LEMMA KeyFacts == Initial \in Keys /\ Recovery \in Keys /\ \A n \in 0..MaxClicks : Retry(n) \in Keys
  BY NAssumption DEF Initial, Recovery, Retry, Keys

LEMMA RunFacts ==
  ASSUME TypeInv, NEW w \in Workers
  PROVE  /\ At(w, "idle") <=> run[w] = Idle
         /\ ~At(w, "idle") => run[w] \in RunTyp
         /\ run[w] \in RunTyp => run[w].d \in Deliveries /\ run[w].k \in Keys
  <1>1. run[w] = Idle \/ run[w] \in RunTyp
    BY DEF TypeInv
  <1>2. Idle.pc = "idle"
    BY DEF Idle
  <1> QED
    BY <1>1, <1>2 DEF At, RunTyp

LEMMA AdminFacts ==
  ASSUME TypeInv, NEW a \in Admins
  PROVE  /\ admin[a] \in {Idle, Committing} \cup ClickTyp
         /\ AdminAt(a, "idle") <=> admin[a] = Idle
         /\ admin[a].pc \in {"reset", "enqueue", "undo"} => admin[a] \in ClickTyp
         /\ admin[a] \in ClickTyp => admin[a].d \in Deliveries /\ admin[a].k \in Keys
  <1>1. admin[a] \in {Idle, Committing} \cup ClickTyp
    BY DEF TypeInv
  <1>2. Idle.pc = "idle" /\ Committing.pc = "commit" /\ Committing.after = "idle"
    BY DEF Idle, Committing
  <1> QED
    BY <1>1, <1>2 DEF AdminAt, ClickTyp

LEMMA JobWritten ==
  ASSUME TypeInv, NEW d \in Deliveries, NEW k \in Keys, NEW x \in JobTyp,
         job' = [job EXCEPT ![d][k] = x]
  PROVE  job' \in [Deliveries -> [Keys -> JobTyp]]
  BY DEF TypeInv

LEMMA Added ==
  ASSUME TypeInv, NEW d \in Deliveries, NEW k \in Keys
  PROVE  Add(job, d, k) \in [Deliveries -> [Keys -> JobTyp]]
  BY JobFacts DEF Add, TypeInv

(* The end of a job                                                         *)
LEMMA JobEnds ==
  ASSUME TypeInv, NEW w \in Workers, run[w] \in RunTyp,
         Completes(w) \/ Throws(w) \/ Leaves(w)
  PROVE  /\ job' \in [Deliveries -> [Keys -> JobTyp]]
         /\ run' = [run EXCEPT ![w] = Idle] /\ run'[w] = Idle
         /\ run' \in [Workers -> {Idle} \cup RunTyp]
  <1>1. Completes(w) \/ Throws(w)
    BY DEF Leaves
  <1>2. PICK d \in Deliveries, k \in Keys : d = run[w].d /\ k = run[w].k
    BY RunFacts
  <1>3. run' = [run EXCEPT ![w] = Idle]
    BY <1>1 DEF Completes, Throws
  <1>4. PICK x \in JobTyp : job' = [job EXCEPT ![d][k] = x]
    <2>1. CASE Completes(w)
      BY <1>2, <2>1, JobFacts DEF Completes
    <2>2. CASE Throws(w)
      <3> DEFINE n == job[d][k].made + 1
                 again == [state |-> "waiting", made |-> n]
      <3>1. job[d][k] \in JobTyp
        BY DEF TypeInv
      <3>2. LastAttempt(w) \/ n \in 0..(MaxAttempts - 1)
        BY <1>2, <3>1, NAssumption DEF LastAttempt, JobTyp
      <3>3. job' = [job EXCEPT ![d][k] = IF LastAttempt(w) THEN Ended(k) ELSE again]
        BY <1>2, <2>2 DEF Throws, TypeInv
      <3>4. LastAttempt(w) \/ again \in JobTyp
        <4> HIDE DEF n
        <4> QED
          BY <3>2 DEF JobTyp
      <3> QED
        BY <3>3, <3>4, JobFacts
    <2> QED
      BY <1>1, <2>1, <2>2
  <1>5. job' \in [Deliveries -> [Keys -> JobTyp]]
    BY <1>4, JobWritten
  <1> QED
    BY <1>3, <1>5 DEF TypeInv

-----------------------------------------------------------------------------
(* The kinds of steps                                                       *)

LEMMA RowFacts ==
  ASSUME TypeInv
  PROVE  /\ row \in [Deliveries -> RowTyp]
         /\ \A d \in Deliveries :
              /\ row[d] \in RowTyp
              /\ row[d].status = "PROCESSING" <=> row[d].holder # Nobody
  BY DEF TypeInv, TypeOK, RowTyp

LEMMA TxFacts ==
  ASSUME TypeInv, NEW a \in Actors
  PROVE  /\ tx[a] \in TxTyp /\ tx[a].rows \subseteq Deliveries
         /\ tx[a].routes \subseteq Deliveries
  BY DEF TypeInv, TxTyp

LEMMA NoTxTyp == NoTx \in TxTyp /\ NoTx.rows = {}
  BY DEF NoTx, TxTyp

LEMMA IdleFacts == Idle.pc = "idle" /\ Committing.pc = "commit" /\ Committing.after = "idle"
  BY DEF Idle, Committing

(* What keeps the types once the rows, the jobs and the actors do.          *)
LEMMA TypeKept ==
  ASSUME row' \in [Deliveries -> RowTyp],
         \A d \in Deliveries : row'[d].status = "PROCESSING" <=> row'[d].holder # Nobody,
         outbox' \in Active \cup Terminal \cup {"none", "UNROUTED", "PARTIAL"},
         lock' \in Actors \cup {Nobody}, tx' \in [Actors -> TxTyp],
         job' \in [Deliveries -> [Keys -> JobTyp]],
         run' \in [Workers -> {Idle} \cup RunTyp],
         admin' \in [Admins -> {Idle, Committing} \cup ClickTyp],
         route' \subseteq Deliveries, overrun' \subseteq Deliveries, clicks' \in Nat
  PROVE  TypeInv'
  <1>1. \A a \in Actors : /\ tx'[a].rows \subseteq Deliveries
                          /\ tx'[a].routes \subseteq Deliveries
    BY DEF TxTyp
  <1>2. \A d \in Deliveries, k \in Keys :
          /\ job'[d][k].made \in 0..(MaxAttempts - 1)
          /\ job'[d][k].state \in {"none", "waiting", "active", "stalled", "done"}
    <2> SUFFICES ASSUME NEW d \in Deliveries, NEW k \in Keys
                 PROVE  /\ job'[d][k].made \in 0..(MaxAttempts - 1)
                        /\ job'[d][k].state \in
                             {"none", "waiting", "active", "stalled", "done"}
      OBVIOUS
    <2>1. job'[d][k] \in JobTyp
      OBVIOUS
    <2> QED
      BY <2>1 DEF JobTyp
  <1> QED
    BY <1>1, <1>2 DEF TypeInv, TypeOK, RowTyp

(* Where anything is under way the deliveries are planned.                  *)
LEMMA UnderWay ==
  ASSUME TypeInv, PlanInv,
         \/ \E d \in Deliveries : row[d].status # "none"
         \/ \E d \in Deliveries, k \in Keys : job[d][k].state # "none"
         \/ \E w \in Workers : ~At(w, "idle")
         \/ \E a \in Admins : ~AdminAt(a, "idle")
  PROVE  Planned
  BY IdleFacts DEF PlanInv, Untouched, Written, NoJob, At, AdminAt

LEMMA StepKeepsStatus ==
  ASSUME DeliveryInv, Planned, UNCHANGED <<outbox, lock, tx>>,
         row' \in [Deliveries -> RowTyp],
         \A d \in Deliveries :
           /\ row'[d].status = row[d].status \/ {row'[d].status, row[d].status} \subseteq Active
           /\ row'[d].status = "PROCESSING" <=> row'[d].holder # Nobody
           /\ ~Unlocked(d) => row'[d].status = row[d].status /\ row'[d].holder = row[d].holder,
         job' \in [Deliveries -> [Keys -> JobTyp]],
         run' \in [Workers -> {Idle} \cup RunTyp],
         admin' \in [Admins -> {Idle, Committing} \cup ClickTyp],
         route' \subseteq Deliveries, overrun' \subseteq Deliveries, clicks' \in Nat,
         \A a \in Actors : Commits(a)' <=> Commits(a),
         \A w \in Workers : lock = w => run'[w].d = run[w].d
  PROVE  DeliveryInv'
  <1>1. TypeInv'
    BY TypeKept DEF DeliveryInv, TypeInv, TypeOK
  <1>2. "none" \notin Active
    BY DEF Active
  <1>3. Planned'
    BY <1>2 DEF Planned
  <1>4. OutboxTold'
    <2> DEFINE s == [d \in Deliveries |-> row[d].status]
               t == [d \in Deliveries |-> row'[d].status]
    <2>1. AggregateStatus(s) = AggregateStatus(t)
      <3>1. \A d \in Deliveries : s[d] = t[d] \/ {s[d], t[d]} \subseteq Active
        OBVIOUS
      <3> HIDE DEF s, t
      <3> QED
        BY <3>1, AggregateDepends
    <2>2. outbox = AggregateStatus(s)
      BY DEF DeliveryInv, PlanInv, OutboxTold
    <2> QED
      BY <2>1, <2>2 DEF OutboxTold
  <1>5. LockInv'
    <2> SUFFICES ASSUME NEW a \in Actors, lock = a
                 PROVE  tx[a].seen = AggregateStatus(Visible(tx[a].rows, tx[a].to))'
      BY <1>3 DEF DeliveryInv, LockInv
    <2> DEFINE s == Visible(tx[a].rows, tx[a].to)
               t == [d \in Deliveries |-> IF d \in tx[a].rows THEN tx[a].to ELSE row'[d].status]
    <2>1. tx[a].seen = AggregateStatus(s)
      BY DEF DeliveryInv, LockInv
    <2>2. AggregateStatus(s) = AggregateStatus(t)
      <3>1. \A d \in Deliveries : s[d] = t[d] \/ {s[d], t[d]} \subseteq Active
        BY DEF Visible
      <3> HIDE DEF s, t
      <3> QED
        BY <3>1, AggregateDepends
    <2> QED
      BY <2>1, <2>2 DEF Visible
  <1>6. OwnInv'
    <2> SUFFICES ASSUME NEW w \in Workers, lock = w
                 PROVE  /\ tx[w].rows = {run'[w].d}
                        /\ row'[run'[w].d].status = "PROCESSING"
                        /\ row'[run'[w].d].holder = w
      BY DEF OwnInv, Holds
    <2>1. tx[w].rows = {run[w].d} /\ Holds(w, run[w].d) /\ w \in Actors
      BY DEF DeliveryInv, OwnInv, Actors
    <2>2. run[w].d \in Deliveries /\ ~Unlocked(run[w].d)
      BY <2>1, TxFacts DEF DeliveryInv, Unlocked
    <2> QED
      BY <2>1, <2>2 DEF Holds
  <1> QED
    BY <1>1, <1>3, <1>4, <1>5, <1>6 DEF DeliveryInv, PlanInv

(* A transaction opens.                                                     *)
LEMMA Opened ==
  ASSUME DeliveryInv, NEW a \in Actors, NEW D \in SUBSET Deliveries,
         NEW to \in {"PENDING"} \cup Terminal, NEW R \in SUBSET Deliveries,
         Opens(a, D, to, R), Planned, UNCHANGED <<row, outbox, job, route, overrun>>,
         run' \in [Workers -> {Idle} \cup RunTyp],
         admin' \in [Admins -> {Idle, Committing} \cup ClickTyp], clicks' \in Nat,
         Commits(a)', \A b \in Actors \ {a} : Commits(b)' <=> Commits(b),
         a \in Workers => D = {run'[a].d} /\ Holds(a, run'[a].d)
  PROVE  DeliveryInv'
  <1> DEFINE s == AggregateStatus(Visible(D, to))
             t == [rows |-> D, to |-> to, routes |-> R, seen |-> s]
  <1>1. s \in {"PENDING", "PARTIAL"} \cup Terminal
    BY AggregateRange
  <1>2. lock = Nobody /\ lock' = a /\ tx' = [tx EXCEPT ![a] = t]
    BY DEF Opens, MayAggregate
  <1>3. t \in TxTyp /\ t.rows = D /\ t.to = to /\ t.seen = s
    <2> HIDE DEF s
    <2> QED
      BY <1>1 DEF TxTyp
  <1> HIDE DEF t
  <1>4. /\ tx' \in [Actors -> TxTyp] /\ tx'[a] = t
        /\ \A b \in Actors \ {a} : tx'[b] = tx[b]
    BY <1>2, <1>3 DEF DeliveryInv, TypeInv
  <1>5. TypeInv'
    BY <1>2, <1>4, TypeKept, RowFacts DEF DeliveryInv, TypeInv, TypeOK
  <1>6. Planned' /\ OutboxTold'
    BY DEF Planned, DeliveryInv, PlanInv, OutboxTold
  <1>7. LockInv'
    <2>1. \A b \in Actors \ {a} : ~Commits(b) /\ tx[b] = NoTx
      BY <1>2, ActorsAssumption DEF DeliveryInv, LockInv
    <2>2. to # "none"
      BY DEF Terminal
    <2>3. s = AggregateStatus(Visible(D, to))'
      BY DEF Visible
    <2>4. \A b \in Actors \ {a} : ~Commits(b)' /\ tx'[b] = NoTx /\ lock' # b
      BY <1>2, <1>4, <2>1
    <2>5. (tx[a].seen = AggregateStatus(Visible(tx[a].rows, tx[a].to)))'
      BY <1>3, <1>4, <2>3 DEF Visible
    <2> QED
      BY <1>2, <1>3, <1>4, <1>6, <2>2, <2>4, <2>5 DEF LockInv
  <1>8. OwnInv'
    BY <1>2, <1>3, <1>4 DEF OwnInv, Holds
  <1> QED
    BY <1>5, <1>6, <1>7, <1>8 DEF DeliveryInv, PlanInv

(* A transaction commits, or is given up.                                   *)
LEMMA WrittenFacts ==
  ASSUME NEW to \in {"none", "PENDING"} \cup Terminal
  PROVE  /\ Written(to) \in RowTyp /\ Written(to).status = to
         /\ Written(to).holder = Nobody /\ Written(to).status # "PROCESSING"
  BY DEF Written, RowTyp, Active, Terminal

LEMMA Concluded ==
  ASSUME DeliveryInv, NEW a \in Actors, Commits(a), Committed(a),
         job' \in [Deliveries -> [Keys -> JobTyp]],
         run' \in [Workers -> {Idle} \cup RunTyp],
         admin' \in [Admins -> {Idle, Committing} \cup ClickTyp],
         UNCHANGED <<overrun, clicks>>,
         ~Commits(a)', \A b \in Actors \ {a} : Commits(b)' <=> Commits(b)
  PROVE  DeliveryInv'
  <1>1. /\ lock = a /\ tx[a].to # "none" /\ Planned
        /\ tx[a].seen = AggregateStatus(Visible(tx[a].rows, tx[a].to))
    BY DEF DeliveryInv, LockInv
  <1>2. PICK to \in {"PENDING"} \cup Terminal : to = tx[a].to
    BY <1>1, TxFacts DEF DeliveryInv, TxTyp
  <1>3. /\ tx[a].seen \in {"PENDING", "PARTIAL"} \cup Terminal
        /\ tx[a].rows \subseteq Deliveries /\ tx[a].routes \subseteq Deliveries
    BY <1>1, AggregateRange, TxFacts DEF DeliveryInv
  <1>4. /\ row' \in [Deliveries -> RowTyp]
        /\ \A d \in Deliveries :
             /\ d \in tx[a].rows => row'[d].status = to
             /\ d \notin tx[a].rows => row'[d].status = row[d].status
             /\ row'[d].status = "PROCESSING" <=> row'[d].holder # Nobody
    <2>1. row' = [d \in Deliveries |-> IF d \in tx[a].rows THEN Written(to) ELSE row[d]]
      BY <1>2 DEF Committed
    <2> QED
      BY <1>2, <2>1, WrittenFacts, RowFacts DEF DeliveryInv
  <1>5. /\ outbox' = tx[a].seen /\ lock' = Nobody
        /\ tx' \in [Actors -> TxTyp] /\ tx'[a] = NoTx
        /\ \A b \in Actors \ {a} : tx'[b] = tx[b] /\ ~Commits(b) /\ tx[b] = NoTx
        /\ route' = route \ tx[a].routes
    <2>1. \A b \in Actors \ {a} : ~Commits(b) /\ tx[b] = NoTx
      BY <1>1 DEF DeliveryInv, LockInv
    <2> QED
      BY <1>1, <2>1, NoTxTyp DEF Committed, DeliveryInv, TypeInv
  <1>6. TypeInv'
    BY <1>3, <1>4, <1>5, TypeKept DEF DeliveryInv, TypeInv, TypeOK, Active
  <1>7. Planned'
    BY <1>1, <1>2, <1>4 DEF Planned, Terminal
  <1>8. OutboxTold'
    <2>1. Visible(tx[a].rows, to) = [d \in Deliveries |-> row'[d].status]
      BY <1>4 DEF Visible
    <2> QED
      BY <1>1, <1>2, <1>5, <2>1 DEF OutboxTold
  <1>9. LockInv' /\ OwnInv'
    BY <1>5, ActorsAssumption DEF LockInv, OwnInv, Actors
  <1> QED
    BY <1>6, <1>7, <1>8, <1>9 DEF DeliveryInv, PlanInv

LEMMA GivenUp ==
  ASSUME DeliveryInv, NEW a \in Actors, Aborted(a), Planned,
         UNCHANGED <<row, outbox, route, overrun, clicks>>,
         job' \in [Deliveries -> [Keys -> JobTyp]],
         run' \in [Workers -> {Idle} \cup RunTyp],
         admin' \in [Admins -> {Idle, Committing} \cup ClickTyp],
         ~Commits(a)', \A b \in Actors \ {a} : Commits(b)' <=> Commits(b),
         \A w \in Workers \ {a} : run'[w] = run[w]
  PROVE  DeliveryInv'
  <1>1. /\ lock' = (IF lock = a THEN Nobody ELSE lock)
        /\ tx' \in [Actors -> TxTyp] /\ tx'[a] = NoTx
        /\ \A b \in Actors \ {a} : tx'[b] = tx[b]
    BY NoTxTyp DEF Aborted, DeliveryInv, TypeInv
  <1>2. TypeInv'
    BY <1>1, RowFacts, TypeKept DEF DeliveryInv, TypeInv, TypeOK
  <1>3. Planned' /\ OutboxTold'
    BY DEF Planned, DeliveryInv, PlanInv, OutboxTold
  <1>4. LockInv'
    <2>1. a # Nobody
      BY ActorsAssumption
    <2>2. (lock = a <=> Commits(a))' /\ tx'[a] = NoTx
      BY <1>1, <2>1
    <2>3. ASSUME NEW b \in Actors \ {a}
          PROVE  /\ (lock = b <=> Commits(b))'
                 /\ lock' # b => tx'[b] = NoTx
                 /\ lock' = b => /\ tx'[b].to # "none"
                                 /\ tx'[b].seen = AggregateStatus(Visible(tx[b].rows, tx[b].to))
      <3>1. lock' = b <=> lock = b
        BY <1>1, <2>1, ActorsAssumption
      <3> QED
        BY <1>1, <3>1 DEF DeliveryInv, LockInv
    <2>4. ASSUME NEW b \in Actors \ {a}
          PROVE  Visible(tx[b].rows, tx[b].to) = Visible(tx[b].rows, tx[b].to)'
      BY <1>1 DEF Visible
    <2>5. lock' # a
      BY <1>1, <2>1
    <2> QED
      BY <1>3, <2>2, <2>3, <2>4, <2>5 DEF LockInv
  <1>5. OwnInv'
    <2> SUFFICES ASSUME NEW w \in Workers, lock' = w
                 PROVE  /\ tx'[w].rows = {run'[w].d}
                        /\ row'[run'[w].d].status = "PROCESSING"
                        /\ row'[run'[w].d].holder = w
      BY DEF OwnInv, Holds
    <2>1. w # a /\ lock = w /\ w \in Actors
      BY <1>1, ActorsAssumption DEF Actors
    <2> QED
      BY <1>1, <2>1 DEF DeliveryInv, OwnInv, Holds
  <1> QED
    BY <1>2, <1>3, <1>4, <1>5 DEF DeliveryInv, PlanInv

(* The deliveries are planned.                                              *)
LEMMA NotPlanned ==
  ASSUME DeliveryInv, outbox \in {"none", "UNROUTED"}
  PROVE  ~Planned /\ Untouched
  <1>1. ~Planned
    BY AggregateRange DEF DeliveryInv, PlanInv, OutboxTold, Terminal
  <1> QED
    BY <1>1 DEF DeliveryInv, PlanInv

LEMMA NobodyCommits ==
  ASSUME DeliveryInv, Untouched
  PROVE  /\ \A a \in Actors : ~Commits(a) /\ tx[a] = NoTx /\ lock # a
         /\ lock = Nobody
  <1>1. \A a \in Actors : ~Commits(a)
    BY IdleFacts DEF Untouched, Commits, At, AdminAt
  <1> QED
    BY <1>1 DEF DeliveryInv, LockInv, TypeInv, TypeOK

LEMMA SomePlanned ==
  ASSUME DeliveryInv, outbox \in {"none", "UNROUTED"}, PlanSome,
         UNCHANGED <<lock, tx, route, run, admin, overrun, clicks>>
  PROVE  DeliveryInv' /\ Planned'
  <1>1. PICK skipped \in SUBSET Deliveries, lost \in SUBSET Deliveries :
          PlanDeliveries(skipped, lost)
    BY DEF PlanSome
  <1>2. /\ row' = [d \in Deliveries |-> Written(IF d \in skipped THEN "SKIPPED" ELSE "PENDING")]
        /\ outbox' = IF skipped = Deliveries THEN "SKIPPED" ELSE "PENDING"
    BY <1>1 DEF PlanDeliveries
  <1>3. /\ row' \in [Deliveries -> RowTyp]
        /\ \A d \in Deliveries :
             /\ row'[d].status = IF d \in skipped THEN "SKIPPED" ELSE "PENDING"
             /\ row'[d].status = "PROCESSING" <=> row'[d].holder # Nobody
    BY <1>2, WrittenFacts DEF Terminal
  <1>4. job' \in [Deliveries -> [Keys -> JobTyp]]
    BY <1>1, JobFacts DEF PlanDeliveries
  <1>5. TypeInv'
    BY <1>2, <1>3, <1>4, TypeKept DEF DeliveryInv, TypeInv, TypeOK, Active, Terminal
  <1>6. Planned'
    BY <1>3 DEF Planned
  <1>7. OutboxTold'
    <2> DEFINE s == [d \in Deliveries |-> row'[d].status]
    <2>1. skipped = Deliveries => AggregateStatus(s) = "SKIPPED"
      <3> SUFFICES ASSUME skipped = Deliveries PROVE AggregateStatus(s) = "SKIPPED"
        OBVIOUS
      <3>1. \A d \in Deliveries : s[d] = "SKIPPED"
        BY <1>3
      <3> HIDE DEF s
      <3> QED
        BY <3>1, DeliveriesAssumption DEF AggregateStatus, Active
    <2>2. skipped # Deliveries => AggregateStatus(s) = "PENDING"
      <3> SUFFICES ASSUME skipped # Deliveries PROVE AggregateStatus(s) = "PENDING"
        OBVIOUS
      <3>1. PICK d \in Deliveries : s[d] = "PENDING"
        BY <1>3
      <3> HIDE DEF s
      <3> QED
        BY <3>1 DEF AggregateStatus, Active
    <2> QED
      BY <1>2, <2>1, <2>2 DEF OutboxTold
  <1>8. LockInv' /\ OwnInv'
    <2>1. \A a \in Actors : ~Commits(a)' /\ tx'[a] = NoTx /\ lock' # a
      BY NotPlanned, NobodyCommits DEF Commits, At, AdminAt
    <2> QED
      BY <2>1 DEF LockInv, OwnInv, Actors
  <1> QED
    BY <1>5, <1>6, <1>7, <1>8 DEF DeliveryInv, PlanInv

-----------------------------------------------------------------------------
(* Steps of the workers                                                     *)

(* Only worker w moves, and between states without an open transaction.     *)
LEMMA CommitsSame ==
  ASSUME NEW w \in Workers, UNCHANGED admin,
         \A v \in Workers \ {w} : run'[v] = run[v]
  PROVE  \A a \in Actors \ {w} : Commits(a)' <=> Commits(a)
  BY NAssumption DEF Commits, At, AdminAt, Actors

LEMMA CommitsSameAdmin ==
  ASSUME NEW b \in Admins, UNCHANGED run,
         \A c \in Admins \ {b} : admin'[c] = admin[c]
  PROVE  \A a \in Actors \ {b} : Commits(a)' <=> Commits(a)
  BY NAssumption DEF Commits, At, AdminAt, Actors

LEMMA CommitsWorker ==
  ASSUME NEW w \in Workers
  PROVE  Commits(w) <=> At(w, "commit")
  BY NAssumption DEF Commits

LEMMA CommitsAdmin ==
  ASSUME NEW a \in Admins
  PROVE  Commits(a) <=> AdminAt(a, "commit")
  BY NAssumption DEF Commits

(* The worker's next state                                                  *)
LEMMA RunWritten ==
  ASSUME TypeInv, NEW w \in Workers, NEW x \in {Idle} \cup RunTyp,
         run' = [run EXCEPT ![w] = x]
  PROVE  /\ run' \in [Workers -> {Idle} \cup RunTyp] /\ run'[w] = x
         /\ \A v \in Workers \ {w} : run'[v] = run[v]
  BY DEF TypeInv

LEMMA Going ==
  ASSUME TypeInv, NEW w \in Workers, run[w] \in RunTyp,
         NEW pc \in {"prepare", "send", "caught", "commit"}, NEW c \in BOOLEAN,
         \/ run' = [run EXCEPT ![w].pc = pc] /\ c = run[w].caught
         \/ run' = [run EXCEPT ![w] = [@ EXCEPT !.pc = pc, !.caught = c]]
  PROVE  /\ run' \in [Workers -> {Idle} \cup RunTyp] /\ run'[w] \in RunTyp
         /\ run'[w].pc = pc /\ run'[w].d = run[w].d
         /\ \A v \in Workers \ {w} : run'[v] = run[v]
  <1> DEFINE x == [run[w] EXCEPT !.pc = pc, !.caught = c]
  <1>1. x \in RunTyp /\ x.pc = pc /\ x.d = run[w].d
    BY DEF RunTyp
  <1>2. run' = [run EXCEPT ![w] = x]
    BY ZenonT(40) DEF RunTyp, TypeInv
  <1> HIDE DEF x
  <1> QED
    BY <1>1, <1>2, RunWritten

(* Steps that change jobs, executions or requests, and no row.              *)
LEMMA Quiet ==
  ASSUME DeliveryInv, Planned, UNCHANGED <<row, outbox, lock, tx>>,
         job' \in [Deliveries -> [Keys -> JobTyp]],
         run' \in [Workers -> {Idle} \cup RunTyp],
         admin' \in [Admins -> {Idle, Committing} \cup ClickTyp],
         route' \subseteq Deliveries, overrun' \subseteq Deliveries, clicks' \in Nat,
         \A a \in Actors : Commits(a)' <=> Commits(a),
         \A w \in Workers : lock = w => run'[w].d = run[w].d
  PROVE  DeliveryInv'
  BY StepKeepsStatus, RowFacts DEF DeliveryInv

(* The end of an execution without an open transaction.                     *)
LEMMA LeavesQuietly ==
  ASSUME DeliveryInv, NEW w \in Workers, run[w] \in RunTyp, ~At(w, "commit"),
         Completes(w) \/ Throws(w) \/ Leaves(w),
         UNCHANGED <<outbox, lock, tx, route, admin, overrun, clicks>>,
         row' \in [Deliveries -> RowTyp],
         \A d \in Deliveries :
           /\ row'[d].status = row[d].status \/ {row'[d].status, row[d].status} \subseteq Active
           /\ row'[d].status = "PROCESSING" <=> row'[d].holder # Nobody
           /\ ~Unlocked(d) => row'[d].status = row[d].status /\ row'[d].holder = row[d].holder
  PROVE  DeliveryInv'
  <1>1. TypeInv /\ PlanInv
    BY DEF DeliveryInv
  <1>2. /\ job' \in [Deliveries -> [Keys -> JobTyp]]
        /\ run' = [run EXCEPT ![w] = Idle] /\ run'[w] = Idle
        /\ run' \in [Workers -> {Idle} \cup RunTyp]
        /\ \A v \in Workers \ {w} : run'[v] = run[v]
    BY <1>1, JobEnds, RunWritten
  <1>3. Planned
    BY <1>1, UnderWay, IdleFacts DEF At, RunTyp
  <1>4. \A a \in Actors : Commits(a)' <=> Commits(a)
    <2>1. ~Commits(w) /\ ~Commits(w)'
      BY <1>2, CommitsWorker, IdleFacts, NAssumption DEF Commits, At
    <2> QED
      BY <1>2, <2>1, CommitsSame
  <1>5. \A v \in Workers : lock = v => run'[v].d = run[v].d
    <2>1. lock # w
      BY CommitsWorker DEF DeliveryInv, LockInv, Actors
    <2> QED
      BY <1>2, <2>1
  <1> QED
    BY <1>1, <1>2, <1>3, <1>4, <1>5, StepKeepsStatus DEF TypeInv, TypeOK

LEMMA Concludes ==
  ASSUME DeliveryInv, NEW w \in Workers, run[w] \in RunTyp, ~At(w, "commit"),
         NEW to \in Terminal, Conclude(w, to)
  PROVE  DeliveryInv'
  <1>1. TypeInv /\ PlanInv
    BY DEF DeliveryInv
  <1>2. Planned /\ run[w].d \in Deliveries /\ w \in Actors
    BY <1>1, UnderWay, IdleFacts, RunFacts DEF At, RunTyp, Actors
  <1>3. CASE ~Holds(w, run[w].d)
    BY <1>1, <1>3, LeavesQuietly, RowFacts DEF Conclude
  <1>4. CASE Holds(w, run[w].d)
    <2>1. PICK d \in Deliveries : d = run[w].d
      BY <1>2
    <2>2. /\ Opens(w, {d}, to, {}) /\ run' = [run EXCEPT ![w].pc = "commit"]
          /\ UNCHANGED <<row, outbox, job, route, admin, overrun, clicks>>
      BY <1>4, <2>1 DEF Conclude, Goto
    <2>3. /\ run' \in [Workers -> {Idle} \cup RunTyp]
          /\ run'[w].pc = "commit" /\ run'[w].d = d
          /\ \A v \in Workers \ {w} : run'[v] = run[v]
      <3>1. run[w].caught \in BOOLEAN
        BY DEF RunTyp
      <3> QED
        BY <1>1, <2>1, <2>2, <3>1, Going
    <2>4. Commits(w)' /\ \A a \in Actors \ {w} : Commits(a)' <=> Commits(a)
      BY <2>2, <2>3, CommitsSame DEF Commits, At
    <2> QED
      BY <1>1, <1>2, <1>4, <2>1, <2>2, <2>3, <2>4, Opened DEF TypeInv
  <1> QED
    BY <1>3, <1>4

LEMMA RowRewritten ==
  ASSUME TypeInv, NEW d \in Deliveries, NEW z \in RowTyp,
         z.status = "PROCESSING" <=> z.holder # Nobody,
         z.status = row[d].status \/ {z.status, row[d].status} \subseteq Active,
         Unlocked(d) \/ (z.status = row[d].status /\ z.holder = row[d].holder),
         row' = [row EXCEPT ![d] = z]
  PROVE  /\ row' \in [Deliveries -> RowTyp] /\ row'[d] = z
         /\ \A e \in Deliveries \ {d} : row'[e] = row[e]
         /\ \A e \in Deliveries :
              /\ row'[e].status = row[e].status
                 \/ {row'[e].status, row[e].status} \subseteq Active
              /\ row'[e].status = "PROCESSING" <=> row'[e].holder # Nobody
              /\ ~Unlocked(e) => row'[e].status = row[e].status /\ row'[e].holder = row[e].holder
  BY RowFacts

LEMMA TakeStep ==
  ASSUME DeliveryInv, NEW w \in Workers, NEW d \in Deliveries, NEW k \in Keys, Take(w, d, k)
  PROVE  DeliveryInv'
  <1>1. TypeInv /\ PlanInv /\ run[w] = Idle /\ job[d][k] \in JobTyp
    BY RunFacts DEF DeliveryInv, Take, TypeInv
  <1>2. Planned
    BY <1>1, UnderWay DEF Take
  <1>3. ~Commits(w) /\ lock # w
    BY <1>1, CommitsWorker, IdleFacts DEF At, DeliveryInv, LockInv, Actors
  <1>4. CASE Claimable(d)
    <2> DEFINE z == [status |-> "PROCESSING", holder |-> w, expired |-> FALSE]
               x == [pc |-> "prepare", d |-> d, k |-> k, caught |-> FALSE]
               j == [job[d][k] EXCEPT !.state = "active"]
    <2>1. /\ z \in RowTyp /\ z.status = "PROCESSING" /\ z.holder = w
          /\ x \in RunTyp /\ x.pc = "prepare" /\ j \in JobTyp
      BY <1>1 DEF RowTyp, Active, RunTyp, JobTyp
    <2>2. /\ row' = [row EXCEPT ![d] = z] /\ run' = [run EXCEPT ![w] = x]
          /\ job' = [job EXCEPT ![d][k] = j] /\ row[d].status \in Active
      BY <1>1, <1>4 DEF Take, Claimable, Active, TypeInv, JobTyp
    <2>3. w # Nobody
      BY ActorsAssumption DEF Actors
    <2> HIDE DEF z, x, j
    <2>4. /\ Unlocked(d) /\ {z.status, row[d].status} \subseteq Active
          /\ z.status = "PROCESSING" <=> z.holder # Nobody
      BY <2>1, <2>2, <2>3 DEF Active, Take
    <2>5. /\ row' \in [Deliveries -> RowTyp]
          /\ \A e \in Deliveries :
              /\ row'[e].status = row[e].status
                 \/ {row'[e].status, row[e].status} \subseteq Active
              /\ row'[e].status = "PROCESSING" <=> row'[e].holder # Nobody
              /\ ~Unlocked(e) => row'[e].status = row[e].status /\ row'[e].holder = row[e].holder
      BY <1>1, <2>1, <2>2, <2>4, RowRewritten
    <2>6. /\ run' \in [Workers -> {Idle} \cup RunTyp] /\ run'[w] = x
          /\ \A v \in Workers \ {w} : run'[v] = run[v]
          /\ job' \in [Deliveries -> [Keys -> JobTyp]]
      BY <1>1, <2>1, <2>2, RunWritten, JobWritten
    <2>7. \A a \in Actors : Commits(a)' <=> Commits(a)
      <3>1. ~Commits(w)'
        BY <2>1, <2>6, NAssumption DEF Commits, At
      <3> QED
        BY <1>3, <2>6, <3>1, CommitsSame DEF Take
    <2> QED
      BY <1>2, <1>3, <2>5, <2>6, <2>7, StepKeepsStatus DEF Take, DeliveryInv, TypeInv, TypeOK
  <1>5. CASE ~Claimable(d)
    <2>1. /\ job' \in [Deliveries -> [Keys -> JobTyp]]
          /\ UNCHANGED <<row, outbox, lock, tx, route, run, admin, overrun, clicks>>
      BY <1>1, <1>5, JobFacts, JobWritten DEF Take
    <2> QED
      BY <1>2, <2>1, Quiet DEF DeliveryInv, TypeInv, TypeOK, Commits, At, AdminAt
  <1> QED
    BY <1>4, <1>5

(* Steps that change jobs alone.                                            *)
LEMMA JobStep ==
  ASSUME DeliveryInv, NEW d \in Deliveries, NEW k \in Keys,
         DiesEarly(d, k) \/ Stalled(d, k) \/ Forget(d) \/ Reconcile(d)
  PROVE  DeliveryInv'
  <1>1. TypeInv /\ PlanInv /\ job[d][k] \in JobTyp /\ job[d][Initial] \in JobTyp
    BY KeyFacts DEF DeliveryInv, TypeInv
  <1>2. UNCHANGED <<row, outbox, lock, tx, route, run, admin, overrun, clicks>>
    BY DEF DiesEarly, Stalled, Forget, Reconcile
  <1>3. Planned
    BY <1>1, UnderWay DEF DiesEarly, Stalled, Forget, Reconcile, Claimable
  <1>4. job' \in [Deliveries -> [Keys -> JobTyp]]
    <2> DEFINE s == [job[d][k] EXCEPT !.state = "stalled"]
               t == [job[d][k] EXCEPT !.state = "waiting"]
    <2>1. s \in JobTyp /\ t \in JobTyp
      BY <1>1 DEF JobTyp
    <2>2. DiesEarly(d, k) => job' = [job EXCEPT ![d][k] = s]
      BY DEF DiesEarly, TypeInv, JobTyp
    <2>3. Stalled(d, k) => \/ job' = [job EXCEPT ![d][k] = t]
                           \/ job' = [job EXCEPT ![d][k] = Ended(k)]
      BY DEF Stalled
    <2> HIDE DEF s, t
    <2>4. RecoveryKey(d) \in Keys
      BY KeyFacts DEF RecoveryKey
    <2>5. Reconcile(d) => job' = Add(job, d, RecoveryKey(d))
      BY DEF Reconcile
    <2>6. Reconcile(d) => job' \in [Deliveries -> [Keys -> JobTyp]]
      <3>1. PICK q \in Keys : q = RecoveryKey(d)
        BY <2>4
      <3> QED
        BY <1>1, <2>5, <3>1, Added
    <2>7. Forget(d) => job' = [job EXCEPT ![d][Initial] = NoJob]
      BY DEF Forget
    <2> QED
      BY <1>1, <2>1, <2>2, <2>3, <2>6, <2>7, JobFacts, KeyFacts, JobWritten
  <1> QED
    BY <1>1, <1>2, <1>3, <1>4, Quiet DEF TypeInv, TypeOK, Commits, At, AdminAt

LEMMA LeaseStep ==
  ASSUME DeliveryInv, NEW d \in Deliveries, LeaseEnds(d) \/ LeaseOverrun(d)
  PROVE  DeliveryInv'
  <1>1. TypeInv /\ PlanInv
    BY DEF DeliveryInv
  <1>2. /\ UNCHANGED <<outbox, lock, tx, job, route, run, admin, clicks>>
        /\ overrun' \subseteq Deliveries /\ row[d].status = "PROCESSING"
    BY <1>1 DEF LeaseEnds, LeaseOverrun, TypeInv, TypeOK
  <1>3. Planned
    BY <1>1, <1>2, UnderWay
  <1> DEFINE z == [row[d] EXCEPT !.expired = TRUE]
  <1>4. /\ z \in RowTyp /\ z.status = row[d].status /\ z.holder = row[d].holder
        /\ row[d].status = "PROCESSING" <=> row[d].holder # Nobody
    BY <1>1, RowFacts DEF RowTyp
  <1>5. row' = [row EXCEPT ![d] = z]
    BY <1>1, RowFacts DEF LeaseEnds, LeaseOverrun, RowTyp
  <1> HIDE DEF z
  <1>6. PICK y \in RowTyp : y = z
    BY <1>4
  <1>7. /\ row' \in [Deliveries -> RowTyp]
        /\ \A e \in Deliveries :
              /\ row'[e].status = row[e].status
                 \/ {row'[e].status, row[e].status} \subseteq Active
              /\ row'[e].status = "PROCESSING" <=> row'[e].holder # Nobody
              /\ ~Unlocked(e) => row'[e].status = row[e].status /\ row'[e].holder = row[e].holder
    BY <1>1, <1>4, <1>5, <1>6, RowRewritten
  <1> QED
    BY <1>1, <1>2, <1>3, <1>7, StepKeepsStatus DEF TypeInv, TypeOK, Commits, At, AdminAt

LEMMA WorkerStep ==
  ASSUME DeliveryInv, NEW w \in Workers,
         \/ Prepare(w) \/ Skip(w) \/ Answer(w) \/ NoAnswer(w) \/ Release(w) \/ GiveUp(w)
         \/ Commit(w) \/ StatementFails(w) \/ Crash(w)
  PROVE  DeliveryInv'
  <1>1. /\ TypeInv /\ PlanInv /\ run[w] \in RunTyp /\ run[w].d \in Deliveries
        /\ run[w].k \in Keys /\ run[w].caught \in BOOLEAN /\ w \in Actors /\ Planned
    <2>1. TypeInv /\ PlanInv /\ ~At(w, "idle")
      BY DEF DeliveryInv, Prepare, Skip, Answer, NoAnswer, Release, GiveUp, Commit,
             StatementFails, Crash, At
    <2> QED
      BY <2>1, RunFacts, UnderWay DEF RunTyp, Actors
  <1>2. CASE Prepare(w) \/ NoAnswer(w)
    <2>1. PICK pc \in {"send", "caught"}, c \in BOOLEAN :
            /\ ~At(w, "commit")
            /\ \/ run' = [run EXCEPT ![w].pc = pc] /\ c = run[w].caught
               \/ run' = [run EXCEPT ![w] = [@ EXCEPT !.pc = pc, !.caught = c]]
      BY <1>1, <1>2 DEF Prepare, NoAnswer, Goto, Caught, At
    <2>2. /\ run' \in [Workers -> {Idle} \cup RunTyp]
          /\ run'[w].pc = pc /\ run'[w].d = run[w].d
          /\ \A v \in Workers \ {w} : run'[v] = run[v]
      BY <1>1, <2>1, Going
    <2>3. UNCHANGED <<row, outbox, lock, tx, job, route, admin, overrun, clicks>>
      BY <1>2 DEF Prepare, NoAnswer
    <2>4. \A a \in Actors : Commits(a)' <=> Commits(a)
      BY <2>1, <2>2, <2>3, CommitsSame, NAssumption DEF Commits, At
    <2> QED
      BY <1>1, <2>2, <2>3, <2>4, Quiet DEF TypeInv, TypeOK
  <1>3. CASE Skip(w) \/ Answer(w) \/ GiveUp(w)
    <2>1. PICK to \in Terminal : Conclude(w, to) /\ ~At(w, "commit")
      BY <1>3 DEF Skip, Answer, GiveUp, Terminal, At
    <2> QED
      BY <1>1, <2>1, Concludes
  <1>4. CASE Release(w)
    <2>1. PICK d \in Deliveries : d = run[w].d
      BY <1>1
    <2>2. /\ Throws(w) /\ ~At(w, "commit") /\ Unlocked(d)
          /\ UNCHANGED <<outbox, lock, tx, route, admin, overrun, clicks>>
          /\ row' = row \/ (Holds(w, d) /\ row' = [row EXCEPT ![d] = Written("PENDING")])
      BY <1>4, <2>1 DEF Release, At
    <2>3. /\ row' \in [Deliveries -> RowTyp]
          /\ \A e \in Deliveries :
              /\ row'[e].status = row[e].status
                 \/ {row'[e].status, row[e].status} \subseteq Active
              /\ row'[e].status = "PROCESSING" <=> row'[e].holder # Nobody
              /\ ~Unlocked(e) => row'[e].status = row[e].status /\ row'[e].holder = row[e].holder
      <3>1. CASE row' = row
        BY <1>1, <3>1, RowFacts
      <3>2. CASE Holds(w, d) /\ row' = [row EXCEPT ![d] = Written("PENDING")]
        <4>1. PICK z \in RowTyp : /\ z = Written("PENDING") /\ z.status = "PENDING"
                                  /\ z.holder = Nobody
          BY WrittenFacts
        <4>2. /\ {z.status, row[d].status} \subseteq Active
              /\ z.status = "PROCESSING" <=> z.holder # Nobody
          BY <3>2, <4>1 DEF Holds, Active
        <4> QED
          BY <1>1, <2>2, <3>2, <4>1, <4>2, RowRewritten
      <3> QED
        BY <2>2, <3>1, <3>2
    <2> QED
      BY <1>1, <2>2, <2>3, LeavesQuietly
  <1>5. CASE Commit(w)
    <2>1. /\ job' \in [Deliveries -> [Keys -> JobTyp]]
          /\ run' \in [Workers -> {Idle} \cup RunTyp] /\ run'[w] = Idle
          /\ \A v \in Workers \ {w} : run'[v] = run[v]
          /\ UNCHANGED <<admin, overrun, clicks>> /\ Committed(w)
      BY <1>1, <1>5, JobEnds, RunWritten DEF Commit
    <2>2. /\ Commits(w) /\ ~Commits(w)'
          /\ \A a \in Actors \ {w} : Commits(a)' <=> Commits(a)
      BY <1>5, <2>1, IdleFacts, NAssumption, CommitsSame DEF Commit, Commits, At
    <2> QED
      BY <1>1, <2>1, <2>2, Concluded DEF TypeInv
  <1>6. CASE StatementFails(w) \/ Crash(w)
    <2>1. /\ Aborted(w) /\ UNCHANGED <<row, outbox, route, admin, overrun, clicks>>
      BY <1>6 DEF StatementFails, Crash
    <2>2. /\ job' \in [Deliveries -> [Keys -> JobTyp]]
          /\ run' \in [Workers -> {Idle} \cup RunTyp]
          /\ run'[w].pc # "commit"
          /\ \A v \in Workers \ {w} : run'[v] = run[v]
      <3>1. CASE StatementFails(w) /\ run[w].caught
        BY <1>1, <3>1, JobEnds, RunWritten, IdleFacts DEF StatementFails
      <3>2. CASE StatementFails(w) /\ ~run[w].caught
        <4>1. run' = [run EXCEPT ![w] = [@ EXCEPT !.pc = "caught", !.caught = TRUE]]
              /\ UNCHANGED job
          BY <3>2 DEF StatementFails, Caught
        <4> QED
          BY <1>1, <4>1, Going DEF TypeInv
      <3>3. CASE Crash(w)
        <4>1. PICK d \in Deliveries, k \in Keys : d = run[w].d /\ k = run[w].k
          BY <1>1
        <4> DEFINE s == [job[d][k] EXCEPT !.state = "stalled"]
        <4>2. job[d][k] \in JobTyp
          BY <1>1 DEF TypeInv
        <4>3. s \in JobTyp /\ job' = [job EXCEPT ![d][k] = s]
          BY <1>1, <3>3, <4>1, <4>2 DEF Crash, JobTyp, TypeInv
        <4> HIDE DEF s
        <4>4. job' \in [Deliveries -> [Keys -> JobTyp]]
          <5>1. PICK y \in JobTyp : y = s
            BY <4>3
          <5> QED
            BY <1>1, <4>3, <5>1, JobWritten
        <4> QED
          BY <1>1, <3>3, <4>4, RunWritten, IdleFacts DEF Crash
      <3> QED
        BY <1>6, <3>1, <3>2, <3>3
    <2>3. ~Commits(w)' /\ \A a \in Actors \ {w} : Commits(a)' <=> Commits(a)
      BY <2>1, <2>2, NAssumption, CommitsSame DEF Commits, At
    <2> QED
      BY <1>1, <2>1, <2>2, <2>3, GivenUp DEF TypeInv
  <1> QED
    BY <1>2, <1>3, <1>4, <1>5, <1>6

-----------------------------------------------------------------------------
(* Steps of the administrators                                              *)

(* The administrator's next state                                           *)
LEMMA AdminWritten ==
  ASSUME TypeInv, NEW a \in Admins, NEW x \in {Idle, Committing} \cup ClickTyp,
         admin' = [admin EXCEPT ![a] = x]
  PROVE  /\ admin' \in [Admins -> {Idle, Committing} \cup ClickTyp] /\ admin'[a] = x
         /\ \A b \in Admins \ {a} : admin'[b] = admin[b]
  BY DEF TypeInv

LEMMA AdminGoing ==
  ASSUME TypeInv, NEW a \in Admins, admin[a] \in ClickTyp,
         NEW pc \in {"reset", "commit", "enqueue", "undo"}, AdminGoto(a, pc)
  PROVE  /\ admin' \in [Admins -> {Idle, Committing} \cup ClickTyp]
         /\ admin'[a].pc = pc /\ admin'[a].d = admin[a].d
         /\ \A b \in Admins \ {a} : admin'[b] = admin[b]
  <1> DEFINE x == [admin[a] EXCEPT !.pc = pc]
  <1>1. x \in ClickTyp /\ x.pc = pc /\ x.d = admin[a].d
    BY DEF ClickTyp
  <1>2. admin' = [admin EXCEPT ![a] = x]
    BY DEF AdminGoto, TypeInv
  <1> HIDE DEF x
  <1> QED
    BY <1>1, <1>2, AdminWritten

LEMMA AdminCommits ==
  ASSUME TypeInv, NEW a \in Admins, AdminCommit(a)
  PROVE  /\ admin' \in [Admins -> {Idle, Committing} \cup ClickTyp]
         /\ admin'[a].pc \notin {"commit", "reset"}
         /\ \A b \in Admins \ {a} : admin'[b] = admin[b]
  <1>1. CASE admin[a].after = "idle"
    BY <1>1, AdminWritten, IdleFacts DEF AdminCommit
  <1>2. CASE admin[a].after # "idle"
    <2>1. admin[a] \in ClickTyp /\ admin[a].after = "enqueue"
      <3>1. admin[a] \in {Idle, Committing} \cup ClickTyp /\ admin[a] # Idle
        BY AdminFacts, IdleFacts DEF AdminCommit, AdminAt
      <3> QED
        BY <1>2, <3>1, IdleFacts DEF ClickTyp
    <2>2. AdminGoto(a, "enqueue")
      BY <1>2, <2>1 DEF AdminCommit, AdminGoto, TypeInv
    <2> QED
      BY <2>1, <2>2, AdminGoing
  <1> QED
    BY <1>1, <1>2

(* A step of an administrator that opens no transaction and changes no row. *)
LEMMA AdminQuiet ==
  ASSUME DeliveryInv, Planned, NEW a \in Admins, ~AdminAt(a, "commit"),
         UNCHANGED <<row, outbox, lock, tx, run, overrun>>,
         admin' \in [Admins -> {Idle, Committing} \cup ClickTyp],
         admin'[a].pc # "commit", \A b \in Admins \ {a} : admin'[b] = admin[b],
         job' \in [Deliveries -> [Keys -> JobTyp]],
         route' \subseteq Deliveries, clicks' \in Nat
  PROVE  DeliveryInv'
  <1>1. ~Commits(a) /\ ~Commits(a)'
    BY CommitsAdmin, NAssumption DEF Commits, AdminAt
  <1>2. \A b \in Actors : Commits(b)' <=> Commits(b)
    BY <1>1, CommitsSameAdmin
  <1> QED
    BY <1>2, Quiet DEF DeliveryInv, TypeInv, TypeOK

(* A step of an administrator that opens a transaction.                     *)
LEMMA AdminOpens ==
  ASSUME DeliveryInv, Planned, NEW a \in Admins, NEW D \in SUBSET Deliveries,
         NEW to \in {"PENDING"} \cup Terminal, NEW R \in SUBSET Deliveries,
         Opens(a, D, to, R), UNCHANGED <<row, outbox, job, run, route, overrun>>,
         admin' \in [Admins -> {Idle, Committing} \cup ClickTyp],
         admin'[a].pc = "commit", \A b \in Admins \ {a} : admin'[b] = admin[b],
         clicks' \in Nat
  PROVE  DeliveryInv'
  <1>1. /\ Commits(a)' /\ a \in Actors /\ a \notin Workers
        /\ run' \in [Workers -> {Idle} \cup RunTyp]
    BY NAssumption DEF Commits, AdminAt, Actors, DeliveryInv, TypeInv
  <1>2. \A b \in Actors \ {a} : Commits(b)' <=> Commits(b)
    BY CommitsSameAdmin
  <1> QED
    BY <1>1, <1>2, Opened

LEMMA ClickFacts ==
  ASSUME TypeInv, Clicked
  PROVE  clicks' \in Nat /\ clicks' \in 0..MaxClicks
  BY NAssumption DEF TypeInv, Clicked

LEMMA CommittingFacts ==
  ASSUME TypeInv, NEW a \in Admins, admin' = [admin EXCEPT ![a] = Committing]
  PROVE  /\ admin' \in [Admins -> {Idle, Committing} \cup ClickTyp]
         /\ admin'[a].pc = "commit"
         /\ \A b \in Admins \ {a} : admin'[b] = admin[b]
  BY AdminWritten, IdleFacts

LEMMA DecisionStep ==
  ASSUME DeliveryInv, NEW a \in Admins, NEW d \in Deliveries,
         RetryClick(a, d) \/ Acknowledge(a, d)
  PROVE  DeliveryInv'
  <1>1. /\ TypeInv /\ PlanInv /\ ~AdminAt(a, "commit") /\ row[d].status = "FAILED"
        /\ clicks' \in Nat /\ clicks' \in 0..MaxClicks
    BY ClickFacts DEF DeliveryInv, RetryClick, Acknowledge, Retryable, AdminAt
  <1>2. Planned
    BY <1>1, UnderWay
  <1>3. CASE RetryClick(a, d)
    <2> DEFINE x == [pc |-> "reset", d |-> d, k |-> Retry(clicks'), after |-> "enqueue"]
    <2>1. Retry(clicks') \in Keys
      BY <1>1, KeyFacts
    <2>2. x \in ClickTyp /\ x.pc = "reset"
      BY <2>1 DEF ClickTyp
    <2>3. admin' = [admin EXCEPT ![a] = x]
      BY <1>3 DEF RetryClick
    <2> HIDE DEF x
    <2>4. /\ admin' \in [Admins -> {Idle, Committing} \cup ClickTyp]
          /\ admin'[a].pc # "commit" /\ \A b \in Admins \ {a} : admin'[b] = admin[b]
      <3>1. PICK y \in ClickTyp : y = x
        BY <2>2
      <3> QED
        BY <1>1, <2>2, <2>3, <3>1, AdminWritten
    <2>5. UNCHANGED <<row, outbox, lock, tx, job, route, run, overrun>>
      BY <1>3 DEF RetryClick, QueueUnchanged
    <2> QED
      BY <1>1, <1>2, <2>4, <2>5, AdminQuiet DEF TypeInv, TypeOK
  <1>4. CASE Acknowledge(a, d)
    <2>1. /\ Opens(a, {d}, "SKIPPED", {})
          /\ UNCHANGED <<row, outbox, job, run, route, overrun>>
          /\ admin' = [admin EXCEPT ![a] = Committing]
      BY <1>4 DEF Acknowledge, QueueUnchanged
    <2>2. "SKIPPED" \in {"PENDING"} \cup Terminal /\ {} \in SUBSET Deliveries
      BY DEF Terminal
    <2>3. /\ admin' \in [Admins -> {Idle, Committing} \cup ClickTyp]
          /\ admin'[a].pc = "commit" /\ \A b \in Admins \ {a} : admin'[b] = admin[b]
      BY <1>1, <2>1, CommittingFacts
    <2> QED
      BY <1>1, <1>2, <2>1, <2>2, <2>3, AdminOpens
  <1> QED
    BY <1>3, <1>4

LEMMA RouteStep ==
  ASSUME DeliveryInv, NEW a \in Admins, NEW D \in SUBSET Deliveries, ChangeRoutes(a, D)
  PROVE  DeliveryInv'
  <1> DEFINE waiting == {d \in D : row[d].status = "PENDING"}
  <1>1. /\ TypeInv /\ Planned /\ ~AdminAt(a, "commit") /\ AdminAt(a, "idle")
        /\ clicks' \in Nat /\ UNCHANGED <<row, outbox, job, run, overrun>>
    BY ClickFacts DEF DeliveryInv, ChangeRoutes, AdminAt, QueueUnchanged
  <1>2. CASE waiting = {}
    <2>1. route' = route \ D /\ UNCHANGED <<lock, tx, admin>>
      BY <1>2 DEF ChangeRoutes
    <2>2. /\ admin' \in [Admins -> {Idle, Committing} \cup ClickTyp]
          /\ admin'[a].pc # "commit" /\ \A b \in Admins \ {a} : admin'[b] = admin[b]
          /\ job' \in [Deliveries -> [Keys -> JobTyp]] /\ route' \subseteq Deliveries
      BY <1>1, <2>1 DEF TypeInv, TypeOK, AdminAt
    <2> QED
      BY <1>1, <2>1, <2>2, AdminQuiet
  <1>3. CASE waiting # {}
    <2>1. PICK E \in SUBSET Deliveries : E = waiting
      OBVIOUS
    <2>2. /\ Opens(a, E, "SKIPPED", D) /\ UNCHANGED route
          /\ admin' = [admin EXCEPT ![a] = Committing]
      BY <1>3, <2>1 DEF ChangeRoutes
    <2>3. "SKIPPED" \in Terminal
      BY DEF Terminal
    <2> QED
      BY <1>1, <2>2, <2>3, CommittingFacts, AdminOpens
  <1> QED
    BY <1>2, <1>3

LEMMA FinishStep ==
  ASSUME DeliveryInv, NEW a \in Admins,
         \/ Reset(a) \/ EnqueueRetry(a) \/ EnqueueFails(a) \/ Undo(a)
         \/ AdminCommit(a) \/ AdminCrash(a)
  PROVE  DeliveryInv'
  <1>1. TypeInv /\ PlanInv /\ Planned /\ a \in Actors /\ a \notin Workers
    <2>1. TypeInv /\ PlanInv /\ ~AdminAt(a, "idle")
      BY DEF DeliveryInv, Reset, EnqueueRetry, EnqueueFails, Undo, AdminCommit, AdminCrash,
             AdminAt
    <2> QED
      BY <2>1, UnderWay, NAssumption DEF Actors
  <1>2. /\ clicks \in Nat /\ job \in [Deliveries -> [Keys -> JobTyp]]
        /\ run \in [Workers -> {Idle} \cup RunTyp] /\ route \subseteq Deliveries
    BY <1>1 DEF TypeInv, TypeOK
  <1>3. CASE Reset(a)
    <2>1. admin[a] \in ClickTyp /\ admin[a].d \in Deliveries
      BY <1>1, <1>3, AdminFacts DEF Reset, AdminAt
    <2>2. PICK d \in Deliveries : d = admin[a].d
      BY <2>1
    <2>3. /\ Opens(a, {d}, "PENDING", {}) /\ AdminGoto(a, "commit")
          /\ UNCHANGED <<row, outbox, job, run, route, overrun, clicks>>
      BY <1>3, <2>2 DEF Reset, QueueUnchanged
    <2>4. /\ admin' \in [Admins -> {Idle, Committing} \cup ClickTyp]
          /\ admin'[a].pc = "commit" /\ \A b \in Admins \ {a} : admin'[b] = admin[b]
      BY <1>1, <2>1, <2>3, AdminGoing
    <2> QED
      BY <1>1, <1>2, <2>3, <2>4, AdminOpens
  <1>4. CASE EnqueueRetry(a) \/ EnqueueFails(a)
    <2>1. admin[a] \in ClickTyp /\ ~AdminAt(a, "commit")
      BY <1>1, <1>4, AdminFacts DEF EnqueueRetry, EnqueueFails, AdminAt
    <2>2. PICK d \in Deliveries, k \in Keys : d = admin[a].d /\ k = admin[a].k
      BY <1>1, <2>1, AdminFacts
    <2>3. job' = job \/ job' = Add(job, d, k)
      BY <1>4, <2>2 DEF EnqueueRetry, EnqueueFails
    <2>4. job' \in [Deliveries -> [Keys -> JobTyp]]
      BY <1>1, <1>2, <2>3, Added
    <2>5. /\ admin' \in [Admins -> {Idle, Committing} \cup ClickTyp]
          /\ admin'[a].pc # "commit" /\ \A b \in Admins \ {a} : admin'[b] = admin[b]
      <3>1. CASE EnqueueRetry(a)
        BY <1>1, <3>1, AdminWritten, IdleFacts DEF EnqueueRetry
      <3>2. CASE EnqueueFails(a)
        BY <1>1, <2>1, <3>2, AdminGoing DEF EnqueueFails
      <3> QED
        BY <1>4, <3>1, <3>2
    <2>6. UNCHANGED <<row, outbox, lock, tx, route, run, overrun, clicks>>
      BY <1>4 DEF EnqueueRetry, EnqueueFails
    <2> QED
      BY <1>1, <1>2, <2>1, <2>4, <2>5, <2>6, AdminQuiet
  <1>5. CASE Undo(a)
    <2>1. PICK d \in Deliveries : d = admin[a].d
      BY <1>1, <1>5, AdminFacts DEF Undo, AdminAt
    <2>2. PICK D \in SUBSET Deliveries : D = IF Undoable(d) THEN {d} ELSE {}
      OBVIOUS
    <2>3. /\ Opens(a, D, "FAILED", {}) /\ admin' = [admin EXCEPT ![a] = Committing]
          /\ UNCHANGED <<row, outbox, job, run, route, overrun, clicks>>
      BY <1>5, <2>1, <2>2 DEF Undo, QueueUnchanged
    <2>4. "FAILED" \in {"PENDING"} \cup Terminal /\ {} \in SUBSET Deliveries
      BY DEF Terminal
    <2>5. /\ admin' \in [Admins -> {Idle, Committing} \cup ClickTyp]
          /\ admin'[a].pc = "commit" /\ \A b \in Admins \ {a} : admin'[b] = admin[b]
      BY <1>1, <2>3, CommittingFacts
    <2> QED
      BY <1>1, <1>2, <2>3, <2>4, <2>5, AdminOpens
  <1>6. CASE AdminCommit(a)
    <2>1. /\ Commits(a) /\ Committed(a) /\ UNCHANGED <<job, run, overrun, clicks>>
      BY <1>1, <1>6 DEF AdminCommit, Commits, QueueUnchanged
    <2>2. /\ admin' \in [Admins -> {Idle, Committing} \cup ClickTyp]
          /\ admin'[a].pc # "commit" /\ \A b \in Admins \ {a} : admin'[b] = admin[b]
      BY <1>1, <1>6, AdminCommits
    <2>3. ~Commits(a)' /\ \A b \in Actors \ {a} : Commits(b)' <=> Commits(b)
      BY <1>1, <2>1, <2>2, CommitsSameAdmin DEF Commits, AdminAt
    <2> QED
      BY <1>1, <1>2, <2>1, <2>2, <2>3, Concluded
  <1>7. CASE AdminCrash(a)
    <2>1. /\ Aborted(a) /\ UNCHANGED <<row, outbox, job, run, route, overrun, clicks>>
          /\ admin' = [admin EXCEPT ![a] = Idle]
      BY <1>7 DEF AdminCrash, QueueUnchanged
    <2>2. /\ admin' \in [Admins -> {Idle, Committing} \cup ClickTyp]
          /\ admin'[a].pc # "commit" /\ \A b \in Admins \ {a} : admin'[b] = admin[b]
      BY <1>1, <2>1, AdminWritten, IdleFacts
    <2>3. ~Commits(a)' /\ \A b \in Actors \ {a} : Commits(b)' <=> Commits(b)
      BY <1>1, <2>1, <2>2, CommitsSameAdmin DEF Commits, AdminAt
    <2> QED
      BY <1>1, <1>2, <2>1, <2>2, <2>3, GivenUp
  <1> QED
    BY <1>3, <1>4, <1>5, <1>6, <1>7

-----------------------------------------------------------------------------
(* The first invariant                                                      *)

(* An event without a route is noted, or dropped.                           *)
LEMMA Unplanned ==
  ASSUME DeliveryInv, outbox \in {"none", "UNROUTED"}, outbox' \in {"UNROUTED", "SKIPPED"},
         UNCHANGED <<row, lock, tx, job, route, run, admin, overrun, clicks>>
  PROVE  DeliveryInv'
  <1>1. ~Planned /\ Untouched
    BY NotPlanned
  <1>2. ~Planned' /\ Untouched'
    BY <1>1 DEF Planned, Untouched
  <1>3. TypeInv'
    BY RowFacts, TypeKept DEF DeliveryInv, TypeInv, TypeOK, Terminal
  <1>4. LockInv' /\ OwnInv'
    <2>1. \A a \in Actors : ~Commits(a)' /\ tx'[a] = NoTx /\ lock' # a
      BY <1>1, NobodyCommits DEF Commits, At, AdminAt
    <2> QED
      BY <2>1 DEF LockInv, OwnInv, Actors
  <1> QED
    BY <1>2, <1>3, <1>4 DEF DeliveryInv, PlanInv, OutboxTold

LEMMA Stutters ==
  ASSUME DeliveryInv, UNCHANGED vars
  PROVE  DeliveryInv'
  <1>1. TypeInv'
    BY RowFacts, TypeKept DEF DeliveryInv, TypeInv, TypeOK, vars
  <1>2. LockInv' /\ OwnInv'
    BY DEF DeliveryInv, LockInv, OwnInv, Commits, At, AdminAt, Planned, Visible, Holds, vars
  <1>3. PlanInv'
    BY DEF DeliveryInv, PlanInv, OutboxTold, Planned, Untouched, vars
  <1> QED
    BY <1>1, <1>2, <1>3 DEF DeliveryInv

LEMMA DeliveryInit == Init => DeliveryInv
  <1> SUFFICES ASSUME Init PROVE DeliveryInv
    OBVIOUS
  <1>1. Untouched /\ ~Planned
    BY DeliveriesAssumption DEF Init, Untouched, Planned, Written
  <1>2. /\ row \in [Deliveries -> RowTyp]
        /\ \A d \in Deliveries : row[d].status = "none" /\ row[d].holder = Nobody
    BY DEF Init, Written, RowTyp
  <1>3. TypeInv
    <2>1. /\ tx \in [Actors -> TxTyp] /\ job \in [Deliveries -> [Keys -> JobTyp]]
          /\ run \in [Workers -> {Idle} \cup RunTyp]
          /\ admin \in [Admins -> {Idle, Committing} \cup ClickTyp]
          /\ \A a \in Actors : tx[a].rows \subseteq Deliveries /\ tx[a].routes \subseteq Deliveries
          /\ \A d \in Deliveries, k \in Keys : job[d][k] = NoJob
      BY NoTxTyp, JobFacts DEF Init, NoTx
    <2>2. NoJob.made = 0 /\ NoJob.state = "none" /\ 0 \in 0..(MaxAttempts - 1)
      BY NAssumption DEF NoJob
    <2> QED
      BY <1>2, <2>1, <2>2 DEF Init, TypeInv, TypeOK, RowTyp
  <1>4. \A a \in Actors : ~Commits(a) /\ tx[a] = NoTx /\ lock # a
    BY <1>1, IdleFacts, ActorsAssumption DEF Init, Untouched, Commits, At, AdminAt
  <1> QED
    BY <1>1, <1>3, <1>4 DEF DeliveryInv, LockInv, OwnInv, PlanInv, OutboxTold, Actors

LEMMA DeliveryStep == DeliveryInv /\ [Next]_vars => DeliveryInv'
  <1> SUFFICES ASSUME DeliveryInv, [Next]_vars
               PROVE  DeliveryInv'
    OBVIOUS
  <1>1. CASE UNCHANGED vars
    BY <1>1, Stutters
  <1>2. CASE Plan
    <2>1. CASE PlanSome
      BY <1>2, <2>1, SomePlanned DEF Plan
    <2>2. CASE outbox' \in {"UNROUTED", "SKIPPED"} /\ UNCHANGED <<row, job, faults>>
      BY <1>2, <2>2, Unplanned DEF Plan
    <2> QED
      BY <1>2, <2>1, <2>2 DEF Plan
  <1>3. ASSUME NEW d \in Deliveries,
               Recovers(d) \/ LeaseOverrun(d) \/ \E k \in Keys : DiesEarly(d, k)
        PROVE  DeliveryInv'
    BY <1>3, JobStep, LeaseStep, KeyFacts DEF Recovers
  <1>4. ASSUME NEW w \in Workers, Works(w) \/ StatementFails(w) \/ Crash(w)
        PROVE  DeliveryInv'
    BY <1>4, TakeStep, WorkerStep DEF Works
  <1>5. ASSUME NEW a \in Admins, Decides(a) \/ Finishes(a) \/ EnqueueFails(a) \/ AdminCrash(a)
        PROVE  DeliveryInv'
    <2>1. CASE Replay(a) \/ SkipEvent(a)
      <3>1. CASE Replay(a)
        BY <3>1, SomePlanned DEF Replay, Unrouted
      <3>2. CASE SkipEvent(a)
        BY <3>2, Unplanned DEF SkipEvent, Unrouted
      <3> QED
        BY <2>1, <3>1, <3>2
    <2>2. CASE \E D \in {{d} : d \in Deliveries} \cup {Deliveries} : ChangeRoutes(a, D)
      BY <2>2, RouteStep
    <2>3. CASE \E d \in Deliveries : RetryClick(a, d) \/ Acknowledge(a, d)
      BY <2>3, DecisionStep
    <2>4. CASE Finishes(a) \/ EnqueueFails(a) \/ AdminCrash(a)
      BY <2>4, FinishStep DEF Finishes
    <2> QED
      BY <1>5, <2>1, <2>2, <2>3, <2>4 DEF Decides
  <1> QED
    BY <1>1, <1>2, <1>3, <1>4, <1>5 DEF Next

(* The variables keep their types, and who has claimed a delivery is known  *)
(* while it is under way, whatever else happens to the row.                 *)
THEOREM TypeCorrect == Spec => []TypeOK
  <1>1. DeliveryInv => TypeOK
    BY DEF DeliveryInv, TypeInv
  <1> QED
    BY <1>1, DeliveryInit, DeliveryStep, PTL DEF Spec

(* The status of the event is what its deliveries add up to, with any       *)
(* number of transactions that conclude them at one time, those of          *)
(* administrators included (aggregateN8nOutboxTx).                          *)
THEOREM EventStatusAddsUp == Spec => []OutboxTold
  <1>1. DeliveryInv => OutboxTold
    BY DEF DeliveryInv, PlanInv
  <1> QED
    BY <1>1, DeliveryInit, DeliveryStep, PTL DEF Spec

-----------------------------------------------------------------------------
(* Conclusions                                                              *)

Respected == \A d \in Deliveries : OnlyHolderConcludes(d) /\ FinalStays(d)

LEMMA RowsStay ==
  ASSUME UNCHANGED row
  PROVE  Respected
  BY DEF Respected, OnlyHolderConcludes, FinalStays

(* What a step of others may do to the rows of an open transaction.         *)
LEMMA DecisionKept ==
  ASSUME DecisionInv,
         \A a \in Admins : lock' = a =>
           /\ lock = a /\ tx'[a] = tx[a]
           /\ \A d \in tx[a].rows : row'[d].status = row[d].status
  PROVE  DecisionInv'
  BY DEF DecisionInv

LEMMA NothingRespected ==
  ASSUME DecisionInv, UNCHANGED <<row, lock, tx>>
  PROVE  DecisionInv' /\ Respected
  BY DecisionKept, RowsStay

(* What a worker leaves of others' locks and transactions.                  *)
LEMMA WorkerLocks ==
  ASSUME DeliveryInv, NEW w \in Workers,
         \/ UNCHANGED <<lock, tx>>
         \/ \E D, to, R : Opens(w, D, to, R)
         \/ Aborted(w) \/ Committed(w)
  PROVE  \A a \in Admins : lock' = a => lock = a /\ tx'[a] = tx[a]
  <1>1. w \in Actors /\ w \notin Admins /\ TypeInv /\ \A a \in Admins : a # Nobody /\ a \in Actors
    BY NAssumption, ActorsAssumption DEF Actors, DeliveryInv
  <1> SUFFICES ASSUME NEW a \in Admins, lock' = a
               PROVE  lock = a /\ tx'[a] = tx[a]
    OBVIOUS
  <1>2. CASE Aborted(w) \/ Committed(w)
    BY <1>1, <1>2 DEF Aborted, Committed, TypeInv
  <1> QED
    BY <1>1, <1>2 DEF Opens

(* A worker that rewrites no row, or one that no transaction holds.         *)
LEMMA WorkerDecides ==
  ASSUME DeliveryInv, DecisionInv, NEW w \in Workers,
         \/ UNCHANGED <<lock, tx>>
         \/ \E D, to, R : Opens(w, D, to, R)
         \/ Aborted(w) \/ Committed(w),
         \/ UNCHANGED row
         \/ lock = w /\ Committed(w)
         \/ /\ UNCHANGED <<lock, tx>>
            /\ \E d \in Deliveries : /\ Unlocked(d)
                                     /\ \A e \in Deliveries \ {d} : row'[e] = row[e]
  PROVE  DecisionInv'
  <1>1. \A a \in Admins : lock' = a => lock = a /\ tx'[a] = tx[a]
    BY WorkerLocks
  <1>2. CASE UNCHANGED row
    BY <1>1, <1>2, DecisionKept
  <1>3. CASE lock = w /\ Committed(w)
    <2>1. \A a \in Admins : lock' # a
      BY <1>3, ActorsAssumption DEF Committed, Actors
    <2> QED
      BY <2>1 DEF DecisionInv
  <1>4. ASSUME UNCHANGED <<lock, tx>>, NEW d \in Deliveries, Unlocked(d),
               \A e \in Deliveries \ {d} : row'[e] = row[e]
        PROVE  DecisionInv'
    <2>1. \A a \in Admins : tx[a].rows \subseteq Deliveries \ {d}
      BY <1>4, TxFacts DEF Unlocked, Actors, DeliveryInv
    <2> QED
      BY <1>4, <2>1, DecisionKept
  <1> QED
    BY <1>2, <1>3, <1>4

LEMMA TakeRespects ==
  ASSUME DeliveryInv, DecisionInv, NEW w \in Workers, NEW d \in Deliveries, NEW k \in Keys,
         Take(w, d, k)
  PROVE  DecisionInv' /\ Respected
  <1>1. UNCHANGED <<lock, tx>> /\ Unlocked(d) /\ TypeInv
    BY DEF Take, DeliveryInv
  <1>2. CASE ~Claimable(d)
    BY <1>1, <1>2, NothingRespected DEF Take
  <1>3. CASE Claimable(d)
    <2> DEFINE z == [status |-> "PROCESSING", holder |-> w, expired |-> FALSE]
    <2>1. row' = [row EXCEPT ![d] = z] /\ row[d].status \in {"PENDING", "PROCESSING"}
      BY <1>3 DEF Take, Claimable
    <2>2. z.status = "PROCESSING"
      OBVIOUS
    <2> HIDE DEF z
    <2>3. row'[d] = z /\ \A e \in Deliveries \ {d} : row'[e] = row[e]
      BY <1>1, <2>1, RowFacts
    <2>4. DecisionInv'
      BY <1>1, <2>3, WorkerDecides
    <2> QED
      BY <2>1, <2>2, <2>3, <2>4 DEF Respected, OnlyHolderConcludes, FinalStays
  <1> QED
    BY <1>2, <1>3

(* A worker rewrites its own delivery while it holds the lease, or none.    *)
LEMMA WorkerRespects ==
  ASSUME DeliveryInv, DecisionInv, NEW w \in Workers,
         \/ Prepare(w) \/ Skip(w) \/ Answer(w) \/ NoAnswer(w) \/ Release(w) \/ GiveUp(w)
         \/ Commit(w) \/ StatementFails(w) \/ Crash(w)
  PROVE  DecisionInv' /\ Respected
  <1>1. /\ TypeInv /\ ~At(w, "idle") /\ run[w] \in RunTyp /\ run[w].d \in Deliveries
        /\ w \in Actors
    <2>1. TypeInv /\ ~At(w, "idle")
      BY DEF DeliveryInv, Prepare, Skip, Answer, NoAnswer, Release, GiveUp, Commit,
             StatementFails, Crash, At
    <2> QED
      BY <2>1, RunFacts DEF Actors
  <1>2. CASE \/ Prepare(w) \/ NoAnswer(w) \/ Skip(w) \/ Answer(w) \/ GiveUp(w)
             \/ StatementFails(w) \/ Crash(w)
    <2>1. UNCHANGED row
      BY <1>2 DEF Prepare, NoAnswer, Skip, Answer, GiveUp, Conclude, StatementFails, Crash
    <2>2. \/ UNCHANGED <<lock, tx>>
          \/ \E D, to, R : Opens(w, D, to, R)
          \/ Aborted(w)
      <3>1. \A to : Conclude(w, to) => UNCHANGED <<lock, tx>> \/ \E D, t, R : Opens(w, D, t, R)
        BY DEF Conclude
      <3> QED
        BY <1>2, <3>1 DEF Prepare, NoAnswer, Skip, Answer, GiveUp, StatementFails, Crash
    <2> QED
      BY <2>1, <2>2, WorkerDecides, RowsStay
  <1>3. CASE Release(w)
    <2>1. PICK d \in Deliveries : d = run[w].d
      BY <1>1
    <2>2. /\ Unlocked(d) /\ UNCHANGED <<lock, tx>> /\ run'[w] # run[w]
          /\ row' = IF Holds(w, d) THEN [row EXCEPT ![d] = Written("PENDING")] ELSE row
      <3>1. run'[w] = Idle
        BY <1>1, <1>3, JobEnds, RunWritten DEF Release
      <3> QED
        BY <1>1, <1>3, <2>1, <3>1, IdleFacts DEF Release, At
    <2>3. \A e \in Deliveries \ {d} : row'[e] = row[e]
      BY <1>1, <2>2, RowFacts
    <2>4. Respected
      BY <2>2, <2>3 DEF Respected, OnlyHolderConcludes, FinalStays, Holds
    <2> QED
      BY <2>2, <2>3, <2>4, WorkerDecides
  <1>4. CASE Commit(w)
    <2>1. PICK d \in Deliveries : d = run[w].d
      BY <1>1
    <2>2. lock = w /\ tx[w].rows = {d} /\ Holds(w, d) /\ Committed(w)
      BY <1>1, <1>4, <2>1 DEF DeliveryInv, LockInv, OwnInv, Commit, Commits
    <2>3. run'[w] # run[w]
      <3>1. run'[w] = Idle
        BY <1>1, <1>4, JobEnds, RunWritten DEF Commit
      <3> QED
        BY <1>1, <3>1, IdleFacts DEF At
    <2>4. \A e \in Deliveries \ {d} : row'[e] = row[e]
      BY <2>2 DEF Committed
    <2>5. Respected
      BY <2>2, <2>3, <2>4 DEF Respected, OnlyHolderConcludes, FinalStays, Holds
    <2> QED
      BY <2>2, <2>5, WorkerDecides
  <1> QED
    BY <1>2, <1>3, <1>4

LEMMA LeaseRespects ==
  ASSUME DeliveryInv, DecisionInv, NEW d \in Deliveries, LeaseEnds(d) \/ LeaseOverrun(d)
  PROVE  DecisionInv' /\ Respected
  <1>1. /\ TypeInv /\ UNCHANGED <<lock, tx>>
        /\ row' = [row EXCEPT ![d].expired = TRUE]
    BY DEF DeliveryInv, LeaseEnds, LeaseOverrun
  <1>2. \A e \in Deliveries : row'[e].status = row[e].status
    BY <1>1, RowFacts DEF RowTyp
  <1>3. DecisionInv'
    BY <1>1, <1>2, TxFacts, DecisionKept DEF Actors
  <1> QED
    BY <1>2, <1>3 DEF Respected, OnlyHolderConcludes, FinalStays

(* What an administrator's decision locks has failed or waits, or a retry   *)
(* is to reset it.                                                          *)
LEMMA AdminRespects ==
  ASSUME DeliveryInv, DecisionInv, NEW a \in Admins, NEW d \in Deliveries,
         NEW D \in SUBSET Deliveries,
         \/ RetryClick(a, d) \/ Acknowledge(a, d) \/ ChangeRoutes(a, D)
         \/ Reset(a) \/ EnqueueRetry(a) \/ EnqueueFails(a) \/ Undo(a) \/ AdminCrash(a)
  PROVE  DecisionInv' /\ Respected
  <1>1. TypeInv /\ UNCHANGED row /\ a \in Actors
    BY DEF DeliveryInv, RetryClick, Acknowledge, ChangeRoutes, Reset, EnqueueRetry,
           EnqueueFails, Undo, AdminCrash, QueueUnchanged, Actors
  <1>2. lock' = a /\ tx'[a].to # "PENDING" =>
          \A e \in tx'[a].rows : row[e].status \in {"FAILED", "PENDING"}
    <2>1. ASSUME NEW E \in SUBSET Deliveries, NEW to, NEW R, Opens(a, E, to, R)
          PROVE  tx'[a].rows = E /\ tx'[a].to = to
      <3> DEFINE t == [rows |-> E, to |-> to, routes |-> R,
                       seen |-> AggregateStatus(Visible(E, to))]
      <3>1. t.rows = E /\ t.to = to /\ tx' = [tx EXCEPT ![a] = t]
        BY <2>1 DEF Opens
      <3> HIDE DEF t
      <3> QED
        BY <1>1, <3>1 DEF TypeInv
    <2>2. CASE RetryClick(a, d) \/ EnqueueRetry(a) \/ EnqueueFails(a)
      <3>1. UNCHANGED <<lock, tx>>
        BY <2>2 DEF RetryClick, EnqueueRetry, EnqueueFails
      <3> QED
        BY <3>1 DEF DecisionInv
    <2>3. CASE Acknowledge(a, d)
      BY <2>1, <2>3 DEF Acknowledge
    <2>4. CASE ChangeRoutes(a, D)
      <3>1. PICK E \in SUBSET Deliveries : E = {e \in D : row[e].status = "PENDING"}
        OBVIOUS
      <3>2. Opens(a, E, "SKIPPED", D) \/ UNCHANGED <<lock, tx>>
        BY <2>4, <3>1 DEF ChangeRoutes
      <3> QED
        BY <2>1, <3>1, <3>2 DEF DecisionInv
    <2>5. CASE Reset(a)
      <3>1. PICK e \in Deliveries : e = admin[a].d
        BY <1>1, <2>5, AdminFacts DEF Reset, AdminAt
      <3>2. Opens(a, {e}, "PENDING", {})
        BY <2>5, <3>1 DEF Reset
      <3> QED
        BY <2>1, <3>2
    <2>6. CASE Undo(a)
      <3>1. PICK e \in Deliveries : e = admin[a].d
        BY <1>1, <2>6, AdminFacts DEF Undo, AdminAt
      <3>2. PICK E \in SUBSET Deliveries : E = IF Undoable(e) THEN {e} ELSE {}
        OBVIOUS
      <3>3. Opens(a, E, "FAILED", {})
        BY <2>6, <3>1, <3>2 DEF Undo
      <3> QED
        BY <2>1, <3>2, <3>3 DEF Undoable
    <2>7. CASE AdminCrash(a)
      <3>1. lock' # a
        BY <1>1, <2>7, ActorsAssumption DEF AdminCrash, Aborted
      <3> QED
        BY <3>1
    <2> QED
      BY <2>2, <2>3, <2>4, <2>5, <2>6, <2>7
  <1>3. ASSUME NEW b \in Admins \ {a}, lock' = b
        PROVE  lock = b /\ tx'[b] = tx[b]
    <2>1. UNCHANGED <<lock, tx>> \/ lock' = a \/ Aborted(a)
      BY DEF RetryClick, Acknowledge, ChangeRoutes, Reset, EnqueueRetry, EnqueueFails, Undo,
             AdminCrash, Opens
    <2> QED
      BY <1>1, <1>3, <2>1, ActorsAssumption DEF Aborted, TypeInv, Actors
  <1>4. DecisionInv'
    BY <1>1, <1>2, <1>3 DEF DecisionInv
  <1> QED
    BY <1>1, <1>4, RowsStay

LEMMA AdminCommitRespects ==
  ASSUME DeliveryInv, DecisionInv, NEW a \in Admins, AdminCommit(a)
  PROVE  DecisionInv' /\ Respected
  <1>1. a \in Actors /\ lock = a /\ Committed(a)
    BY DEF AdminCommit, Commits, Actors, DeliveryInv, LockInv
  <1>2. \A b \in Admins : lock' # b
    BY <1>1, ActorsAssumption DEF Committed, Actors
  <1>3. \A d \in Deliveries : \/ row'[d] = row[d]
                              \/ row[d].status \in {"FAILED", "PENDING"}
                              \/ RetryCommits(d)
    BY <1>1 DEF Committed, DecisionInv, RetryCommits
  <1> QED
    BY <1>2, <1>3 DEF DecisionInv, Respected, OnlyHolderConcludes, FinalStays

LEMMA PlannedRespects ==
  ASSUME DeliveryInv, outbox \in {"none", "UNROUTED"}, UNCHANGED lock
  PROVE  DecisionInv' /\ Respected
  <1>1. Untouched /\ \A a \in Actors : lock # a
    BY NotPlanned, NobodyCommits
  <1> QED
    BY <1>1 DEF Untouched, Written, DecisionInv, Actors, Respected, OnlyHolderConcludes, FinalStays

LEMMA StepRespects == DeliveryInv /\ DecisionInv /\ [Next]_vars => DecisionInv' /\ Respected
  <1> SUFFICES ASSUME DeliveryInv, DecisionInv, [Next]_vars
               PROVE  DecisionInv' /\ Respected
    OBVIOUS
  <1>1. CASE UNCHANGED vars
    BY <1>1, NothingRespected DEF vars
  <1>2. CASE Plan
    BY <1>2, PlannedRespects DEF Plan
  <1>3. ASSUME NEW d \in Deliveries,
               Recovers(d) \/ LeaseOverrun(d) \/ \E k \in Keys : DiesEarly(d, k)
        PROVE  DecisionInv' /\ Respected
    <2>1. CASE LeaseEnds(d) \/ LeaseOverrun(d)
      BY <2>1, LeaseRespects
    <2>2. CASE \/ Forget(d) \/ Reconcile(d)
               \/ \E k \in Keys : Stalled(d, k) \/ DiesEarly(d, k)
      <3>1. UNCHANGED <<row, lock, tx>>
        BY <2>2 DEF Forget, Reconcile, Stalled, DiesEarly
      <3> QED
        BY <3>1, NothingRespected
    <2> QED
      BY <1>3, <2>1, <2>2 DEF Recovers
  <1>4. ASSUME NEW w \in Workers, Works(w) \/ StatementFails(w) \/ Crash(w)
        PROVE  DecisionInv' /\ Respected
    BY <1>4, TakeRespects, WorkerRespects DEF Works
  <1>5. ASSUME NEW a \in Admins, Decides(a) \/ Finishes(a) \/ EnqueueFails(a) \/ AdminCrash(a)
        PROVE  DecisionInv' /\ Respected
    <2>1. CASE Replay(a)
      BY <2>1, PlannedRespects DEF Replay, Unrouted
    <2>2. CASE SkipEvent(a)
      BY <2>2, NothingRespected DEF SkipEvent
    <2>3. CASE \E D \in {{d} : d \in Deliveries} \cup {Deliveries} : ChangeRoutes(a, D)
      BY <2>3, DeliveriesAssumption, AdminRespects
    <2>4. CASE \E d \in Deliveries : RetryClick(a, d) \/ Acknowledge(a, d)
      BY <2>4, AdminRespects
    <2>5. CASE Finishes(a) \/ EnqueueFails(a) \/ AdminCrash(a)
      BY <2>5, DeliveriesAssumption, AdminRespects, AdminCommitRespects DEF Finishes
    <2> QED
      BY <1>5, <2>1, <2>2, <2>3, <2>4, <2>5 DEF Decides
  <1> QED
    BY <1>1, <1>2, <1>3, <1>4, <1>5 DEF Next

LEMMA DecisionInit == Init => DecisionInv
  BY ActorsAssumption DEF Init, DecisionInv, Actors

(* However many administrators decide at one time, and whatever crashes,    *)
(* overruns its lease or runs twice: only the commit of a retry's reset,    *)
(* by the delivery's id alone, takes a delivery out of the hands of a live  *)
(* holder or back from its end (n8n-deliver.ts, deliveries.ts).             *)
THEOREM HandsAreRespected == Spec => ConclusionsHold
  <1>1. DeliveryInv /\ DecisionInv /\ [Next]_vars =>
          [\A d \in Deliveries : OnlyHolderConcludes(d) /\ FinalStays(d)]_vars
    BY StepRespects DEF Respected
  <1> QED
    BY <1>1, DeliveryInit, DeliveryStep, DecisionInit, StepRespects,
       PTL DEF Spec, ConclusionsHold

-----------------------------------------------------------------------------
(* The second invariant                                                     *)

(* What a step may do to the rows of the deliveries that are worked on.     *)
LEMMA LeaseKept ==
  ASSUME LeaseInv, overrun \subseteq overrun',
         \A w \in Workers :
           \/ run'[w].pc = "idle"
           \/ run'[w].pc # "send" /\ ~row'[run'[w].d].expired
           \/ /\ ~At(w, "idle") /\ run'[w].d = run[w].d
              /\ run'[w].pc = "send" => At(w, "send") \/ Holds(w, run[w].d)
              /\ LET d == run[w].d IN
                   /\ row'[d].status = "PROCESSING" /\ row'[d].holder = w =>
                        /\ Holds(w, d)
                        /\ row'[d].expired => row[d].expired \/ d \in overrun'
                   /\ Holds(w, d) /\ d \notin overrun =>
                        row'[d].status = "PROCESSING" /\ row'[d].holder = w
  PROVE  LeaseInv'
  <1> SUFFICES ASSUME NEW w \in Workers, run'[w].pc # "idle"
               PROVE  LET d == run'[w].d IN
                        /\ /\ row'[d].status = "PROCESSING" /\ row'[d].holder = w
                           /\ row'[d].expired
                           => d \in overrun'
                        /\ run'[w].pc = "send" /\ d \notin overrun' =>
                             row'[d].status = "PROCESSING" /\ row'[d].holder = w
    BY DEF LeaseInv, At, Holds
  <1> QED
    BY DEF LeaseInv, At

(* What a step of others may do to the rows of an open transaction.         *)
LEMMA GraspKept ==
  ASSUME GraspInv,
         \A a \in Admins : lock' = a =>
           /\ lock = a /\ tx'[a] = tx[a]
           /\ \A d \in tx[a].rows : row'[d].status = row[d].status
  PROVE  GraspInv'
  BY DEF GraspInv

(* A step of a worker that leaves the rows alone.                           *)
LEMMA WorkerHolds ==
  ASSUME DeliveryInv, HoldInv, NEW w \in Workers, ~At(w, "idle"),
         UNCHANGED <<row, admin, overrun>>,
         \A v \in Workers \ {w} : run'[v] = run[v],
         \/ run'[w].pc = "idle"
         \/ run'[w].d = run[w].d /\ (run'[w].pc = "send" => Holds(w, run[w].d)),
         \A a \in Admins : lock' = a => lock = a /\ tx'[a] = tx[a]
  PROVE  HoldInv'
  <1>1. GraspInv'
    BY GraspKept DEF HoldInv
  <1>2. LeaseInv'
    <2>1. \A v \in Workers : run'[v].pc # "idle" =>
            /\ ~At(v, "idle") /\ run'[v].d = run[v].d
            /\ run'[v].pc = "send" => At(v, "send") \/ Holds(v, run[v].d)
      BY DEF At
    <2> QED
      BY <2>1, LeaseKept DEF HoldInv, Holds
  <1> QED
    BY <1>1, <1>2 DEF HoldInv

(* A step that leaves the rows and the workers alone.                       *)
LEMMA OthersHold ==
  ASSUME HoldInv, UNCHANGED <<row, run, overrun>>, GraspInv'
  PROVE  HoldInv'
  <1>1. LeaseInv'
    BY DEF HoldInv, LeaseInv, At, Holds
  <1> QED
    BY <1>1 DEF HoldInv

LEMMA NothingDecided ==
  ASSUME DeliveryInv, HoldInv, UNCHANGED <<row, lock, tx, run, admin, overrun>>
  PROVE  HoldInv'
  <1>1. GraspInv'
    BY GraspKept DEF HoldInv
  <1> QED
    BY <1>1, OthersHold

LEMMA TakeHolds ==
  ASSUME DeliveryInv, HoldInv, NEW w \in Workers, NEW d \in Deliveries, NEW k \in Keys,
         Take(w, d, k)
  PROVE  HoldInv'
  <1>1. CASE ~Claimable(d)
    BY <1>1, NothingDecided DEF Take
  <1>2. CASE Claimable(d)
    <2> DEFINE z == [status |-> "PROCESSING", holder |-> w, expired |-> FALSE]
               x == [pc |-> "prepare", d |-> d, k |-> k, caught |-> FALSE]
    <2>1. /\ row \in [Deliveries -> RowTyp] /\ run \in [Workers -> {Idle} \cup RunTyp]
          /\ TypeInv /\ Unlocked(d)
      BY RowFacts DEF DeliveryInv, TypeInv, Take
    <2>2. /\ row' = [row EXCEPT ![d] = z] /\ run' = [run EXCEPT ![w] = x]
          /\ UNCHANGED <<lock, tx, admin, overrun>>
          /\ row[d].status \in {"PENDING", "PROCESSING"}
      BY <1>2 DEF Take, Claimable
    <2>3. /\ z.status = "PROCESSING" /\ z.holder = w /\ ~z.expired
          /\ x.pc = "prepare" /\ x.d = d
      OBVIOUS
    <2> HIDE DEF z, x
    <2>4. /\ row'[d] = z /\ \A e \in Deliveries \ {d} : row'[e] = row[e]
          /\ run'[w] = x /\ \A v \in Workers \ {w} : run'[v] = run[v]
      BY <2>1, <2>2
    <2>5. LeaseInv'
      <3>1. ASSUME NEW v \in Workers \ {w}, run'[v].pc # "idle"
            PROVE  /\ ~At(v, "idle") /\ run'[v].d = run[v].d
                   /\ run'[v].pc = "send" => At(v, "send")
                   /\ LET e == run[v].d IN
                        /\ row'[e].status = "PROCESSING" /\ row'[e].holder = v =>
                             /\ Holds(v, e)
                             /\ row'[e].expired => row[e].expired
                        /\ Holds(v, e) /\ e \notin overrun =>
                             row'[e].status = "PROCESSING" /\ row'[e].holder = v
        <4>1. run'[v] = run[v] /\ ~At(v, "idle") /\ run[v].d \in Deliveries
          BY <2>1, <2>4, <3>1, RunFacts DEF At
        <4>2. CASE run[v].d # d
          BY <2>4, <4>1, <4>2 DEF Holds, At
        <4>3. CASE run[v].d = d
          <5>1. row'[d].holder # v
            BY <2>3, <2>4
          <5>2. Holds(v, d) => d \in overrun
            BY <1>2, <4>1, <4>3 DEF HoldInv, LeaseInv, Claimable, Holds
          <5> QED
            BY <4>1, <4>3, <5>1, <5>2 DEF At
        <4> QED
          BY <4>2, <4>3
      <3>2. run'[w].pc # "send" /\ ~row'[run'[w].d].expired
        BY <2>3, <2>4
      <3> QED
        BY <2>2, <3>1, <3>2, LeaseKept DEF HoldInv
    <2>6. GraspInv'
      BY <2>1, <2>2, <2>4, GraspKept DEF HoldInv, Unlocked, Actors
    <2> QED
      BY <2>5, <2>6 DEF HoldInv
  <1> QED
    BY <1>1, <1>2

(* A worker's own delivery leaves its hands: nobody else held it.           *)
LEMMA OwnRowHolds ==
  ASSUME DeliveryInv, HoldInv, NEW w \in Workers, ~At(w, "idle"), NEW d \in Deliveries,
         Holds(w, d), NEW z, z.status # "PROCESSING",
         row' = [row EXCEPT ![d] = z], run' = [run EXCEPT ![w] = Idle],
         UNCHANGED <<admin, overrun>>,
         \A a \in Admins : lock' = a => lock = a /\ tx'[a] = tx[a] /\ d \notin tx[a].rows
  PROVE  HoldInv'
  <1>1. row \in [Deliveries -> RowTyp] /\ run \in [Workers -> {Idle} \cup RunTyp] /\ TypeInv
    BY RowFacts DEF DeliveryInv, TypeInv
  <1>2. /\ row'[d] = z /\ \A e \in Deliveries \ {d} : row'[e] = row[e]
        /\ run'[w] = Idle /\ \A v \in Workers \ {w} : run'[v] = run[v]
        /\ run[w] # Idle
    BY <1>1, RunFacts
  <1>3. LeaseInv'
    <2>1. ASSUME NEW v \in Workers, run'[v].pc # "idle"
          PROVE  /\ ~At(v, "idle") /\ run'[v].d = run[v].d
                 /\ run'[v].pc = "send" => At(v, "send")
                 /\ LET e == run[v].d IN
                      /\ row'[e].status = "PROCESSING" /\ row'[e].holder = v =>
                           /\ Holds(v, e)
                           /\ row'[e].expired => row[e].expired
                      /\ Holds(v, e) /\ e \notin overrun =>
                           row'[e].status = "PROCESSING" /\ row'[e].holder = v
      <3>1. v # w
        BY <1>2, <2>1, IdleFacts
      <3>2. run'[v] = run[v] /\ ~At(v, "idle") /\ run[v].d \in Deliveries
        BY <1>1, <1>2, <2>1, <3>1, RunFacts DEF At
      <3>3. CASE run[v].d # d
        BY <1>2, <3>2, <3>3 DEF Holds, At
      <3>4. CASE run[v].d = d
        BY <1>2, <3>1, <3>2, <3>4 DEF Holds, At
      <3> QED
        BY <3>3, <3>4
    <2> QED
      BY <2>1, LeaseKept DEF HoldInv
  <1>4. GraspInv'
    <2>1. \A a \in Admins : lock' = a =>
            /\ lock = a /\ tx'[a] = tx[a]
            /\ \A e \in tx[a].rows : row'[e].status = row[e].status
      BY <1>1, <1>2, TxFacts DEF Actors
    <2> QED
      BY <2>1, GraspKept DEF HoldInv
  <1> QED
    BY <1>3, <1>4 DEF HoldInv

LEMMA ConcludeHolds ==
  ASSUME DeliveryInv, HoldInv, NEW w \in Workers, run[w] \in RunTyp, NEW to, Conclude(w, to)
  PROVE  HoldInv'
  <1>1. TypeInv /\ ~At(w, "idle") /\ w \notin Admins
    BY IdleFacts, NAssumption DEF DeliveryInv, At, RunTyp
  <1>2. UNCHANGED <<row, admin, overrun>>
    BY DEF Conclude
  <1>3. CASE Holds(w, run[w].d)
    <2>1. Opens(w, {run[w].d}, to, {}) /\ run' = [run EXCEPT ![w].pc = "commit"]
      BY <1>3 DEF Conclude, Goto
    <2>2. /\ run'[w].pc = "commit" /\ run'[w].d = run[w].d
          /\ \A v \in Workers \ {w} : run'[v] = run[v]
      <3>1. run[w].caught \in BOOLEAN
        BY DEF RunTyp
      <3> QED
        BY <1>1, <2>1, <3>1, Going
    <2>3. \A a \in Admins : lock' # a
      BY <1>1, <2>1 DEF Opens
    <2> QED
      BY <1>1, <1>2, <2>2, <2>3, WorkerHolds
  <1>4. CASE ~Holds(w, run[w].d)
    <2>1. Leaves(w) /\ UNCHANGED <<lock, tx>>
      BY <1>4 DEF Conclude
    <2>2. run'[w] = Idle /\ \A v \in Workers \ {w} : run'[v] = run[v]
      BY <1>1, <2>1, JobEnds, RunWritten
    <2> QED
      BY <1>1, <1>2, <2>1, <2>2, IdleFacts, WorkerHolds
  <1> QED
    BY <1>3, <1>4

LEMMA WorkerStepHolds ==
  ASSUME DeliveryInv, HoldInv, NEW w \in Workers,
         \/ Prepare(w) \/ Skip(w) \/ Answer(w) \/ NoAnswer(w) \/ Release(w) \/ GiveUp(w)
         \/ Commit(w) \/ StatementFails(w) \/ Crash(w)
  PROVE  HoldInv'
  <1>1. /\ TypeInv /\ ~At(w, "idle") /\ run[w] \in RunTyp /\ run[w].d \in Deliveries
        /\ run[w].caught \in BOOLEAN /\ w \in Actors /\ w \notin Admins
    <2>1. TypeInv /\ ~At(w, "idle")
      BY DEF DeliveryInv, Prepare, Skip, Answer, NoAnswer, Release, GiveUp, Commit,
             StatementFails, Crash, At
    <2> QED
      BY <2>1, RunFacts, NAssumption DEF RunTyp, Actors
  <1>2. CASE Prepare(w) \/ NoAnswer(w)
    <2>1. PICK pc \in {"send", "caught"}, c \in BOOLEAN :
            /\ pc = "send" => Holds(w, run[w].d)
            /\ \/ run' = [run EXCEPT ![w].pc = pc] /\ c = run[w].caught
               \/ run' = [run EXCEPT ![w] = [@ EXCEPT !.pc = pc, !.caught = c]]
      BY <1>1, <1>2 DEF Prepare, NoAnswer, Goto, Caught
    <2>2. /\ run'[w].pc = pc /\ run'[w].d = run[w].d
          /\ \A v \in Workers \ {w} : run'[v] = run[v]
      BY <1>1, <2>1, Going
    <2>3. UNCHANGED <<row, lock, tx, admin, overrun>>
      BY <1>2 DEF Prepare, NoAnswer
    <2> QED
      BY <1>1, <2>1, <2>2, <2>3, WorkerHolds
  <1>3. CASE Skip(w) \/ Answer(w) \/ GiveUp(w)
    BY <1>1, <1>3, ConcludeHolds DEF Skip, Answer, GiveUp
  <1>4. CASE Release(w)
    <2>1. PICK d \in Deliveries : d = run[w].d
      BY <1>1
    <2>2. /\ Unlocked(d) /\ UNCHANGED <<lock, tx, admin, overrun>>
          /\ run' = [run EXCEPT ![w] = Idle] /\ run'[w] = Idle
          /\ \A v \in Workers \ {w} : run'[v] = run[v]
      BY <1>1, <1>4, <2>1, JobEnds, RunWritten DEF Release
    <2>3. CASE ~Holds(w, d)
      <3>1. UNCHANGED row
        BY <1>4, <2>1, <2>3 DEF Release
      <3> QED
        BY <1>1, <2>2, <3>1, IdleFacts, WorkerHolds
    <2>4. CASE Holds(w, d)
      <3>1. PICK z \in RowTyp : z = Written("PENDING") /\ z.status # "PROCESSING"
        BY WrittenFacts
      <3>2. row' = [row EXCEPT ![d] = z]
        BY <1>4, <2>1, <2>4, <3>1 DEF Release
      <3>3. \A a \in Admins : d \notin tx[a].rows
        BY <2>2 DEF Unlocked, Actors
      <3> QED
        BY <1>1, <2>2, <2>4, <3>1, <3>2, <3>3, OwnRowHolds
    <2> QED
      BY <2>3, <2>4
  <1>5. CASE Commit(w)
    <2>1. PICK d \in Deliveries : d = run[w].d
      BY <1>1
    <2>2. /\ lock = w /\ tx[w].to # "none" /\ tx[w].rows = {d} /\ Holds(w, d)
      BY <1>1, <1>5, <2>1 DEF DeliveryInv, LockInv, OwnInv, Commit, Commits
    <2>3. PICK z \in RowTyp : z = Written(tx[w].to) /\ z.status # "PROCESSING"
      <3>1. tx[w].to \in {"none", "PENDING"} \cup Terminal
        BY <1>1, TxFacts DEF TxTyp
      <3> QED
        BY <3>1, WrittenFacts
    <2>4. row' = [row EXCEPT ![d] = z]
      <3>1. row' = [e \in Deliveries |-> IF e = d THEN z ELSE row[e]]
        BY <1>5, <2>2, <2>3 DEF Commit, Committed
      <3> QED
        BY <1>1, <3>1, RowFacts
    <2>5. /\ run' = [run EXCEPT ![w] = Idle] /\ UNCHANGED <<admin, overrun>>
      BY <1>1, <1>5, JobEnds DEF Commit
    <2>6. \A a \in Admins : lock' # a
      BY <1>5, <2>2, ActorsAssumption DEF Commit, Committed, Actors
    <2> QED
      BY <1>1, <2>2, <2>3, <2>4, <2>5, <2>6, OwnRowHolds
  <1>6. CASE StatementFails(w) \/ Crash(w)
    <2>1. /\ Aborted(w) /\ UNCHANGED <<row, admin, overrun>>
      BY <1>6 DEF StatementFails, Crash
    <2>2. /\ run'[w].pc = "idle" \/ (run'[w].d = run[w].d /\ run'[w].pc # "send")
          /\ \A v \in Workers \ {w} : run'[v] = run[v]
      <3>1. CASE StatementFails(w) /\ run[w].caught
        BY <1>1, <3>1, JobEnds, RunWritten, IdleFacts DEF StatementFails
      <3>2. CASE StatementFails(w) /\ ~run[w].caught
        <4>1. run' = [run EXCEPT ![w] = [@ EXCEPT !.pc = "caught", !.caught = TRUE]]
          BY <3>2 DEF StatementFails, Caught
        <4> QED
          BY <1>1, <4>1, Going
      <3>3. CASE Crash(w)
        BY <1>1, <3>3, RunWritten, IdleFacts DEF Crash
      <3> QED
        BY <1>6, <3>1, <3>2, <3>3
    <2>3. \A a \in Admins : lock' = a => lock = a /\ tx'[a] = tx[a]
      BY <1>1, <2>1, ActorsAssumption DEF Aborted, TypeInv, Actors
    <2> QED
      BY <1>1, <2>1, <2>2, <2>3, WorkerHolds
  <1> QED
    BY <1>2, <1>3, <1>4, <1>5, <1>6

LEMMA LeaseStepHolds ==
  ASSUME DeliveryInv, HoldInv, NEW d \in Deliveries, LeaseEnds(d) \/ LeaseOverrun(d)
  PROVE  HoldInv'
  <1>1. /\ TypeInv /\ row \in [Deliveries -> RowTyp] /\ row[d] \in RowTyp
        /\ UNCHANGED <<lock, tx, run, admin>> /\ overrun \subseteq overrun'
        /\ Live(d) => d \in overrun'
    BY RowFacts DEF DeliveryInv, LeaseEnds, LeaseOverrun
  <1> DEFINE z == [row[d] EXCEPT !.expired = TRUE]
  <1>2. z.status = row[d].status /\ z.holder = row[d].holder /\ row' = [row EXCEPT ![d] = z]
    BY <1>1 DEF LeaseEnds, LeaseOverrun, RowTyp
  <1> HIDE DEF z
  <1>3. /\ \A e \in Deliveries : /\ row'[e].status = row[e].status
                                 /\ row'[e].holder = row[e].holder
        /\ \A e \in Deliveries \ {d} : row'[e] = row[e]
    BY <1>1, <1>2
  <1>4. LeaseInv'
    <2>1. ASSUME NEW w \in Workers, run'[w].pc # "idle"
          PROVE  /\ ~At(w, "idle") /\ run'[w].d = run[w].d
                 /\ run'[w].pc = "send" => At(w, "send")
                 /\ LET e == run[w].d IN
                      /\ row'[e].status = "PROCESSING" /\ row'[e].holder = w =>
                           /\ Holds(w, e)
                           /\ row'[e].expired => row[e].expired \/ e \in overrun'
                      /\ Holds(w, e) /\ e \notin overrun =>
                           row'[e].status = "PROCESSING" /\ row'[e].holder = w
      <3>1. ~At(w, "idle") /\ run'[w] = run[w] /\ run[w].d \in Deliveries
        BY <1>1, <2>1, RunFacts DEF At
      <3>2. PICK e \in Deliveries : e = run[w].d
        BY <3>1
      <3>3. Holds(w, e) <=> row'[e].status = "PROCESSING" /\ row'[e].holder = w
        BY <1>3 DEF Holds
      <3>4. Holds(w, e) /\ row'[e].expired => row[e].expired \/ e \in overrun'
        BY <1>1, <1>3, <3>1, <3>2 DEF Live
      <3> QED
        BY <3>1, <3>2, <3>3, <3>4 DEF At
    <2> QED
      BY <1>1, <2>1, LeaseKept DEF HoldInv
  <1>5. GraspInv'
    BY <1>1, <1>3, TxFacts, GraspKept DEF HoldInv, Actors
  <1> QED
    BY <1>4, <1>5 DEF HoldInv

LEMMA AdminStepHolds ==
  ASSUME DeliveryInv, HoldInv, ResetsAreFresh, NEW a \in Admins, NEW d \in Deliveries,
         NEW D \in SUBSET Deliveries,
         \/ RetryClick(a, d) \/ Acknowledge(a, d) \/ ChangeRoutes(a, D)
         \/ Reset(a) \/ EnqueueRetry(a) \/ EnqueueFails(a) \/ Undo(a) \/ AdminCrash(a)
  PROVE  HoldInv'
  <1>1. TypeInv /\ UNCHANGED <<row, run, overrun>> /\ a \in Actors
    BY DEF DeliveryInv, RetryClick, Acknowledge, ChangeRoutes, Reset, EnqueueRetry,
           EnqueueFails, Undo, AdminCrash, QueueUnchanged, Actors
  <1>2. lock' = a => \A e \in tx'[a].rows : row[e].status \in {"FAILED", "PENDING"}
    <2>1. ASSUME NEW E \in SUBSET Deliveries, NEW to, NEW R, Opens(a, E, to, R)
          PROVE  tx'[a].rows = E
      <3> DEFINE t == [rows |-> E, to |-> to, routes |-> R,
                       seen |-> AggregateStatus(Visible(E, to))]
      <3>1. t.rows = E /\ tx' = [tx EXCEPT ![a] = t]
        BY <2>1 DEF Opens
      <3> HIDE DEF t
      <3> QED
        BY <1>1, <3>1 DEF TypeInv
    <2>2. CASE RetryClick(a, d) \/ EnqueueRetry(a) \/ EnqueueFails(a)
      <3>1. UNCHANGED <<lock, tx>>
        BY <2>2 DEF RetryClick, EnqueueRetry, EnqueueFails
      <3> QED
        BY <3>1 DEF HoldInv, GraspInv
    <2>3. CASE Acknowledge(a, d)
      BY <2>1, <2>3 DEF Acknowledge
    <2>4. CASE ChangeRoutes(a, D)
      <3>1. PICK E \in SUBSET Deliveries : E = {e \in D : row[e].status = "PENDING"}
        OBVIOUS
      <3>2. Opens(a, E, "SKIPPED", D) \/ UNCHANGED <<lock, tx>>
        BY <2>4, <3>1 DEF ChangeRoutes
      <3> QED
        BY <2>1, <3>1, <3>2 DEF HoldInv, GraspInv
    <2>5. CASE Reset(a)
      <3>1. PICK e \in Deliveries : e = admin[a].d
        BY <1>1, <2>5, AdminFacts DEF Reset, AdminAt
      <3>2. Opens(a, {e}, "PENDING", {}) /\ row[e].status = "FAILED"
        BY <2>5, <3>1 DEF Reset, ResetsAreFresh
      <3> QED
        BY <2>1, <3>2
    <2>6. CASE Undo(a)
      <3>1. PICK e \in Deliveries : e = admin[a].d
        BY <1>1, <2>6, AdminFacts DEF Undo, AdminAt
      <3>2. PICK E \in SUBSET Deliveries : E = IF Undoable(e) THEN {e} ELSE {}
        OBVIOUS
      <3>3. Opens(a, E, "FAILED", {})
        BY <2>6, <3>1, <3>2 DEF Undo
      <3> QED
        BY <2>1, <3>2, <3>3 DEF Undoable
    <2>7. CASE AdminCrash(a)
      <3>1. lock' # a
        BY <1>1, <2>7, ActorsAssumption DEF AdminCrash, Aborted
      <3> QED
        BY <3>1
    <2> QED
      BY <2>2, <2>3, <2>4, <2>5, <2>6, <2>7
  <1>3. ASSUME NEW b \in Admins \ {a}, lock' = b
        PROVE  lock = b /\ tx'[b] = tx[b]
    <2>1. \/ UNCHANGED <<lock, tx>>
          \/ lock' = a
          \/ Aborted(a)
      BY DEF RetryClick, Acknowledge, ChangeRoutes, Reset, EnqueueRetry, EnqueueFails, Undo,
             AdminCrash, Opens
    <2> QED
      BY <1>1, <1>3, <2>1, ActorsAssumption DEF Aborted, TypeInv, Actors
  <1>4. GraspInv'
    BY <1>1, <1>2, <1>3 DEF GraspInv, HoldInv
  <1> QED
    BY <1>1, <1>4, OthersHold

LEMMA AdminCommitHolds ==
  ASSUME DeliveryInv, HoldInv, NEW a \in Admins, AdminCommit(a)
  PROVE  HoldInv'
  <1>1. /\ TypeInv /\ UNCHANGED <<run, overrun>> /\ a \in Actors
        /\ lock = a /\ tx[a].rows \subseteq Deliveries /\ Committed(a)
    <2>1. Commits(a) /\ a \in Actors
      BY DEF AdminCommit, Commits, Actors
    <2> QED
      BY <2>1, TxFacts DEF DeliveryInv, LockInv, AdminCommit, QueueUnchanged
  <1>2. \A d \in tx[a].rows : row[d].status \in {"FAILED", "PENDING"}
    BY <1>1 DEF HoldInv, GraspInv
  <1>3. \A d \in Deliveries : \/ row'[d] = row[d]
                              \/ row[d].status \in {"FAILED", "PENDING"} /\ row'[d].holder = Nobody
    BY <1>1, <1>2 DEF Committed, Written
  <1>4. LeaseInv'
    <2>1. ASSUME NEW w \in Workers, run'[w].pc # "idle"
          PROVE  /\ ~At(w, "idle") /\ run'[w].d = run[w].d
                 /\ run'[w].pc = "send" => At(w, "send")
                 /\ LET e == run[w].d IN
                      /\ row'[e].status = "PROCESSING" /\ row'[e].holder = w =>
                           /\ Holds(w, e)
                           /\ row'[e].expired => row[e].expired
                      /\ Holds(w, e) /\ e \notin overrun =>
                           row'[e].status = "PROCESSING" /\ row'[e].holder = w
      <3>1. ~At(w, "idle") /\ run'[w] = run[w] /\ run[w].d \in Deliveries /\ w # Nobody
        BY <1>1, <2>1, RunFacts, ActorsAssumption DEF At, Actors
      <3> QED
        BY <1>3, <3>1 DEF Holds, At
    <2> QED
      BY <1>1, <2>1, LeaseKept DEF HoldInv
  <1>5. GraspInv'
    <2>1. \A b \in Admins : lock' # b
      BY <1>1, ActorsAssumption DEF Committed, Actors
    <2> QED
      BY <2>1 DEF GraspInv
  <1> QED
    BY <1>4, <1>5 DEF HoldInv

LEMMA PlannedHolds ==
  ASSUME DeliveryInv, HoldInv, outbox \in {"none", "UNROUTED"}, PlanSome,
         UNCHANGED <<lock, tx, route, run, admin, overrun, clicks>>
  PROVE  HoldInv'
  <1>1. Untouched /\ \A a \in Actors : lock # a
    BY NotPlanned, NobodyCommits
  <1>2. LeaseInv' /\ GraspInv'
    BY <1>1, IdleFacts DEF Untouched, LeaseInv, GraspInv, At, Actors
  <1> QED
    BY <1>2 DEF HoldInv

LEMMA HoldStep == DeliveryInv /\ HoldInv /\ ResetsAreFresh /\ [Next]_vars => HoldInv'
  <1> SUFFICES ASSUME DeliveryInv, HoldInv, ResetsAreFresh, [Next]_vars
               PROVE  HoldInv'
    OBVIOUS
  <1>1. CASE UNCHANGED vars
    BY <1>1, NothingDecided DEF vars
  <1>2. CASE Plan
    <2>1. CASE PlanSome
      BY <1>2, <2>1, PlannedHolds DEF Plan
    <2>2. CASE outbox' \in {"UNROUTED", "SKIPPED"} /\ UNCHANGED <<row, job, faults>>
      BY <1>2, <2>2, NothingDecided DEF Plan
    <2> QED
      BY <1>2, <2>1, <2>2 DEF Plan
  <1>3. ASSUME NEW d \in Deliveries,
               Recovers(d) \/ LeaseOverrun(d) \/ \E k \in Keys : DiesEarly(d, k)
        PROVE  HoldInv'
    <2>1. CASE LeaseEnds(d) \/ LeaseOverrun(d)
      BY <2>1, LeaseStepHolds
    <2>2. CASE \/ Forget(d) \/ Reconcile(d)
               \/ \E k \in Keys : Stalled(d, k) \/ DiesEarly(d, k)
      <3>1. UNCHANGED <<row, lock, tx, run, admin, overrun>>
        BY <2>2 DEF Forget, Reconcile, Stalled, DiesEarly
      <3> QED
        BY <3>1, NothingDecided
    <2> QED
      BY <1>3, <2>1, <2>2 DEF Recovers
  <1>4. ASSUME NEW w \in Workers, Works(w) \/ StatementFails(w) \/ Crash(w)
        PROVE  HoldInv'
    BY <1>4, TakeHolds, WorkerStepHolds DEF Works
  <1>5. ASSUME NEW a \in Admins, Decides(a) \/ Finishes(a) \/ EnqueueFails(a) \/ AdminCrash(a)
        PROVE  HoldInv'
    <2>1. CASE Replay(a)
      BY <2>1, PlannedHolds DEF Replay, Unrouted
    <2>2. CASE SkipEvent(a)
      BY <2>2, NothingDecided DEF SkipEvent
    <2>3. CASE \E D \in {{d} : d \in Deliveries} \cup {Deliveries} : ChangeRoutes(a, D)
      BY <2>3, DeliveriesAssumption, AdminStepHolds
    <2>4. CASE \E d \in Deliveries : RetryClick(a, d) \/ Acknowledge(a, d)
      BY <2>4, AdminStepHolds
    <2>5. CASE Finishes(a) \/ EnqueueFails(a) \/ AdminCrash(a)
      BY <2>5, DeliveriesAssumption, AdminStepHolds, AdminCommitHolds DEF Finishes
    <2> QED
      BY <1>5, <2>1, <2>2, <2>3, <2>4, <2>5 DEF Decides
  <1> QED
    BY <1>1, <1>2, <1>3, <1>4, <1>5 DEF Next

LEMMA HoldInit == Init => HoldInv
  <1> SUFFICES ASSUME Init PROVE HoldInv
    OBVIOUS
  <1>1. /\ \A w \in Workers : run[w] = Idle /\ w # Nobody
        /\ \A a \in Admins : admin[a] = Idle /\ lock # a
    BY ActorsAssumption DEF Init, Actors
  <1> QED
    BY <1>1, IdleFacts DEF HoldInv, LeaseInv, GraspInv, At

LEMMA SendersAgree ==
  ASSUME DeliveryInv, HoldInv
  PROVE  OneSender
  <1> SUFFICES ASSUME NEW d \in Deliveries \ overrun
               PROVE  Cardinality({w \in Workers : Sends(w, d)}) <= 1
    BY DEF OneSender
  <1>1. \A v, w \in Workers : Sends(v, d) /\ Sends(w, d) => v = w
    BY DEF Sends, HoldInv, LeaseInv, Holds
  <1>2. CASE {w \in Workers : Sends(w, d)} = {}
    BY <1>2, FS_EmptySet
  <1>3. CASE {w \in Workers : Sends(w, d)} # {}
    <2>1. PICK w \in Workers : {v \in Workers : Sends(v, d)} = {w}
      BY <1>1, <1>3
    <2>2. Cardinality({w}) = 1
      BY FS_Singleton
    <2> QED
      BY <2>1, <2>2
  <1> QED
    BY <1>2, <1>3

(* Only a retry that resets a delivery twice can break the lease: while     *)
(* every reset meets a failed row, two executions call the webhook for one  *)
(* delivery only once the lease of the first ran out under it, whatever     *)
(* claims, reconciliations and any number of administrators do              *)
(* (n8n-deliver.ts; the reset is deliveries.ts, by the id alone).           *)
THEOREM DoubleCallNeedsStaleReset == Spec /\ []ResetsAreFresh => []OneSender
  <1>1. DeliveryInv /\ HoldInv => OneSender
    BY SendersAgree
  <1> QED
    BY <1>1, DeliveryInit, DeliveryStep, HoldInit, HoldStep, PTL DEF Spec

===============================================================================
