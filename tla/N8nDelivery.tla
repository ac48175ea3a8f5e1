----------------------------- MODULE N8nDelivery ------------------------------
(***************************************************************************)
(* The delivery of one event to n8n: one outbox row, one delivery row for  *)
(* each route that subscribes to the event, the BullMQ jobs that carry the *)
(* deliveries' ids, the workers that claim a delivery under a lease and    *)
(* call the webhook, the reconciliation of jobs and leases that got lost,  *)
(* and the decisions of administrators (retry, acknowledge, change a       *)
(* route, replay or drop an event that had no route).                      *)
(*                                                                         *)
(* Statements run at READ COMMITTED.  A transaction that concludes         *)
(* deliveries changes their rows, which locks them, locks the outbox row   *)
(* and reads all deliveries; its commit is a step of its own, and what is  *)
(* committed before may be read and claimed by others meanwhile.           *)
(***************************************************************************)
EXTENDS Integers, FiniteSets

CONSTANTS
  Deliveries,    \* the deliveries of the event, one for each route
  Workers,       \* executions of the n8n-deliver queue that run at one time
  Admins,        \* administrators at the settings page
  MaxAttempts,   \* attempts of one BullMQ job
  MaxFaults,     \* bound: crashes, failed statements, overrun leases
  MaxClicks      \* bound: decisions of administrators

ASSUME NAssumption ==
  /\ MaxAttempts \in Nat \ {0}
  /\ MaxFaults \in Nat
  /\ MaxClicks \in Nat
  /\ Workers \cap Admins = {}
\* An event without a route has no deliveries: it is UNROUTED.
ASSUME DeliveriesAssumption == Deliveries # {}

VARIABLES
  row,      \* the delivery rows: status, holder of the lease, lease run out?
  outbox,   \* status of the outbox row
  lock,     \* who holds the lock of the outbox row
  tx,       \* the open transaction of a worker or an administrator
  job,      \* the BullMQ jobs of a delivery
  route,    \* deliveries whose route is still the one they were planned for
  run,      \* the executions of the workers
  admin,    \* the administrators
  overrun,  \* history: deliveries whose lease ran out under a live worker
  faults, clicks

vars == <<row, outbox, lock, tx, job, route, run, admin, overrun, faults, clicks>>

-----------------------------------------------------------------------------
(* Rows, jobs and transactions *)

Nobody == "nobody"
Actors == Workers \cup Admins

ASSUME ActorsAssumption == Nobody \notin Actors

Active   == {"PENDING", "PROCESSING"}
Terminal == {"DELIVERED", "FAILED", "SKIPPED"}

\* The keys of a delivery's jobs: its first job, the job of a recovery, and
\* one for each click.
Initial  == 0
Recovery == 1
Retry(n) == n + 1
Keys     == 0..(MaxClicks + 1)

NoJob == [state |-> "none", made |-> 0]
New   == [state |-> "waiting", made |-> 0]

\* queue.add: a key that is still known, finished jobs included, is ignored.
Add(jobs, d, k) == IF jobs[d][k] = NoJob THEN [jobs EXCEPT ![d][k] = New] ELSE jobs

NoTx == [rows |-> {}, to |-> "none", seen |-> "none", routes |-> {}]

Unlocked(d) == \A a \in Actors : d \notin tx[a].rows

\* aggregateN8nOutboxStatus
AggregateStatus(s) ==
  LET all(x) == \A d \in Deliveries : s[d] = x
  IN  CASE \E d \in Deliveries : s[d] \in Active -> "PENDING"
        [] all("DELIVERED") -> "DELIVERED"
        [] all("FAILED")    -> "FAILED"
        [] all("SKIPPED")   -> "SKIPPED"
        [] OTHER            -> "PARTIAL"

Planned == \A d \in Deliveries : row[d].status # "none"

\* The row of a delivery after its status was written.
Written(s) == [status |-> s, holder |-> Nobody, expired |-> FALSE]

\* The statuses that actor a reads once it changed rows D: its own changes and
\* what the others committed.
Visible(D, to) == [d \in Deliveries |-> IF d \in D THEN to ELSE row[d].status]

\* When an actor may read the deliveries to aggregate them.
MayAggregateUnlocked == TRUE
MayAggregate == lock = Nobody

\* A transaction that writes status `to` to the rows D and changes the routes R.
\* aggregateN8nOutboxTx: the outbox row is locked, then the deliveries are read.
Opens(a, D, to, R) ==
  /\ MayAggregate
  /\ lock' = a
  /\ tx' = [tx EXCEPT ![a] = [rows |-> D, to |-> to, routes |-> R,
                             seen |-> AggregateStatus(Visible(D, to))]]

Committed(a) ==
  /\ row' = [d \in Deliveries |->
               IF d \in tx[a].rows THEN Written(tx[a].to) ELSE row[d]]
  /\ outbox' = tx[a].seen
  /\ route' = route \ tx[a].routes
  /\ tx' = [tx EXCEPT ![a] = NoTx]
  /\ lock' = IF lock = a THEN Nobody ELSE lock

Aborted(a) ==
  /\ tx' = [tx EXCEPT ![a] = NoTx]
  /\ lock' = IF lock = a THEN Nobody ELSE lock

-----------------------------------------------------------------------------
(* Planning *)

Idle == [pc |-> "idle"]

Init ==
  /\ row = [d \in Deliveries |-> Written("none")]
  /\ outbox = "none"
  /\ lock = Nobody
  /\ tx = [a \in Actors |-> NoTx]
  /\ job = [d \in Deliveries |-> [k \in Keys |-> NoJob]]
  /\ route = Deliveries
  /\ run = [w \in Workers |-> Idle]
  /\ admin = [a \in Admins |-> Idle]
  /\ overrun = {}
  /\ faults = 0
  /\ clicks = 0

\* createPlannedN8nDeliveriesTx: a route without a usable target is skipped.
\* The jobs are added after the commit, each under its key; what fails or is cut
\* short is left to the reconciliation.
PlanDeliveries(skipped, lost) ==
  /\ row' = [d \in Deliveries |->
               Written(IF d \in skipped THEN "SKIPPED" ELSE "PENDING")]
  /\ outbox' = IF skipped = Deliveries THEN "SKIPPED" ELSE "PENDING"
  /\ job' = [d \in Deliveries |->
               [k \in Keys |-> IF k = Initial /\ d \notin skipped \cup lost
                               THEN New ELSE NoJob]]
  /\ IF lost = {} THEN UNCHANGED faults
     ELSE faults < MaxFaults /\ faults' = faults + 1

PlanSome ==
  \E skipped \in SUBSET Deliveries :
    \E lost \in SUBSET (Deliveries \ skipped) : PlanDeliveries(skipped, lost)

\* enqueueN8nEventCore: the event and its deliveries, or an event without route.
Plan ==
  /\ outbox = "none"
  /\ \/ PlanSome
     \/ /\ outbox' \in {"UNROUTED", "SKIPPED"}
        /\ UNCHANGED <<row, job, faults>>
  /\ UNCHANGED <<lock, tx, route, run, admin, overrun, clicks>>

-----------------------------------------------------------------------------
(* Workers *)

At(w, pc) == run[w].pc = pc

Goto(w, pc) == run' = [run EXCEPT ![w].pc = pc]

\* A job that is over: the first job's key is remembered, the others' are not
\* used again.
Ended(k) == IF k = Initial THEN [NoJob EXCEPT !.state = "done"] ELSE NoJob

\* The handler returns.
Completes(w) ==
  LET r == run[w] IN
  /\ job' = [job EXCEPT ![r.d][r.k] = Ended(r.k)]
  /\ run' = [run EXCEPT ![w] = Idle]

LastAttemptLate(w) == job[run[w].d][run[w].k].made >= MaxAttempts
LastAttempt(w) == job[run[w].d][run[w].k].made + 1 >= MaxAttempts

\* The handler throws: BullMQ repeats the job later or gives it up.
Throws(w) ==
  LET r == run[w] IN
  /\ job' = [job EXCEPT ![r.d][r.k] =
               IF LastAttempt(w) THEN Ended(r.k)
               ELSE [state |-> "waiting", made |-> @.made + 1]]
  /\ run' = [run EXCEPT ![w] = Idle]

ClaimableEarly(d) == row[d].status \in Active
ClaimableOnce(d)  == row[d].status = "PENDING"

Claimable(d) ==
  \/ row[d].status = "PENDING"
  \/ row[d].status = "PROCESSING" /\ row[d].expired

\* The job starts; claimDelivery.
Take(w, d, k) ==
  /\ At(w, "idle")
  /\ job[d][k].state = "waiting"
  /\ Unlocked(d)
  /\ IF Claimable(d)
     THEN /\ row' = [row EXCEPT ![d] =
                       [status |-> "PROCESSING", holder |-> w, expired |-> FALSE]]
          /\ job' = [job EXCEPT ![d][k].state = "active"]
          /\ run' = [run EXCEPT ![w] = [pc |-> "prepare", d |-> d, k |-> k, caught |-> FALSE]]
     ELSE /\ job' = [job EXCEPT ![d][k] = Ended(k)]
          /\ UNCHANGED <<row, run>>
  /\ UNCHANGED <<outbox, lock, tx, route, admin, overrun, faults, clicks>>

\* The job starts and its execution dies before it claims the delivery.
DiesEarly(d, k) ==
  /\ job[d][k].state = "waiting"
  /\ faults < MaxFaults
  /\ faults' = faults + 1
  /\ job' = [job EXCEPT ![d][k].state = "stalled"]
  /\ UNCHANGED <<row, outbox, lock, tx, route, run, admin, overrun, clicks>>

\* The condition of every statement that writes to a claimed delivery.
HoldsAnyLease(w, d) == row[d].status = "PROCESSING"
Holds(w, d) == row[d].status = "PROCESSING" /\ row[d].holder = w

\* The job once its delivery is concluded: an error that was caught is thrown on.
Leaves(w) == IF run[w].caught THEN Throws(w) ELSE Completes(w)

\* markDeliveryTerminal, failClaimedDelivery: nothing for who lost the lease.
Conclude(w, to) ==
  LET d == run[w].d IN
  /\ Unlocked(d)
  /\ IF Holds(w, d)
     THEN /\ Opens(w, {d}, to, {})
          /\ Goto(w, "commit")
          /\ UNCHANGED job
     ELSE /\ Leaves(w)
          /\ UNCHANGED <<lock, tx>>
  /\ UNCHANGED <<row, outbox, route, admin, overrun, faults, clicks>>

\* deliver: the route is compared with the plan right before the call.
Prepare(w) ==
  /\ At(w, "prepare") /\ Holds(w, run[w].d) /\ run[w].d \in route
  /\ Goto(w, "send")
  /\ UNCHANGED <<row, outbox, lock, tx, job, route, admin, overrun, faults, clicks>>

Skip(w) ==
  /\ At(w, "prepare") /\ ~(Holds(w, run[w].d) /\ run[w].d \in route)
  /\ Conclude(w, "SKIPPED")

\* sendSignedDelivery: the webhook accepts, or refuses for good.
Answer(w) ==
  /\ At(w, "send")
  /\ \E to \in {"DELIVERED", "FAILED"} : Conclude(w, to)

\* The handler of errors: the webhook's, a timeout's, a failed statement's.
Caught(w) == run' = [run EXCEPT ![w] = [@ EXCEPT !.pc = "caught", !.caught = TRUE]]

NoAnswer(w) ==
  /\ At(w, "send")
  /\ Caught(w)
  /\ UNCHANGED <<row, outbox, lock, tx, job, route, admin, overrun, faults, clicks>>

\* releaseDeliveryForRetry
Release(w) ==
  LET d == run[w].d IN
  /\ At(w, "caught") /\ ~LastAttempt(w)
  /\ Unlocked(d)
  /\ row' = IF Holds(w, d) THEN [row EXCEPT ![d] = Written("PENDING")] ELSE row
  /\ Throws(w)
  /\ UNCHANGED <<outbox, lock, tx, route, admin, overrun, faults, clicks>>

GiveUp(w) ==
  /\ At(w, "caught") /\ LastAttempt(w)
  /\ Conclude(w, "FAILED")

Commit(w) ==
  /\ At(w, "commit")
  /\ Committed(w)
  /\ Leaves(w)
  /\ UNCHANGED <<admin, overrun, faults, clicks>>

\* A statement fails: the error is caught; one of the handler leaves the job.
StatementFails(w) ==
  /\ run[w].pc \in {"prepare", "caught", "commit"}
  /\ faults < MaxFaults
  /\ faults' = faults + 1
  /\ Aborted(w)
  /\ IF run[w].caught
     THEN Throws(w)
     ELSE Caught(w) /\ UNCHANGED job
  /\ UNCHANGED <<row, outbox, route, admin, overrun, clicks>>

Crash(w) ==
  /\ ~At(w, "idle")
  /\ faults < MaxFaults
  /\ faults' = faults + 1
  /\ Aborted(w)
  /\ job' = [job EXCEPT ![run[w].d][run[w].k].state = "stalled"]
  /\ run' = [run EXCEPT ![w] = Idle]
  /\ UNCHANGED <<row, outbox, route, admin, overrun, clicks>>

-----------------------------------------------------------------------------
(* Leases, lost jobs and the reconciliation *)

\* The holder still works under its lease.
Live(d) ==
  \E w \in Workers : ~At(w, "idle") /\ run[w].d = d /\ Holds(w, d)

LeaseEnds(d) ==
  /\ row[d].status = "PROCESSING" /\ ~row[d].expired /\ ~Live(d)
  /\ row' = [row EXCEPT ![d].expired = TRUE]
  /\ UNCHANGED <<outbox, lock, tx, job, route, run, admin, overrun, faults, clicks>>

\* The holder is slower than its lease.
LeaseOverrun(d) ==
  /\ row[d].status = "PROCESSING" /\ ~row[d].expired /\ Live(d)
  /\ faults < MaxFaults
  /\ faults' = faults + 1
  /\ row' = [row EXCEPT ![d].expired = TRUE]
  /\ overrun' = overrun \cup {d}
  /\ UNCHANGED <<outbox, lock, tx, job, route, run, admin, clicks>>

\* BullMQ: the job of a dead worker runs again, or is given up.
Stalled(d, k) ==
  /\ job[d][k].state = "stalled"
  /\ \E after \in {[job[d][k] EXCEPT !.state = "waiting"],
                   Ended(k)} :
       job' = [job EXCEPT ![d][k] = after]
  /\ UNCHANGED <<row, outbox, lock, tx, route, run, admin, overrun, faults, clicks>>

\* removeOnComplete, removeOnFail.  The key matters while the delivery waits.
Forget(d) ==
  /\ row[d].status = "PENDING"
  /\ job[d][Initial].state = "done"
  /\ job' = [job EXCEPT ![d][Initial] = NoJob]
  /\ UNCHANGED <<row, outbox, lock, tx, route, run, admin, overrun, faults, clicks>>

\* The key under which a stuck delivery is added again.
RecoveryKey(d) == IF row[d].status = "PROCESSING" THEN Recovery ELSE Initial

Reconcile(d) ==
  /\ Claimable(d)
  /\ job' = Add(job, d, RecoveryKey(d))
  /\ job' # job
  /\ UNCHANGED <<row, outbox, lock, tx, route, run, admin, overrun, faults, clicks>>

-----------------------------------------------------------------------------
(* Administrators *)

AdminAt(a, pc) == admin[a].pc = pc

AdminGoto(a, pc) == admin' = [admin EXCEPT ![a].pc = pc]

Clicked == clicks < MaxClicks /\ clicks' = clicks + 1

\* Of an administrator's steps most leave the jobs and the workers alone.
QueueUnchanged == UNCHANGED <<job, run, overrun>>

Committing == [pc |-> "commit", after |-> "idle"]

\* What may be tried again: a failed delivery with its route intact.
Retryable(d) == row[d].status = "FAILED" /\ d \in route

\* resetFailedN8nDeliveryTx, the read.
RetryClick(a, d) ==
  /\ AdminAt(a, "idle") /\ Clicked
  /\ Retryable(d)
  /\ admin' = [admin EXCEPT ![a] =
                 [pc |-> "reset", d |-> d, k |-> Retry(clicks'), after |-> "enqueue"]]
  /\ QueueUnchanged
  /\ UNCHANGED <<row, outbox, lock, tx, route, faults>>

\* resetFailedN8nDeliveryTx, the update: by the delivery's id alone.
Reset(a) ==
  /\ AdminAt(a, "reset")
  /\ Unlocked(admin[a].d)
  /\ Opens(a, {admin[a].d}, "PENDING", {})
  /\ AdminGoto(a, "commit")
  /\ QueueUnchanged
  /\ UNCHANGED <<row, outbox, route, faults, clicks>>

\* acknowledgeFailedN8nDelivery
Acknowledge(a, d) ==
  /\ AdminAt(a, "idle") /\ Clicked
  /\ row[d].status = "FAILED" /\ Unlocked(d)
  /\ Opens(a, {d}, "SKIPPED", {})
  /\ admin' = [admin EXCEPT ![a] = Committing]
  /\ QueueUnchanged
  /\ UNCHANGED <<row, outbox, route, faults>>

\* cancelPendingN8nDeliveries and the change of the routes, in one transaction.
ChangeRoutes(a, D) ==
  LET waiting == {d \in D : row[d].status = "PENDING"} IN
  /\ AdminAt(a, "idle") /\ Clicked
  /\ Planned /\ D \cap route # {} /\ \A d \in waiting : Unlocked(d)
  /\ IF waiting = {}
     THEN /\ route' = route \ D
          /\ UNCHANGED <<lock, tx, admin>>
     ELSE /\ Opens(a, waiting, "SKIPPED", D)
          /\ admin' = [admin EXCEPT ![a] = Committing]
          /\ UNCHANGED route
  /\ QueueUnchanged
  /\ UNCHANGED <<row, outbox, faults>>

AdminCommit(a) ==
  /\ AdminAt(a, "commit")
  /\ Committed(a)
  /\ admin' = [admin EXCEPT ![a] = IF admin[a].after = "idle" THEN Idle ELSE [@ EXCEPT !.pc = admin[a].after]]
  /\ QueueUnchanged
  /\ UNCHANGED <<faults, clicks>>

\* retryN8nDelivery: the job is added after the commit.
EnqueueRetry(a) ==
  /\ AdminAt(a, "enqueue")
  /\ job' = Add(job, admin[a].d, admin[a].k)
  /\ admin' = [admin EXCEPT ![a] = Idle]
  /\ UNCHANGED <<row, outbox, lock, tx, route, run, overrun, faults, clicks>>

\* The queue reports an error; the job may be there all the same.
EnqueueFails(a) ==
  /\ AdminAt(a, "enqueue")
  /\ faults < MaxFaults
  /\ faults' = faults + 1
  /\ job' \in {job, Add(job, admin[a].d, admin[a].k)}
  /\ AdminGoto(a, "undo")
  /\ UNCHANGED <<row, outbox, lock, tx, route, run, overrun, clicks>>

\* What the undoing of a retry still finds waiting.
Undoable(d) == row[d].status = "PENDING"

Undo(a) ==
  LET d == admin[a].d IN
  /\ AdminAt(a, "undo")
  /\ Unlocked(d)
  /\ Opens(a, IF Undoable(d) THEN {d} ELSE {}, "FAILED", {})
  /\ admin' = [admin EXCEPT ![a] = Committing]
  /\ QueueUnchanged
  /\ UNCHANGED <<row, outbox, route, faults, clicks>>

AdminCrash(a) ==
  /\ ~AdminAt(a, "idle")
  /\ faults < MaxFaults
  /\ faults' = faults + 1
  /\ Aborted(a)
  /\ admin' = [admin EXCEPT ![a] = Idle]
  /\ QueueUnchanged
  /\ UNCHANGED <<row, outbox, route, clicks>>

Unrouted == outbox = "UNROUTED" /\ lock = Nobody

\* replayUnroutedN8nEventTx
Replay(a) ==
  /\ AdminAt(a, "idle")
  /\ Unrouted
  /\ PlanSome
  /\ UNCHANGED <<lock, tx, route, run, admin, overrun, clicks>>

\* skipUnroutedN8nEvent.  The row that records the decision is SKIPPED from the
\* start, has no route and no job: it is left out.
SkipEvent(a) ==
  /\ AdminAt(a, "idle")
  /\ Unrouted
  /\ outbox' = "SKIPPED"
  /\ UNCHANGED <<row, lock, tx, job, route, run, admin, overrun, faults, clicks>>

-----------------------------------------------------------------------------
(* The system *)

Works(w) ==
  \/ \E d \in Deliveries, k \in Keys : Take(w, d, k)
  \/ Prepare(w) \/ Skip(w) \/ Answer(w) \/ NoAnswer(w)
  \/ Release(w) \/ GiveUp(w) \/ Commit(w)

Finishes(a) ==
  Reset(a) \/ AdminCommit(a) \/ EnqueueRetry(a) \/ Undo(a)

Decides(a) ==
  \/ \E d \in Deliveries : RetryClick(a, d) \/ Acknowledge(a, d)
  \/ \E D \in {{d} : d \in Deliveries} \cup {Deliveries} : ChangeRoutes(a, D)
  \/ Replay(a) \/ SkipEvent(a)

Recovers(d) ==
  \/ LeaseEnds(d) \/ Forget(d) \/ Reconcile(d)
  \/ \E k \in Keys : Stalled(d, k)

Next ==
  \/ Plan
  \/ \E d \in Deliveries : Recovers(d) \/ LeaseOverrun(d) \/ \E k \in Keys : DiesEarly(d, k)
  \/ \E w \in Workers : Works(w) \/ StatementFails(w) \/ Crash(w)
  \/ \E a \in Admins : Decides(a) \/ Finishes(a) \/ EnqueueFails(a) \/ AdminCrash(a)

Spec == Init /\ [][Next]_vars

\* Workers and open requests go on; leases and finished jobs run out; the
\* reconciliation and the check for stalled jobs come round.
Fairness ==
  /\ WF_vars(\E w \in Workers : Works(w))
  /\ WF_vars(\E a \in Admins : Finishes(a))
  /\ WF_vars(\E d \in Deliveries : LeaseEnds(d))
  /\ WF_vars(\E d \in Deliveries : Forget(d))
  /\ WF_vars(\E d \in Deliveries : Reconcile(d))
  /\ WF_vars(\E d \in Deliveries, k \in Keys : Stalled(d, k))

FairSpec == Spec /\ Fairness

-----------------------------------------------------------------------------
(* Properties *)

\* Every variable keeps its type.
TypeOK ==
  /\ row \in [Deliveries -> [status  : Active \cup Terminal \cup {"none"},
                             holder  : Workers \cup {Nobody},
                             expired : BOOLEAN]]
  /\ outbox \in Active \cup Terminal \cup {"none", "UNROUTED", "PARTIAL"}
  /\ lock \in Actors \cup {Nobody}
  /\ \A a \in Actors : tx[a].rows \subseteq Deliveries /\ tx[a].routes \subseteq Deliveries
  /\ \A d \in Deliveries, k \in Keys :
       /\ job[d][k].made \in 0..(MaxAttempts - 1)
       /\ job[d][k].state \in {"none", "waiting", "active", "stalled", "done"}
  /\ route \subseteq Deliveries /\ overrun \subseteq Deliveries
  /\ \A d \in Deliveries : row[d].status = "PROCESSING" <=> row[d].holder # Nobody

\* The status of the event is what its deliveries add up to, whatever
\* transactions conclude them at one time (deliveries.ts:193-196).
OutboxTold ==
  Planned => outbox = AggregateStatus([d \in Deliveries |-> row[d].status])

\* Two executions call the webhook for one delivery only after the lease of the
\* first ran out under it (n8n-deliver.ts:41-44).
Sends(w, d) == At(w, "send") /\ run[w].d = d

OneSender ==
  \A d \in Deliveries \ overrun : Cardinality({w \in Workers : Sends(w, d)}) <= 1

\* The commit of a retry that reset delivery d, by its id alone (deliveries.ts).
RetryCommits(d) ==
  \E a \in Admins :
    lock = a /\ lock' = Nobody /\ d \in tx[a].rows /\ tx[a].to = "PENDING"

\* A lease that has not run out is ended by its holder alone: who is late leaves
\* the delivery to the one that took it over (n8n-deliver.ts).
OnlyHolderConcludes(d) ==
  (/\ row[d].status = "PROCESSING" /\ ~row[d].expired
   /\ row'[d].status # "PROCESSING")
  => \/ \E w \in Workers : run'[w] # run[w] /\ row[d].holder = w
     \/ RetryCommits(d)

\* A delivery that was accepted, or given up by decision, is not opened again.
FinalStays(d) ==
  row[d].status \in {"DELIVERED", "SKIPPED"} =>
    row'[d].status = row[d].status \/ RetryCommits(d)

\* Of all that happens to deliveries, only the commit of a retry's reset takes one
\* out of the hands of a live holder or back from its end: late executions, the
\* reconciliation, acknowledgements, changes of routes and undone retries never do
\* (n8n-deliver.ts, deliveries.ts).
ConclusionsHold == [][\A d \in Deliveries : OnlyHolderConcludes(d) /\ FinalStays(d)]_vars

\* Every delivery is concluded: no crash, failed statement, lost job or job key
\* that is still remembered leaves it waiting for ever.
EveryDeliveryEnds ==
  \A d \in Deliveries : row[d].status \in Active ~> row[d].status \in Terminal
===============================================================================
