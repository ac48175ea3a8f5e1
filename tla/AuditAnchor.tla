---------------------------- MODULE AuditAnchor ----------------------------
(***************************************************************************)
(* The rolling anchors of one tenant: overlapping runs of the job in       *)
(* apps/worker/src/jobs/audit-anchor.ts take the lease of                  *)
(* packages/evidence/src/anchor-lease.ts, ask the time stamp authority for *)
(* a token over the tip of the audit chain and insert it                   *)
(* (EvidenceService.anchorLatest).  Every await is a step of its own.      *)
(*                                                                         *)
(* Rows are numbered in commit order.  An anchor cites its predecessor by  *)
(* its place in the chain (0 = genesis), which stands for the hash of the  *)
(* predecessor's token: tokens differ, so two anchors with the same `prev' *)
(* are two successors of one anchor.  Waiting times are kept as the time   *)
(* left (lease, retry, interval); `now' only orders attempts and stops at  *)
(* MaxTime.                                                                *)
(***************************************************************************)
EXTENDS Integers, Sequences

CONSTANTS Runs,        \* job runs that may overlap
          Leaseless,   \* those of an older release that know no lease
          Modes,       \* what timestampPortFor may give: "rfc3161", and "local"
                       \* where the authority cannot be resolved (a fault)
          MaxRows,     \* audit rows written
          TTL,         \* lease duration (30 s)
          Timeout,     \* longest time between two confirmations (TSA: 10 s)
          Prompt,      \* TRUE: no run exceeds Timeout
          MinInterval, \* minimum distance of two anchors
          MaxDelay,    \* longest backoff
          MaxTime,     \* bound of the clock that orders attempts
          MaxFaults    \* bound: crashes, refusals and database errors together

ASSUME AnchorAssumption ==
  /\ Leaseless \subseteq Runs
  /\ Modes \subseteq {"rfc3161", "local"}
  /\ {MaxRows, MaxTime, MaxFaults, MinInterval} \subseteq Nat
  /\ {TTL, Timeout, MaxDelay} \subseteq Nat \ {0}
  /\ Prompt \in BOOLEAN

ASSUME NoRunIsNobody == "nobody" \notin Runs

VARIABLES rows,      \* committed audit rows 1 .. rows
          urgent,    \* those with an immediate action (invoice, GwG)
          anchors,   \* audit_anchor in order of id
          lease,     \* audit_anchor_lease: holder and time left (0 = expired)
          status,    \* tenant_setting audit_anchor_status
          retryIn,   \* time until status.nextRetryAt
          interval,  \* time until the last anchor is older than the minimum
          now, run,
          faults,    \* crashes, refusals and errors so far
          refusals   \* those of the authority

vars == <<rows, urgent, anchors, lease, status, retryIn, interval, now, run,
          faults, refusals>>

Smaller(a, b) == IF a < b THEN a ELSE b
Less(a, b)    == IF a > b THEN a - b ELSE 0

Top(i)  == IF i = 0 THEN 0 ELSE anchors[i].top
LastTop == Top(Len(anchors))

Idle == [pc |-> "idle", at |-> 0, prior |-> [anchored |-> 0, failures |-> 0],
         seen |-> 0, from |-> 0, top |-> 0, outcome |-> "none", waited |-> 0]

\* The stages between two confirmations of the lease
UnderLease == {"claimed", "tip", "pending", "asking", "answered", "inserting"}
Pcs == UnderLease \union {"idle", "picked", "begun", "ready", "writing", "settling", "releasing"}
Outcomes == {"none", "anchored", "other", "local", "tsa-failed", "failed"}

Init ==
  /\ rows = 0 /\ urgent = {} /\ anchors = <<>>
  /\ lease = [holder |-> "nobody", left |-> 0]
  /\ status = [state |-> "none", at |-> 0, anchored |-> 0, failures |-> 0]
  /\ retryIn = 0 /\ interval = 0 /\ now = 0
  /\ run = [r \in Runs |-> Idle]
  /\ faults = 0 /\ refusals = 0

harm   == <<faults, refusals>>
chain  == <<rows, urgent, anchors, interval>>
told   == <<status, retryIn>>

Goto(r, pc)      == run' = [run EXCEPT ![r].pc = pc]
Finish(r)        == run' = [run EXCEPT ![r] = Idle]
\* What settle still needs of the attempt; the rest goes out of scope
Settled(r, what) ==
  run' = [run EXCEPT ![r] = [Idle EXCEPT !.pc = "settling", !.outcome = what, !.at = run[r].at,
            !.prior = run[r].prior, !.top = IF what = "anchored" THEN run[r].top ELSE 0]]
Holds(r)         == lease.holder = r /\ lease.left > 0

(* The audit log grows; writers never wait for an anchor. *)
WriteRow ==
  /\ rows < MaxRows
  /\ rows' = rows + 1
  /\ \E u \in SUBSET {rows + 1} : urgent' = urgent \union u
  /\ UNCHANGED <<anchors, lease, told, interval, now, run, harm>>

(* tenantsDueForAnchoring: rows are pending, no backoff, and one of them is *)
(* urgent, or there is no anchor yet, or the last one is old enough.        *)
Due ==
  /\ rows > LastTop
  /\ retryIn = 0
  /\ \/ \E u \in urgent : u > LastTop
     \/ anchors = <<>>
     \/ interval = 0

Pick(r) ==
  /\ run[r].pc = "idle" /\ Due
  /\ Goto(r, "picked")
  /\ UNCHANGED <<chain, lease, told, now, harm>>

(* anchorTenant: the attempt is dated, then the stored status is read, then *)
(* the time stamp port is chosen.                                           *)
Begin(r) ==
  /\ run[r].pc = "picked"
  /\ run' = [run EXCEPT ![r].pc = "begun", ![r].at = now]
  /\ UNCHANGED <<chain, lease, told, now, harm>>

ReadStatus(r) ==
  /\ run[r].pc = "begun"
  /\ \E mode \in Modes :
       /\ mode = "local" => faults < MaxFaults
       /\ faults' = IF mode = "local" THEN faults + 1 ELSE faults
       /\ run' = [run EXCEPT
            ![r].prior   = [anchored |-> status.anchored, failures |-> status.failures],
            ![r].outcome = IF mode = "local" THEN "local" ELSE "none",
            ![r].pc      = CASE mode = "local" -> "settling"
                             [] mode = "rfc3161" /\ r \in Leaseless -> "claimed"
                             [] OTHER -> "ready"]
  /\ UNCHANGED <<chain, lease, told, now, refusals>>

\* Variants of the definitions, each with a bug that code could have, are named
\* after them and used by no run of the specification itself.
ClaimAlways(r) ==
  /\ run[r].pc = "ready"
  /\ lease' = [holder |-> r, left |-> TTL] /\ Goto(r, "claimed")
  /\ UNCHANGED <<chain, told, now, harm>>

ClaimOnlyReleased(r) ==
  /\ run[r].pc = "ready"
  /\ IF lease.holder = "nobody"
     THEN lease' = [holder |-> r, left |-> TTL] /\ Goto(r, "claimed")
     ELSE Finish(r) /\ UNCHANGED lease
  /\ UNCHANGED <<chain, told, now, harm>>

(* claimAnchorLease: a row of one's own, or the takeover of an expired one. *)
Claim(r) ==
  /\ run[r].pc = "ready"
  /\ IF lease.left = 0
     THEN /\ lease' = [holder |-> r, left |-> TTL]
          /\ Goto(r, "claimed")
     ELSE Finish(r) /\ UNCHANGED lease
  /\ UNCHANGED <<chain, told, now, harm>>

ReadTip(r) ==
  /\ run[r].pc = "claimed"
  /\ run' = [run EXCEPT ![r].pc = "tip", ![r].seen = Len(anchors)]
  /\ UNCHANGED <<chain, lease, told, now, harm>>

ReadPendingFromLast(r) ==
  /\ run[r].pc = "tip"
  /\ IF rows > Top(run[r].seen)
     THEN run' = [run EXCEPT ![r].pc = "pending",
                             ![r].from = Top(run[r].seen), ![r].top = rows]
     ELSE Settled(r, "other")
  /\ UNCHANGED <<chain, lease, told, now, harm>>

ReadPending(r) ==
  /\ run[r].pc = "tip"
  /\ IF rows > Top(run[r].seen)
     THEN run' = [run EXCEPT ![r].pc = "pending",
                             ![r].from = Top(run[r].seen) + 1, ![r].top = rows]
     ELSE Settled(r, "other")
  /\ UNCHANGED <<chain, lease, told, now, harm>>

ConfirmedOnTop(r, from, to) ==
  /\ run[r].pc = from
  /\ IF r \in Leaseless \/ Holds(r)
     THEN /\ run' = [run EXCEPT ![r].pc = to, ![r].waited = 0]
          /\ lease' = IF r \in Leaseless THEN lease ELSE [lease EXCEPT !.left = @ + TTL]
     ELSE Settled(r, "other") /\ UNCHANGED lease
  /\ UNCHANGED <<chain, told, now, harm>>

(* lease.confirm: before the request and again after the answer: the lease  *)
(* runs from now on.  A run without a lease asks nobody.                    *)
Confirmed(r, from, to) ==
  /\ run[r].pc = from
  /\ IF r \in Leaseless \/ Holds(r)
     THEN /\ run' = [run EXCEPT ![r].pc = to, ![r].waited = 0]
          /\ lease' = IF r \in Leaseless THEN lease ELSE [lease EXCEPT !.left = TTL]
     ELSE Settled(r, "other") /\ UNCHANGED lease
  /\ UNCHANGED <<chain, told, now, harm>>

Ask(r)     == Confirmed(r, "pending", "asking")
Confirm(r) == Confirmed(r, "answered", "inserting")

(* stampAndVerify: an answer that verifies, or a TsaAnchorError.            *)
Answer(r) ==
  /\ run[r].pc = "asking"
  /\ Goto(r, "answered")
  /\ UNCHANGED <<chain, lease, told, now, harm>>

Refuse(r) ==
  /\ run[r].pc = "asking"
  /\ faults < MaxFaults
  /\ faults' = faults + 1 /\ refusals' = refusals + 1
  /\ Settled(r, "tsa-failed")
  /\ UNCHANGED <<chain, lease, told, now>>

(* The conditional INSERT.  Its WHERE looks at one snapshot ...             *)
MayInsert(r) ==
  /\ LastTop = Top(run[r].seen)
  /\ \A i \in 1 .. Len(anchors) : anchors[i].top # run[r].top
  /\ r \in Leaseless \/ Holds(r)

Evaluate(r) ==
  /\ run[r].pc = "inserting"
  /\ IF MayInsert(r) THEN Goto(r, "writing") ELSE Settled(r, "other")
  /\ UNCHANGED <<chain, lease, told, now, harm>>

(* ... and the unique indexes on the predecessor's hash and on the tip      *)
(* decide at the write (ON CONFLICT DO NOTHING).                            *)
Unique(r) ==
  \A i \in 1 .. Len(anchors) : anchors[i].prev # run[r].seen /\ anchors[i].top # run[r].top

Inserted(r) ==
  IF Unique(r)
  THEN /\ anchors' = Append(anchors, [from |-> run[r].from, top |-> run[r].top,
                                      prev |-> run[r].seen])
       /\ interval' = MinInterval
  ELSE UNCHANGED <<anchors, interval>>

WriteAsDone(r) ==
  /\ run[r].pc = "writing"
  /\ Inserted(r)
  /\ Settled(r, "anchored")
  /\ UNCHANGED <<rows, urgent, lease, told, now, harm>>

Write(r) ==
  /\ run[r].pc = "writing"
  /\ Inserted(r)
  /\ Settled(r, IF Unique(r) THEN "anchored" ELSE "other")
  /\ UNCHANGED <<rows, urgent, lease, told, now, harm>>

(* BASE_RETRY_MS * 2 ^ (failures - 1), capped; counted from the attempt.    *)
Delay(failures) == Smaller(2 ^ (Smaller(failures, 7) - 1), MaxDelay)

(* successStatus, delayedStatus, localOnlyStatus; the last two inherit what *)
(* was read before the lease.                                               *)
StatusOf(r) ==
  CASE run[r].outcome = "anchored" ->
         [state |-> "ANCHORED", at |-> run[r].at, anchored |-> run[r].top, failures |-> 0]
    [] run[r].outcome = "tsa-failed" ->
         [state |-> "DELAYED", at |-> run[r].at, anchored |-> run[r].prior.anchored,
          failures |-> run[r].prior.failures + 1]
    [] OTHER ->
         [state |-> "LOCAL_ONLY", at |-> run[r].at, anchored |-> run[r].prior.anchored,
          failures |-> 0]

RetryOf(r) ==
  CASE run[r].outcome = "anchored"   -> 0
    [] run[r].outcome = "tsa-failed" ->
         Less(Delay(run[r].prior.failures + 1), now - run[r].at)
    [] OTHER -> Less(1, now - run[r].at)

(* persistStatus: only an attempt begun at least as late may replace it.    *)
NotOlder(r) == status.at <= run[r].at

(* persistAttempt, still under the lease; then the lease is released.       *)
AfterSettle(r) ==
  run' = [run EXCEPT ![r] = IF run[r].outcome = "local" \/ r \in Leaseless
                             THEN Idle ELSE [Idle EXCEPT !.pc = "releasing"]]

Settle(r) ==
  /\ run[r].pc = "settling"
  /\ AfterSettle(r)
  /\ IF run[r].outcome \in {"anchored", "tsa-failed", "local"} /\ NotOlder(r)
     THEN status' = StatusOf(r) /\ retryIn' = RetryOf(r)
     ELSE UNCHANGED told
  /\ UNCHANGED <<chain, lease, now, harm>>

Release(r) ==
  /\ run[r].pc = "releasing"
  /\ lease' = IF lease.holder = r THEN [holder |-> "nobody", left |-> 0] ELSE lease
  /\ Finish(r)
  /\ UNCHANGED <<chain, told, now, harm>>

(* A database or pool error at any await: before the lease the run ends,    *)
(* under it nothing is settled and the lease is released, a failed release  *)
(* leaves the row.  The insert may have been committed all the same.        *)
DbError(r) ==
  /\ faults < MaxFaults
  /\ faults' = faults + 1
  /\ run[r].pc \notin {"idle", "picked", "asking"}
  /\ IF run[r].pc \in {"begun", "ready", "releasing"} THEN Finish(r)
     ELSE IF run[r].pc = "settling" THEN AfterSettle(r) ELSE Settled(r, "failed")
  /\ \/ UNCHANGED <<anchors, interval>>
     \/ run[r].pc = "writing" /\ Inserted(r)
  /\ UNCHANGED <<rows, urgent, lease, told, now, refusals>>

(* The worker dies; its lease stays until it expires.                       *)
Crash(r) ==
  /\ faults < MaxFaults
  /\ run[r].pc # "idle"
  /\ faults' = faults + 1
  /\ Finish(r)
  /\ UNCHANGED <<chain, lease, told, now, refusals>>

Tick ==
  /\ Prompt => \A r \in Runs : run[r].pc \in UnderLease => run[r].waited < Timeout
  /\ now' = Smaller(now + 1, MaxTime)
  /\ lease' = [lease EXCEPT !.left = Less(@, 1)]
  /\ retryIn' = Less(retryIn, 1) /\ interval' = Less(interval, 1)
  /\ run' = [r \in Runs |->
               IF run[r].pc \in UnderLease
               THEN [run[r] EXCEPT !.waited = Smaller(@ + 1, Timeout)] ELSE run[r]]
  /\ UNCHANGED <<rows, urgent, anchors, status, harm>>

Step(r) == \/ Begin(r) \/ ReadStatus(r) \/ Claim(r) \/ ReadTip(r) \/ ReadPending(r)
           \/ Ask(r) \/ Answer(r) \/ Confirm(r) \/ Evaluate(r) \/ Write(r)
           \/ Settle(r) \/ Release(r)

Next == \/ WriteRow \/ Tick
        \/ \E r \in Runs : Pick(r) \/ Step(r) \/ Refuse(r) \/ DbError(r) \/ Crash(r)

Spec == Init /\ [][Next]_vars

(* The scheduler ticks every two seconds and every step of a live run is    *)
(* taken; the authority answers (its refusals are bounded); time passes.    *)
Fairness == /\ WF_vars(Tick)
            /\ \A r \in Runs : WF_vars(Pick(r)) /\ WF_vars(Step(r))

FairSpec == Spec /\ Fairness

-----------------------------------------------------------------------------
TypeOK ==
  /\ rows \in 0 .. MaxRows /\ urgent \subseteq 1 .. MaxRows
  /\ anchors \in Seq([from : Nat, top : Nat, prev : Nat])
  /\ lease \in [holder : Runs \union {"nobody"}, left : 0 .. TTL]
  /\ status \in [state : {"none", "ANCHORED", "DELAYED", "LOCAL_ONLY"},
                 at : 0 .. MaxTime, anchored : Nat, failures : Nat]
  /\ retryIn \in Nat /\ interval \in 0 .. MinInterval
  /\ now \in 0 .. MaxTime
  /\ run \in [Runs -> [pc : Pcs, at : 0 .. MaxTime,
                       prior : [anchored : Nat, failures : Nat],
                       seen : Nat, from : Nat, top : Nat,
                       outcome : Outcomes, waited : 0 .. Timeout]]
  /\ faults \in 0 .. MaxFaults /\ refusals \in 0 .. faults

(* As long as no request outlives the lease, two runs never ask for a token *)
(* over the same tip at the same time.                                      *)
OneRequestPerTip ==
  \A r, s \in Runs \ Leaseless :
    run[r].pc = "asking" /\ run[s].pc = "asking" /\ run[r].top = run[s].top => r = s

(* Whatever run stored it last, the status an administrator sees never      *)
(* claims an anchor that is not in the chain, and never blames the          *)
(* authority for more failures than it refused requests, although both are  *)
(* computed from a status read before the lease was taken.                  *)
StatusTruthful ==
  /\ status.anchored \in {0} \union {anchors[i].top : i \in 1 .. Len(anchors)}
  /\ status.failures <= refusals

(* Every committed row is anchored in the end, after crashes, refusals,     *)
(* database errors and leases left behind.                                  *)
EventuallyAnchored == \A n \in 1 .. MaxRows : rows >= n ~> LastTop >= n

(* However runs overlap, with or without leases, the external chain has no  *)
(* branch and no gap: every anchor cites the one before it, starts at the   *)
(* first row that one left open and ends at a committed row; once made it   *)
(* stays as it is.                                                          *)
Abstract == INSTANCE AnchorChain WITH
              ranges <- [i \in 1 .. Len(anchors) |->
                           [first |-> anchors[i].from, last |-> anchors[i].top,
                            cites |-> anchors[i].prev]]

RefinesChain == Abstract!Spec
=============================================================================
