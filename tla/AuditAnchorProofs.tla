-------------------------- MODULE AuditAnchorProofs --------------------------
(***************************************************************************)
(* Proofs about the rolling anchors for any number of rows and runs, any   *)
(* durations, and runs with or without a lease: types, the refinement of   *)
(* AnchorChain, and the truth of the stored status; and that prompt runs   *)
(* ask one at a time.                                                      *)
(***************************************************************************)
EXTENDS AuditAnchorInvariant, SequenceTheorems, TLAPS

RunRec ==
  [pc : Pcs, at : 0 .. MaxTime, prior : [anchored : Nat, failures : Nat],
   seen : Nat, from : Nat, top : Nat, outcome : Outcomes, waited : 0 .. Timeout]

Anchors == [from : Nat, top : Nat, prev : Nat]
Statuses == [state : {"none", "ANCHORED", "DELAYED", "LOCAL_ONLY"},
             at : 0 .. MaxTime, anchored : Nat, failures : Nat]
Leases == [holder : Runs \union {"nobody"}, left : 0 .. TTL]

LEMMA NumbersHold ==
  /\ MaxRows \in Nat /\ MaxTime \in Nat /\ MaxFaults \in Nat /\ MinInterval \in Nat
  /\ TTL \in Nat \ {0} /\ Timeout \in Nat \ {0} /\ MaxDelay \in Nat \ {0}
  /\ Leaseless \subseteq Runs /\ Modes \subseteq {"rfc3161", "local"}
  BY AnchorAssumption

LEMMA TypeFacts ==
  ASSUME TypeOK
  PROVE  /\ rows \in 0 .. MaxRows /\ rows \in Nat /\ urgent \subseteq 1 .. MaxRows
         /\ anchors \in Seq(Anchors) /\ Len(anchors) \in Nat
         /\ \A i \in 1 .. Len(anchors) : anchors[i] \in Anchors
         /\ \A i \in 0 .. Len(anchors) : Top(i) \in Nat
         /\ lease \in Leases /\ status \in Statuses /\ retryIn \in Nat
         /\ interval \in 0 .. MinInterval /\ now \in 0 .. MaxTime /\ now \in Nat
         /\ run \in [Runs -> RunRec] /\ \A r \in Runs : run[r] \in RunRec
         /\ faults \in 0 .. MaxFaults /\ faults \in Nat
         /\ refusals \in 0 .. faults /\ refusals \in Nat
  <1>1. /\ rows \in 0 .. MaxRows /\ urgent \subseteq 1 .. MaxRows
        /\ anchors \in Seq(Anchors)
        /\ lease \in Leases /\ status \in Statuses /\ retryIn \in Nat
        /\ interval \in 0 .. MinInterval /\ now \in 0 .. MaxTime
        /\ run \in [Runs -> RunRec]
        /\ faults \in 0 .. MaxFaults /\ refusals \in 0 .. faults
    BY DEF TypeOK, Anchors, RunRec, Statuses, Leases
  <1>2. /\ Len(anchors) \in Nat
        /\ \A i \in 1 .. Len(anchors) : anchors[i] \in Anchors
    BY <1>1, LenProperties, ElementOfSeq
  <1>3. \A i \in 0 .. Len(anchors) : Top(i) \in Nat
    BY <1>2 DEF Top, Anchors
  <1>4. rows \in Nat /\ now \in Nat /\ faults \in Nat /\ refusals \in Nat
    BY <1>1, NumbersHold
  <1> QED
    BY <1>1, <1>2, <1>3, <1>4

LEMMA TypeNext ==
  ASSUME rows' \in 0 .. MaxRows, urgent' \subseteq 1 .. MaxRows,
         anchors' \in Seq(Anchors), lease' \in Leases, status' \in Statuses,
         retryIn' \in Nat, interval' \in 0 .. MinInterval, now' \in 0 .. MaxTime,
         run' \in [Runs -> RunRec], faults' \in 0 .. MaxFaults,
         refusals' \in 0 .. faults'
  PROVE  TypeOK'
  BY DEF TypeOK, Anchors, RunRec, Statuses, Leases

LEMMA PowerOfTwo ==
  ASSUME NEW k \in 0 .. 6 PROVE 2 ^ k \in Nat
  <1>1. /\ 2 ^ 0 \in Nat /\ 2 ^ 1 \in Nat /\ 2 ^ 2 \in Nat /\ 2 ^ 3 \in Nat
        /\ 2 ^ 4 \in Nat /\ 2 ^ 5 \in Nat /\ 2 ^ 6 \in Nat
    OBVIOUS
  <1>2. k = 0 \/ k = 1 \/ k = 2 \/ k = 3 \/ k = 4 \/ k = 5 \/ k = 6
    OBVIOUS
  <1> QED
    BY <1>1, <1>2

(* The backoff is at most MaxDelay, however many failures there were.       *)
LEMMA DelayType ==
  ASSUME NEW n \in Nat PROVE Delay(n + 1) \in 0 .. MaxDelay
  <1> DEFINE k == Smaller(n + 1, 7) - 1
  <1>1. k \in 0 .. 6
    BY DEF Smaller
  <1> HIDE DEF k
  <1>2. 2 ^ k \in Nat
    BY <1>1, PowerOfTwo
  <1>3. Delay(n + 1) = Smaller(2 ^ k, MaxDelay)
    BY DEF Delay, k
  <1> QED
    BY <1>2, <1>3, NumbersHold DEF Smaller

LEMMA LessType ==
  ASSUME NEW a \in Nat, NEW b \in Nat PROVE Less(a, b) \in 0 .. a
  BY DEF Less

-----------------------------------------------------------------------------
(* Types *)

LEMMA TypeInit == Init => TypeOK
  BY NumbersHold, EmptySeq DEF Init, TypeOK, Idle, Pcs, Outcomes

(* What a run may become keeps its type.                                    *)
LEMMA IdleType == Idle \in RunRec
  BY NumbersHold DEF Idle, RunRec, Pcs, Outcomes

LEMMA SettledType ==
  ASSUME TypeOK, NEW r \in Runs, NEW what \in Outcomes, Settled(r, what)
  PROVE  run' \in [Runs -> RunRec]
  <1>1. run \in [Runs -> RunRec] /\ run[r] \in RunRec
    BY TypeFacts
  <1> DEFINE new == [Idle EXCEPT !.pc = "settling", !.outcome = what, !.at = run[r].at,
            !.prior = run[r].prior, !.top = IF what = "anchored" THEN run[r].top ELSE 0]
  <1>2. new \in RunRec
    BY <1>1, IdleType DEF RunRec, Pcs
  <1>3. run' = [run EXCEPT ![r] = new]
    BY DEF Settled
  <1> HIDE DEF new
  <1> QED
    BY <1>1, <1>2, <1>3

LEMMA GotoType ==
  ASSUME TypeOK, NEW r \in Runs, NEW pc \in Pcs, Goto(r, pc)
  PROVE  run' \in [Runs -> RunRec]
  <1>1. run \in [Runs -> RunRec] /\ run[r] \in RunRec
    BY TypeFacts
  <1> QED
    BY <1>1 DEF Goto, RunRec

LEMMA FinishType ==
  ASSUME TypeOK, NEW r \in Runs, Finish(r)
  PROVE  run' \in [Runs -> RunRec]
  BY TypeFacts, IdleType DEF Finish

LEMMA AfterSettleType ==
  ASSUME TypeOK, NEW r \in Runs, AfterSettle(r)
  PROVE  run' \in [Runs -> RunRec]
  <1>1. [Idle EXCEPT !.pc = "releasing"] \in RunRec
    BY IdleType DEF RunRec, Pcs
  <1> QED
    BY <1>1, TypeFacts, IdleType DEF AfterSettle

LEMMA InsertedType ==
  ASSUME TypeOK, NEW r \in Runs, Inserted(r)
  PROVE  anchors' \in Seq(Anchors) /\ interval' \in 0 .. MinInterval
  <1> DEFINE new == [from |-> run[r].from, top |-> run[r].top, prev |-> run[r].seen]
  <1>1. run[r] \in RunRec /\ anchors \in Seq(Anchors) /\ interval \in 0 .. MinInterval
    BY TypeFacts DEF TypeOK
  <1>2. new \in Anchors
    BY <1>1 DEF RunRec, Anchors
  <1>3. CASE Unique(r)
    <2>1. anchors' = Append(anchors, new) /\ interval' = MinInterval
      BY <1>3 DEF Inserted
    <2> HIDE DEF new
    <2> QED
      BY <1>1, <1>2, <2>1, AppendProperties, NumbersHold
  <1>4. CASE ~ Unique(r)
    BY <1>1, <1>4 DEF Inserted
  <1> QED
    BY <1>3, <1>4

(* A step that moves a run only.                                            *)
LEMMA TypeFrame ==
  ASSUME TypeOK, run' \in [Runs -> RunRec],
         UNCHANGED <<chain, lease, told, now, harm>>
  PROVE  TypeOK'
  BY TypeFacts, TypeNext DEF chain, told, harm

LEMMA TypeClaim ==
  ASSUME TypeOK, NEW r \in Runs, Claim(r) PROVE TypeOK'
  <1>1. run' \in [Runs -> RunRec]
    BY GotoType, FinishType DEF Claim, Pcs, UnderLease
  <1>2. lease' \in Leases
    BY TypeFacts, NumbersHold DEF Claim, Leases
  <1> QED
    BY <1>1, <1>2, TypeFacts, TypeNext DEF Claim, chain, told, harm

LEMMA TypeConfirmed ==
  ASSUME TypeOK, NEW r \in Runs, NEW from \in Pcs, NEW to \in Pcs, Confirmed(r, from, to)
  PROVE  TypeOK'
  <1>1. run' \in [Runs -> RunRec]
    <2>1. CASE r \in Leaseless \/ Holds(r)
      <3>1. run' = [run EXCEPT ![r].pc = to, ![r].waited = 0]
        BY <2>1 DEF Confirmed
      <3>2. run \in [Runs -> RunRec] /\ run[r] \in RunRec /\ 0 \in 0 .. Timeout
        BY TypeFacts, NumbersHold
      <3> QED
        BY <3>1, <3>2 DEF RunRec
    <2>2. CASE ~ (r \in Leaseless \/ Holds(r))
      BY <2>2, SettledType DEF Confirmed, Outcomes
    <2> QED
      BY <2>1, <2>2
  <1>2. lease' \in Leases
    <2>1. lease \in Leases /\ TTL \in 0 .. TTL
      BY TypeFacts, NumbersHold
    <2>2. lease' = lease \/ lease' = [lease EXCEPT !.left = TTL]
      BY DEF Confirmed
    <2> QED
      BY <2>1, <2>2 DEF Leases
  <1> QED
    BY <1>1, <1>2, TypeFacts, TypeNext DEF Confirmed, chain, told, harm

LEMMA TypeReadStatus ==
  ASSUME TypeOK, NEW r \in Runs, ReadStatus(r) PROVE TypeOK'
  <1>0. run \in [Runs -> RunRec] /\ run[r] \in RunRec /\ status \in Statuses
    BY TypeFacts
  <1>1. PICK mode \in Modes :
          /\ mode = "local" => faults < MaxFaults
          /\ faults' = IF mode = "local" THEN faults + 1 ELSE faults
          /\ run' = [run EXCEPT
               ![r].prior   = [anchored |-> status.anchored, failures |-> status.failures],
               ![r].outcome = IF mode = "local" THEN "local" ELSE "none",
               ![r].pc      = CASE mode = "local" -> "settling"
                                [] mode = "rfc3161" /\ r \in Leaseless -> "claimed"
                                [] OTHER -> "ready"]
    BY DEF ReadStatus
  <1> DEFINE outcome == IF mode = "local" THEN "local" ELSE "none"
             pc == CASE mode = "local" -> "settling"
                     [] mode = "rfc3161" /\ r \in Leaseless -> "claimed"
                     [] OTHER -> "ready"
             prior == [anchored |-> status.anchored, failures |-> status.failures]
  <1>2. outcome \in Outcomes /\ pc \in Pcs /\ prior \in [anchored : Nat, failures : Nat]
    <2>1. mode = "local" \/ mode = "rfc3161"
      BY NumbersHold
    <2> QED
      BY <1>0, <2>1 DEF Outcomes, Pcs, UnderLease, Statuses
  <1>3. run' = [run EXCEPT ![r].prior = prior, ![r].outcome = outcome, ![r].pc = pc]
    BY <1>1
  <1> HIDE DEF outcome, pc, prior
  <1>4. run' \in [Runs -> RunRec]
    BY <1>0, <1>2, <1>3 DEF RunRec
  <1>5. faults' \in 0 .. MaxFaults /\ refusals \in 0 .. faults'
    BY <1>1, TypeFacts, NumbersHold
  <1> QED
    BY <1>4, <1>5, TypeFacts, TypeNext DEF ReadStatus, chain, told

LEMMA TypeSettle ==
  ASSUME TypeOK, NEW r \in Runs, Settle(r) PROVE TypeOK'
  <1>0. run[r] \in RunRec /\ status \in Statuses /\ now \in Nat
    BY TypeFacts
  <1>1. run' \in [Runs -> RunRec]
    BY AfterSettleType DEF Settle
  <1>2. StatusOf(r) \in Statuses
    BY <1>0 DEF StatusOf, RunRec, Statuses
  <1>3. RetryOf(r) \in Nat
    <2>1. \A a \in Nat : Less(a, now - run[r].at) \in Nat
      BY <1>0 DEF Less, RunRec
    <2>2. Delay(run[r].prior.failures + 1) \in Nat
      BY <1>0, DelayType DEF RunRec
    <2> QED
      BY <2>1, <2>2 DEF RetryOf
  <1>4. status' \in Statuses /\ retryIn' \in Nat
    BY <1>2, <1>3, TypeFacts DEF Settle, told
  <1> QED
    BY <1>1, <1>4, TypeFacts, TypeNext DEF Settle, chain, harm

LEMMA TypeTick ==
  ASSUME TypeOK, Tick PROVE TypeOK'
  <1>1. now' \in 0 .. MaxTime
    BY TypeFacts, NumbersHold DEF Tick, Smaller
  <1>2. lease' \in Leases
    <2>1. lease \in Leases
      BY TypeFacts
    <2>2. Less(lease.left, 1) \in 0 .. TTL
      BY <2>1, NumbersHold DEF Leases, Less
    <2>3. lease' = [lease EXCEPT !.left = Less(lease.left, 1)]
      BY DEF Tick
    <2> QED
      BY <2>1, <2>2, <2>3 DEF Leases
  <1>3. retryIn' \in Nat /\ interval' \in 0 .. MinInterval
    BY TypeFacts, NumbersHold, SMTT(30) DEF Tick, Less
  <1>4. run' \in [Runs -> RunRec]
    <2>1. \A r \in Runs : run'[r] = IF run[r].pc \in UnderLease
               THEN [run[r] EXCEPT !.waited = Smaller(@ + 1, Timeout)] ELSE run[r]
      BY DEF Tick
    <2>2. \A r \in Runs : run[r] \in RunRec
      BY TypeFacts
    <2>3. \A r \in Runs : Smaller(run[r].waited + 1, Timeout) \in 0 .. Timeout
      <3> SUFFICES ASSUME NEW r \in Runs
                   PROVE  Smaller(run[r].waited + 1, Timeout) \in 0 .. Timeout
        OBVIOUS
      <3>1. run[r].waited \in 0 .. Timeout /\ Timeout \in Nat
        BY <2>2, NumbersHold DEF RunRec
      <3> QED
        BY <3>1 DEF Smaller
    <2>4. \A r \in Runs : run'[r] \in RunRec
      BY <2>1, <2>2, <2>3, ZenonT(40) DEF RunRec
    <2> QED
      BY <2>4 DEF Tick
  <1> QED
    BY <1>1, <1>2, <1>3, <1>4, TypeFacts, TypeNext DEF Tick, harm

LEMMA TypeInserting ==
  ASSUME TypeOK, NEW r \in Runs, Write(r) \/ DbError(r) PROVE TypeOK'
  <1>1. CASE Write(r)
    <2>1. run' \in [Runs -> RunRec]
      BY <1>1, SettledType DEF Write, Outcomes
    <2> QED
      BY <1>1, <2>1, InsertedType, TypeFacts, TypeNext DEF Write, told, harm
  <1>2. CASE DbError(r)
    <2>1. run' \in [Runs -> RunRec]
      BY <1>2, SettledType, FinishType, AfterSettleType DEF DbError, Outcomes
    <2>2. anchors' \in Seq(Anchors) /\ interval' \in 0 .. MinInterval
      BY <1>2, InsertedType, TypeFacts DEF DbError
    <2>3. faults' \in 0 .. MaxFaults /\ refusals' \in 0 .. faults'
      BY <1>2, TypeFacts, NumbersHold DEF DbError
    <2> QED
      BY <1>2, <2>1, <2>2, <2>3, TypeFacts, TypeNext DEF DbError, told
  <1> QED
    BY <1>1, <1>2

LEMMA TypeStep ==
  ASSUME TypeOK, ReadIsPast, [Next]_vars PROVE TypeOK'
  <1>1. CASE WriteRow
    <2>0. rows \in 0 .. MaxRows /\ urgent \subseteq 1 .. MaxRows /\ rows < MaxRows
      BY <1>1, TypeFacts DEF WriteRow
    <2>1. rows' \in 0 .. MaxRows /\ rows' \in 1 .. MaxRows /\ rows' = rows + 1
      BY <1>1, <2>0, NumbersHold DEF WriteRow
    <2>2. urgent' \subseteq 1 .. MaxRows
      <3>1. PICK u \in SUBSET {rows'} : urgent' = urgent \union u
        BY <1>1, <2>1 DEF WriteRow
      <3> QED
        BY <3>1, <2>0, <2>1
    <2> QED
      BY <1>1, <2>1, <2>2, TypeFacts, TypeNext DEF WriteRow, told, harm
  <1>2. CASE Tick
    BY <1>2, TypeTick
  <1>3. ASSUME NEW r \in Runs, Pick(r) \/ Answer(r) PROVE TypeOK'
    BY <1>3, GotoType, TypeFrame DEF Pick, Answer, Pcs, UnderLease
  <1>4. ASSUME NEW r \in Runs, Begin(r) PROVE TypeOK'
    <2>1. run' \in [Runs -> RunRec]
      BY <1>4, TypeFacts, ZenonT(40) DEF Begin, RunRec, Pcs
    <2> QED
      BY <1>4, <2>1, TypeFrame DEF Begin
  <1>5. ASSUME NEW r \in Runs, ReadTip(r) PROVE TypeOK'
    <2>1. run' \in [Runs -> RunRec]
      <3>1. run \in [Runs -> RunRec] /\ run[r] \in RunRec /\ Len(anchors) \in Nat
        BY TypeFacts
      <3>2. run' = [run EXCEPT ![r].pc = "tip", ![r].seen = Len(anchors)]
        BY <1>5 DEF ReadTip
      <3>3. "tip" \in Pcs
        BY DEF Pcs, UnderLease
      <3> QED
        BY <3>1, <3>2, <3>3 DEF RunRec
    <2> QED
      BY <1>5, <2>1, TypeFrame DEF ReadTip
  <1>6. ASSUME NEW r \in Runs, ReadPending(r) PROVE TypeOK'
    <2>1. run[r].seen \in 0 .. Len(anchors)
      BY <1>6, TypeFacts DEF ReadPending, ReadIsPast, Past, Seeing, RunRec
    <2>2. Top(run[r].seen) \in Nat
      BY <2>1, TypeFacts
    <2>3. CASE rows > Top(run[r].seen)
      <3>1. run' \in [Runs -> RunRec]
        <4>1. run \in [Runs -> RunRec] /\ run[r] \in RunRec /\ rows \in Nat
          BY TypeFacts
        <4>2. run' = [run EXCEPT ![r].pc = "pending",
                                 ![r].from = Top(run[r].seen) + 1, ![r].top = rows]
          BY <1>6, <2>3 DEF ReadPending
        <4>3. "pending" \in Pcs /\ Top(run[r].seen) + 1 \in Nat
          BY <2>2 DEF Pcs, UnderLease
        <4> QED
          BY <4>1, <4>2, <4>3 DEF RunRec
      <3> QED
        BY <1>6, <3>1, TypeFrame DEF ReadPending
    <2>4. CASE ~ (rows > Top(run[r].seen))
      BY <1>6, <2>4, SettledType, TypeFrame DEF ReadPending, Outcomes
    <2> QED
      BY <2>3, <2>4
  <1>7. ASSUME NEW r \in Runs, Ask(r) \/ Confirm(r) PROVE TypeOK'
    BY <1>7, TypeConfirmed DEF Ask, Confirm, Pcs, UnderLease
  <1>8. ASSUME NEW r \in Runs, Refuse(r) PROVE TypeOK'
    <2>1. run' \in [Runs -> RunRec]
      BY <1>8, SettledType DEF Refuse, Outcomes
    <2>2. faults' \in 0 .. MaxFaults /\ refusals' \in 0 .. faults'
      BY <1>8, TypeFacts, NumbersHold, SMTT(30) DEF Refuse
    <2> QED
      BY <1>8, <2>1, <2>2, TypeFacts, TypeNext DEF Refuse, chain, told
  <1>9. ASSUME NEW r \in Runs, Evaluate(r) PROVE TypeOK'
    BY <1>9, GotoType, SettledType, TypeFrame DEF Evaluate, Pcs, Outcomes
  <1>10. ASSUME NEW r \in Runs, Release(r) PROVE TypeOK'
    <2>1. lease' \in Leases
      BY <1>10, TypeFacts, NumbersHold DEF Release, Leases
    <2> QED
      BY <1>10, <2>1, FinishType, TypeFacts, TypeNext DEF Release, chain, told, harm
  <1>11. ASSUME NEW r \in Runs, Crash(r) PROVE TypeOK'
    <2>1. faults' \in 0 .. MaxFaults /\ refusals \in 0 .. faults'
      BY <1>11, TypeFacts, NumbersHold DEF Crash
    <2> QED
      BY <1>11, <2>1, FinishType, TypeFacts, TypeNext DEF Crash, chain, told
  <1>12. CASE UNCHANGED vars
    BY <1>12, TypeFacts, TypeNext DEF vars
  <1> QED
    BY <1>1, <1>2, <1>3, <1>4, <1>5, <1>6, <1>7, <1>8, <1>9, <1>10, <1>11, <1>12,
       TypeClaim, TypeReadStatus, TypeSettle, TypeInserting DEF Next, Step

-----------------------------------------------------------------------------
(* The chain *)

New(r) == [from |-> run[r].from, top |-> run[r].top, prev |-> run[r].seen]

(* The unique index on the predecessor lets only a run in whose view of the *)
(* chain nothing is missing insert.                                         *)
LEMMA UniqueIsLast ==
  ASSUME ChainInv, NEW r \in Runs, run[r].pc \in Seeing, Unique(r)
  PROVE  run[r].seen = Len(anchors)
  <1>1. run[r].seen \in Nat /\ run[r].seen <= Len(anchors) /\ Len(anchors) \in Nat
    BY TypeFacts DEF ChainInv, ReadIsPast, Past, RunRec
  <1>2. ASSUME run[r].seen < Len(anchors) PROVE FALSE
    <2> DEFINE i == run[r].seen + 1
    <2>1. i \in 1 .. Len(anchors) /\ i - 1 = run[r].seen
      BY <1>1, <1>2
    <2>2. anchors[i].prev = run[r].seen
      BY <2>1 DEF ChainInv, Linked
    <2> QED
      BY <2>1, <2>2 DEF Unique
  <1> QED
    BY <1>1, <1>2

(* What a step may do to the chain and to the rows below it.                *)
LEMMA ChainSteps ==
  ASSUME [Next]_vars
  PROVE  /\ \/ UNCHANGED anchors
            \/ \E r \in Runs : /\ run[r].pc = "writing" /\ Unique(r)
                               /\ anchors' = Append(anchors, New(r))
                               /\ rows' = rows
         /\ rows' = rows \/ (WriteRow /\ UNCHANGED anchors)
  <1>1. CASE WriteRow
    BY <1>1 DEF WriteRow
  <1>2. ASSUME NEW r \in Runs, Write(r) \/ DbError(r)
        PROVE  /\ \/ UNCHANGED anchors
                  \/ /\ run[r].pc = "writing" /\ Unique(r)
                     /\ anchors' = Append(anchors, New(r))
               /\ rows' = rows
    BY <1>2 DEF Write, DbError, Inserted, New
  <1>3. CASE Tick \/ UNCHANGED vars
    BY <1>3 DEF Tick, vars
  <1>4. ASSUME NEW r \in Runs,
               \/ Pick(r) \/ Begin(r) \/ ReadStatus(r) \/ Claim(r) \/ ReadTip(r)
               \/ ReadPending(r) \/ Ask(r) \/ Answer(r)
        PROVE  UNCHANGED <<anchors, rows>>
    BY <1>4 DEF Pick, Begin, ReadStatus, Claim, ReadTip, ReadPending, Ask, Answer,
                Confirmed, chain
  <1>5. ASSUME NEW r \in Runs,
               \/ Confirm(r) \/ Evaluate(r) \/ Settle(r) \/ Release(r)
               \/ Refuse(r) \/ Crash(r)
        PROVE  UNCHANGED <<anchors, rows>>
    BY <1>5 DEF Confirm, Confirmed, Evaluate, Settle, Release, Refuse, Crash, chain
  <1> QED
    BY <1>1, <1>2, <1>3, <1>4, <1>5 DEF Next, Step

(* The part of the chain there was stays as it is.                          *)
LEMMA Appended ==
  ASSUME ChainInv, NEW r \in Runs, anchors' = Append(anchors, New(r))
  PROVE  /\ Len(anchors') = Len(anchors) + 1
         /\ \A i \in 1 .. Len(anchors) : anchors'[i] = anchors[i]
         /\ anchors'[Len(anchors) + 1] = New(r)
         /\ \A i \in 0 .. Len(anchors) : Top(i)' = Top(i)
  <1>1. anchors \in Seq(Anchors) /\ run[r] \in RunRec /\ Len(anchors) \in Nat
    BY TypeFacts DEF ChainInv
  <1>2. New(r) \in Anchors
    BY <1>1 DEF New, RunRec, Anchors
  <1>3. /\ Len(anchors') = Len(anchors) + 1
        /\ \A i \in 1 .. Len(anchors) : anchors'[i] = anchors[i]
        /\ anchors'[Len(anchors) + 1] = New(r)
    BY <1>1, <1>2, AppendProperties
  <1>4. \A i \in 0 .. Len(anchors) : Top(i)' = Top(i)
    BY <1>1, <1>3 DEF Top
  <1> QED
    BY <1>3, <1>4

LEMMA ChainGrows ==
  ASSUME ChainInv, [Next]_vars
  PROVE  /\ Len(anchors') \in Nat /\ Len(anchors) <= Len(anchors')
         /\ \A i \in 1 .. Len(anchors) : anchors'[i] = anchors[i]
         /\ \A i \in 0 .. Len(anchors) : Top(i)' = Top(i)
         /\ rows' \in Nat /\ rows <= rows'
  <1>1. Len(anchors) \in Nat /\ rows \in Nat
    BY TypeFacts DEF ChainInv
  <1>2. rows' = rows \/ rows' = rows + 1
    BY ChainSteps DEF WriteRow
  <1>3. CASE UNCHANGED anchors
    BY <1>1, <1>2, <1>3 DEF Top
  <1>4. CASE \E r \in Runs : anchors' = Append(anchors, New(r))
    BY <1>1, <1>2, <1>4, Appended
  <1> QED
    BY <1>3, <1>4, ChainSteps

(* An anchor is made of what its run had read, and that was the last one.   *)
LEMMA LinkedStep ==
  ASSUME ChainInv, [Next]_vars
  PROVE  Linked'
  <1>1. /\ Len(anchors) \in Nat /\ rows \in Nat /\ \A i \in 0 .. Len(anchors) : Top(i) \in Nat
        /\ \A i \in 1 .. Len(anchors) : anchors[i] \in Anchors
    BY TypeFacts DEF ChainInv
  <1>2. /\ \A i \in 1 .. Len(anchors) : anchors'[i] = anchors[i]
        /\ \A i \in 0 .. Len(anchors) : Top(i)' = Top(i)
        /\ rows' \in Nat /\ rows <= rows'
    BY ChainGrows
  <1>3. \A i \in 1 .. Len(anchors) :
          /\ anchors'[i].prev = i - 1
          /\ anchors'[i].from = Top(i - 1)' + 1
          /\ Top(i - 1)' < anchors'[i].top /\ anchors'[i].top <= rows'
    <2> SUFFICES ASSUME NEW i \in 1 .. Len(anchors)
                 PROVE  /\ anchors'[i].prev = i - 1
                        /\ anchors'[i].from = Top(i - 1)' + 1
                        /\ Top(i - 1)' < anchors'[i].top /\ anchors'[i].top <= rows'
      OBVIOUS
    <2>1. i - 1 \in 0 .. Len(anchors) /\ anchors[i].top \in Nat
      BY <1>1 DEF Anchors
    <2>2. /\ anchors[i].prev = i - 1 /\ anchors[i].from = Top(i - 1) + 1
          /\ Top(i - 1) < anchors[i].top /\ anchors[i].top <= rows
      BY DEF ChainInv, Linked
    <2>3. anchors'[i] = anchors[i] /\ Top(i - 1)' = Top(i - 1)
      BY <1>2, <2>1
    <2> QED
      BY <1>1, <1>2, <2>1, <2>2, <2>3
  <1>4. CASE UNCHANGED anchors
    BY <1>3, <1>4 DEF Linked
  <1>5. ASSUME NEW r \in Runs, run[r].pc = "writing", Unique(r),
               anchors' = Append(anchors, New(r)), rows' = rows
        PROVE  Linked'
    <2>1. /\ run[r].seen = Len(anchors) /\ run[r].from = Top(Len(anchors)) + 1
          /\ Top(Len(anchors)) < run[r].top /\ run[r].top <= rows
      BY <1>5, UniqueIsLast DEF ChainInv, ReadIsPast, Past, Seeing, Ranged
    <2>0. PICK n \in Nat : n = Len(anchors) + 1
      BY <1>1
    <2>2. Len(anchors') = n /\ anchors'[n] = New(r) /\ Top(n - 1)' = Top(Len(anchors))
      <3>1. \A i \in 0 .. Len(anchors) : Top(i)' = Top(i)
        BY <1>5, Appended
      <3>2. Len(anchors') = n /\ anchors'[n] = New(r)
        BY <1>5, <2>0, Appended
      <3>3. n - 1 \in 0 .. Len(anchors) /\ n - 1 = Len(anchors)
        BY <1>1, <2>0
      <3> QED
        BY <3>1, <3>2, <3>3
    <2>3. /\ anchors'[n].prev = n - 1
          /\ anchors'[n].from = Top(n - 1)' + 1
          /\ Top(n - 1)' < anchors'[n].top /\ anchors'[n].top <= rows'
      BY <1>1, <1>5, <2>0, <2>1, <2>2 DEF New
    <2>4. \A i \in 1 .. n : i \in 1 .. Len(anchors) \/ i = n
      BY <1>1, <2>0
    <2> QED
      BY <1>3, <2>2, <2>3, <2>4 DEF Linked
  <1> QED
    BY <1>4, <1>5, ChainSteps

(* What a run has read stays in the chain while it looks at it no more.     *)
LEMMA PastKept ==
  ASSUME ChainInv, [Next]_vars, NEW r \in Runs,
         run'[r].seen = run[r].seen,
         run'[r].pc \in Seeing => run[r].pc \in Seeing,
         run'[r].pc \in Ranged =>
           /\ run[r].pc \in Ranged
           /\ run'[r].from = run[r].from /\ run'[r].top = run[r].top
  PROVE  Past(r)'
  <1>1. /\ Len(anchors) \in Nat /\ rows \in Nat /\ run[r].seen \in Nat /\ run[r].top \in Nat
    BY TypeFacts DEF ChainInv, RunRec
  <1>2. /\ Len(anchors') \in Nat /\ Len(anchors) <= Len(anchors')
        /\ \A i \in 0 .. Len(anchors) : Top(i)' = Top(i)
        /\ rows' \in Nat /\ rows <= rows'
    BY ChainGrows
  <1>3. run'[r].pc \in Seeing => run'[r].seen <= Len(anchors')
    BY <1>1, <1>2 DEF ChainInv, ReadIsPast, Past
  <1>4. PICK s \in Nat : s = run[r].seen
    BY <1>1
  <1>5. ASSUME run'[r].pc \in Ranged
        PROVE  /\ run'[r].from = Top(s)' + 1
               /\ Top(s)' < run'[r].top /\ run'[r].top <= rows'
    <2>1. s <= Len(anchors) /\ run[r].from = Top(s) + 1
          /\ Top(s) < run[r].top /\ run[r].top <= rows
      BY <1>4, <1>5 DEF ChainInv, ReadIsPast, Past, Ranged, Seeing
    <2>2. Top(s)' = Top(s)
      BY <1>1, <1>2, <1>4, <2>1
    <2> QED
      BY <1>1, <1>2, <1>5, <2>1, <2>2
  <1> QED
    BY <1>3, <1>4, <1>5 DEF Past, Top

LEMMA PastUnread ==
  ASSUME NEW r \in Runs, run'[r].pc \notin Seeing PROVE Past(r)'
  BY DEF Past, Seeing

(* A step of one run leaves the others alone.                               *)
LEMMA OthersKept ==
  ASSUME TypeOK, NEW r \in Runs, NEW s \in Runs, s # r,
         Pick(r) \/ Step(r) \/ Refuse(r) \/ DbError(r) \/ Crash(r)
  PROVE  run'[s] = run[s]
  <1>0. run \in [Runs -> RunRec]
    BY TypeFacts
  <1>1. CASE Pick(r) \/ Begin(r) \/ ReadStatus(r) \/ Claim(r) \/ ReadTip(r) \/ Answer(r)
             \/ Release(r) \/ Crash(r)
    BY <1>0, <1>1 DEF Pick, Begin, ReadStatus, Claim, ReadTip, Answer, Release, Crash,
                      Goto, Finish
  <1>2. CASE ReadPending(r) \/ Ask(r) \/ Confirm(r) \/ Evaluate(r) \/ Write(r) \/ Refuse(r)
    BY <1>0, <1>2 DEF ReadPending, Ask, Confirm, Confirmed, Evaluate, Write, Refuse,
                      Goto, Settled
  <1>3. CASE Settle(r) \/ DbError(r)
    BY <1>0, <1>3 DEF Settle, DbError, AfterSettle, Finish, Settled
  <1> QED
    BY <1>1, <1>2, <1>3 DEF Step

(* Where a run may be when it no longer, or not yet, looks at the chain.    *)
LEMMA Unread ==
  /\ \A pc \in {"idle", "picked", "begun", "ready", "claimed", "settling", "releasing"} :
       pc \notin Seeing
  /\ Ranged \subseteq Seeing
  BY DEF Seeing, Ranged

(* What a run that ends, or settles an attempt, still knows.                *)
LEMMA SettledRun ==
  ASSUME TypeOK, NEW r \in Runs, NEW what, Settled(r, what)
  PROVE  /\ run'[r].pc = "settling" /\ run'[r].outcome = what /\ run'[r].prior = run[r].prior
         /\ what = "anchored" => run'[r].top = run[r].top
  BY TypeFacts DEF Settled, Idle

LEMMA EndedRun ==
  ASSUME TypeOK, NEW r \in Runs, Finish(r) \/ AfterSettle(r)
  PROVE  /\ run'[r].pc \in {"idle", "releasing"} /\ run'[r].outcome = "none"
         /\ run'[r].prior = [anchored |-> 0, failures |-> 0]
  BY TypeFacts DEF Finish, AfterSettle, Idle

LEMMA PastOwn ==
  ASSUME ChainInv, [Next]_vars, NEW r \in Runs,
         Pick(r) \/ Step(r) \/ Refuse(r) \/ DbError(r) \/ Crash(r)
  PROVE  Past(r)'
  <1>0. run \in [Runs -> RunRec] /\ run[r] \in RunRec /\ TypeOK
    BY TypeFacts DEF ChainInv
  <1>1. CASE Pick(r) \/ Begin(r) \/ Claim(r) \/ Release(r) \/ Crash(r)
    <2>1. run'[r].pc \in {"idle", "picked", "begun", "claimed"}
      BY <1>0, <1>1 DEF Pick, Begin, Claim, Release, Crash, Goto, Finish, RunRec, Idle
    <2> QED
      BY <2>1, PastUnread, Unread
  <1>2. CASE ReadStatus(r)
    <2>1. run'[r].pc \in {"settling", "claimed", "ready"}
      BY <1>0, <1>2 DEF ReadStatus, RunRec
    <2> QED
      BY <2>1, PastUnread, Unread
  <1>3. CASE Settle(r) \/ DbError(r) \/ Refuse(r) \/ Write(r)
    <2>1. run'[r].pc \in {"idle", "releasing", "settling"}
      <3>1. (\E what : Settled(r, what)) \/ Finish(r) \/ AfterSettle(r)
        BY <1>3 DEF Settle, DbError, Refuse, Write
      <3> QED
        BY <1>0, <3>1, SettledRun, EndedRun
    <2> QED
      BY <2>1, PastUnread, Unread
  <1>4. CASE ReadTip(r)
    <2>1. run'[r].pc = "tip" /\ run'[r].seen = Len(anchors) /\ anchors' = anchors
      BY <1>0, <1>4 DEF ReadTip, RunRec, chain
    <2>2. Len(anchors) \in Nat /\ "tip" \notin Ranged
      BY <1>0, TypeFacts DEF Ranged
    <2> QED
      BY <2>1, <2>2 DEF Past
  <1>5. CASE ReadPending(r)
    <2>0. UNCHANGED <<anchors, rows>> /\ "tip" \in Seeing /\ run[r].pc = "tip"
      BY <1>5 DEF ReadPending, chain, Seeing
    <2>1. run[r].seen \in 0 .. Len(anchors) /\ Top(run[r].seen) \in Nat /\ rows \in Nat
      <3>1. run[r].seen \in Nat /\ Len(anchors) \in Nat /\ rows \in Nat
        BY <1>0, TypeFacts DEF RunRec
      <3>2. run[r].seen <= Len(anchors)
        BY <2>0 DEF ChainInv, ReadIsPast, Past
      <3> QED
        BY <1>0, <3>1, <3>2, TypeFacts
    <2>2. CASE rows > Top(run[r].seen)
      <3>1. run' = [run EXCEPT ![r].pc = "pending",
                               ![r].from = Top(run[r].seen) + 1, ![r].top = rows]
        BY <1>5, <2>2 DEF ReadPending
      <3>2. /\ run'[r].from = Top(run[r].seen) + 1 /\ run'[r].top = rows
            /\ run'[r].seen = run[r].seen
        BY <1>0, <3>1 DEF RunRec
      <3> QED
        BY <2>0, <2>1, <2>2, <3>2 DEF Past, Top
    <2>3. CASE ~ (rows > Top(run[r].seen))
      <3>1. run'[r].pc = "settling"
        BY <1>0, <1>5, <2>3, SettledRun DEF ReadPending
      <3> QED
        BY <3>1, PastUnread, Unread
    <2> QED
      BY <2>2, <2>3
  <1>6. CASE Ask(r) \/ Confirm(r) \/ Answer(r) \/ Evaluate(r)
    <2>1. CASE run'[r].pc = "settling"
      BY <2>1, PastUnread, Unread
    <2>2. CASE run'[r].pc # "settling"
      <3>1. run[r].pc \in Ranged
        BY <1>6 DEF Ask, Confirm, Confirmed, Answer, Evaluate, Ranged
      <3>2. CASE Ask(r) \/ Confirm(r)
        <4>1. PICK to \in {"asking", "inserting"} :
                run' = [run EXCEPT ![r].pc = to, ![r].waited = 0]
          BY <1>0, <2>2, <3>2, ZenonT(40) DEF Ask, Confirm, Confirmed, Settled, Idle
        <4>2. /\ run'[r].seen = run[r].seen /\ run'[r].from = run[r].from
              /\ run'[r].top = run[r].top
          BY <1>0, <4>1 DEF RunRec
        <4> QED
          BY <3>1, <4>2, PastKept, Unread
      <3>3. CASE Answer(r) \/ Evaluate(r)
        <4>1. PICK to \in {"answered", "writing"} : run' = [run EXCEPT ![r].pc = to]
          BY <1>0, <2>2, <3>3, ZenonT(40) DEF Answer, Evaluate, Goto, Settled, Idle
        <4>2. /\ run'[r].seen = run[r].seen /\ run'[r].from = run[r].from
              /\ run'[r].top = run[r].top
          BY <1>0, <4>1 DEF RunRec
        <4> QED
          BY <3>1, <4>2, PastKept, Unread
      <3> QED
        BY <1>6, <3>2, <3>3
    <2> QED
      BY <2>1, <2>2
  <1> QED
    BY <1>1, <1>2, <1>3, <1>4, <1>5, <1>6 DEF Step

LEMMA PastStep ==
  ASSUME ChainInv, [Next]_vars PROVE ReadIsPast'
  <1> SUFFICES ASSUME NEW s \in Runs PROVE Past(s)'
    BY DEF ReadIsPast
  <1>1. CASE WriteRow \/ UNCHANGED vars
    BY <1>1, PastKept DEF WriteRow, vars
  <1>2. CASE Tick
    <2>1. run[s] \in RunRec
      BY TypeFacts DEF ChainInv
    <2>2. /\ run'[s].pc = run[s].pc /\ run'[s].seen = run[s].seen
          /\ run'[s].from = run[s].from /\ run'[s].top = run[s].top
      BY <1>2, <2>1 DEF Tick, RunRec
    <2> QED
      BY <2>2, PastKept
  <1>3. ASSUME NEW r \in Runs, Pick(r) \/ Step(r) \/ Refuse(r) \/ DbError(r) \/ Crash(r)
        PROVE  Past(s)'
    <2>1. CASE s = r
      BY <1>3, <2>1, PastOwn
    <2>2. CASE s # r
      <3>1. run'[s] = run[s]
        BY <1>3, <2>2, OthersKept DEF ChainInv
      <3> QED
        BY <3>1, PastKept
    <2> QED
      BY <2>1, <2>2
  <1> QED
    BY <1>1, <1>2, <1>3 DEF Next

LEMMA ChainInit == Init => ChainInv
  <1>1. ASSUME Init PROVE Linked /\ ReadIsPast
    BY <1>1, EmptySeq DEF Init, Linked, ReadIsPast, Past, Idle, Seeing, Ranged
  <1> QED
    BY <1>1, TypeInit DEF ChainInv

LEMMA ChainStep == ChainInv /\ [Next]_vars => ChainInv'
  BY TypeStep, LinkedStep, PastStep DEF ChainInv

(* Every variable keeps its type, the backoff and the run's copies of what  *)
(* it read included, for runs that overlap in any way.                      *)
THEOREM TypeCorrect == Spec => []TypeOK
  <1>1. ChainInv => TypeOK
    BY DEF ChainInv
  <1> QED
    BY ChainInit, ChainStep, <1>1, PTL DEF Spec

-----------------------------------------------------------------------------
(* The chain refines AnchorChain                                            *)

Ranges == [i \in 1 .. Len(anchors) |->
             [first |-> anchors[i].from, last |-> anchors[i].top, cites |-> anchors[i].prev]]

Spans == [first : Nat, last : Nat, cites : Nat]

LEMMA ImageType ==
  ASSUME NEW s \in Seq(Anchors),
         NEW image, image = [i \in 1 .. Len(s) |->
                               [first |-> s[i].from, last |-> s[i].top, cites |-> s[i].prev]]
  PROVE  image \in Seq(Spans) /\ Len(image) = Len(s)
  <1>1. Len(s) \in Nat /\ \A i \in 1 .. Len(s) : s[i] \in Anchors
    BY LenProperties, ElementOfSeq
  <1>2. image \in [1 .. Len(s) -> Spans]
    BY <1>1 DEF Anchors, Spans
  <1>3. image \in Seq(Spans)
    BY <1>1, <1>2, SeqDef
  <1>4. Len(image) \in Nat /\ 1 .. Len(image) = 1 .. Len(s)
    BY <1>2, <1>3, LenProperties
  <1> QED
    BY <1>1, <1>3, <1>4

LEMMA RangesFacts ==
  ASSUME ChainInv
  PROVE  /\ Ranges \in Seq(Spans) /\ Len(Ranges) = Len(anchors)
         /\ Abstract!LastTop = Top(Len(anchors))
  <1>1. /\ Len(anchors) \in Nat /\ \A i \in 1 .. Len(anchors) : anchors[i] \in Anchors
        /\ anchors \in Seq(Anchors)
    BY TypeFacts DEF ChainInv
  <1>2. Ranges \in Seq(Spans) /\ Len(Ranges) = Len(anchors)
    BY <1>1, ImageType DEF Ranges
  <1>3. Abstract!LastTop = IF Ranges = <<>> THEN 0 ELSE Ranges[Len(Ranges)].last
    BY DEF Abstract!LastTop, Ranges
  <1>4. CASE Len(anchors) = 0
    <2>1. Ranges = <<>>
      BY <1>2, <1>4, EmptySeq
    <2> QED
      BY <1>3, <1>4, <2>1 DEF Top
  <1>5. CASE Len(anchors) # 0
    <2>1. Ranges # <<>>
      BY <1>2, <1>5, EmptySeq
    <2>2. Ranges[Len(Ranges)].last = anchors[Len(anchors)].top
      BY <1>1, <1>2, <1>5 DEF Ranges
    <2>3. Top(Len(anchors)) = anchors[Len(anchors)].top
      BY <1>5 DEF Top
    <2>4. Abstract!LastTop = Ranges[Len(Ranges)].last
      BY <1>3, <2>1
    <2> QED
      BY <1>2, <2>2, <2>3, <2>4
  <1> QED
    BY <1>2, <1>4, <1>5

(* The row a run inserts extends the promised chain by one anchor.          *)
LEMMA InsertIsAnchor ==
  ASSUME ChainInv, ChainInv', NEW r \in Runs, run[r].pc = "writing", Unique(r),
         anchors' = Append(anchors, New(r)), rows' = rows
  PROVE  Abstract!Anchor
  <1>1. /\ Len(anchors) \in Nat /\ rows \in Nat /\ run[r] \in RunRec
        /\ Top(Len(anchors)) \in Nat
    BY TypeFacts DEF ChainInv
  <1>2. /\ run[r].seen = Len(anchors) /\ run[r].from = Top(Len(anchors)) + 1
        /\ Top(Len(anchors)) < run[r].top /\ run[r].top <= rows
    BY UniqueIsLast DEF ChainInv, ReadIsPast, Past, Seeing, Ranged
  <1> DEFINE span == [first |-> Top(Len(anchors)) + 1, last |-> run[r].top,
                      cites |-> Len(anchors)]
  <1>3. Ranges' = Append(Ranges, span)
    <2>1. span \in Spans
      BY <1>1 DEF Spans, RunRec
    <2>2. /\ Ranges \in Seq(Spans) /\ Len(Ranges) = Len(anchors)
          /\ Ranges' \in Seq(Spans) /\ Len(Ranges') = Len(anchors')
      <3>1. Ranges' \in Seq(Spans) /\ Len(Ranges') = Len(anchors')
        <4>1. anchors' \in Seq(Anchors)
          BY DEF ChainInv, TypeOK, Anchors
        <4> QED
          BY <4>1, ImageType DEF Ranges
      <3> QED
        BY <3>1, RangesFacts
    <2>3. /\ Len(anchors') = Len(anchors) + 1
          /\ \A i \in 1 .. Len(anchors) : anchors'[i] = anchors[i]
          /\ anchors'[Len(anchors) + 1] = New(r)
      BY Appended
    <2>4. ASSUME NEW i \in 1 .. Len(anchors) PROVE Ranges'[i] = Ranges[i]
      BY <1>1, <2>3, <2>4 DEF Ranges
    <2>5. Ranges'[Len(anchors) + 1] = span
      BY <1>1, <1>2, <2>3 DEF Ranges, New
    <2> HIDE DEF span
    <2>6. /\ Append(Ranges, span) \in Seq(Spans)
          /\ Len(Append(Ranges, span)) = Len(anchors) + 1
          /\ \A i \in 1 .. Len(anchors) : Append(Ranges, span)[i] = Ranges[i]
          /\ Append(Ranges, span)[Len(anchors) + 1] = span
      BY <2>1, <2>2, AppendProperties
    <2>7. ASSUME NEW i \in 1 .. Len(Ranges') PROVE Ranges'[i] = Append(Ranges, span)[i]
      <3>1. i \in 1 .. Len(anchors) \/ i = Len(anchors) + 1
        BY <1>1, <2>2, <2>3, <2>7
      <3> QED
        BY <3>1, <2>4, <2>5, <2>6
    <2> QED
      BY <2>2, <2>3, <2>6, <2>7, SeqEqual
  <1>4. Abstract!LastTop = Top(Len(anchors)) /\ Len(Ranges) = Len(anchors)
    BY RangesFacts
  <1>5. run[r].top \in Abstract!LastTop + 1 .. rows
    BY <1>1, <1>2, <1>4 DEF RunRec
  <1> QED
    BY <1>3, <1>4, <1>5 DEF Abstract!Anchor, Ranges

LEMMA StepRefines ==
  ASSUME ChainInv, ChainInv', [Next]_vars
  PROVE  [Abstract!Next]_<<rows, Ranges>>
  <1>1. CASE WriteRow
    BY <1>1 DEF WriteRow, Abstract!Next, Abstract!Append1, Ranges
  <1>2. CASE rows' = rows /\ UNCHANGED anchors
    BY <1>2 DEF Ranges
  <1>3. ASSUME NEW r \in Runs, run[r].pc = "writing", Unique(r),
               anchors' = Append(anchors, New(r)), rows' = rows
        PROVE  Abstract!Next
    BY <1>3, InsertIsAnchor DEF Abstract!Next
  <1> QED
    BY <1>1, <1>2, <1>3, ChainSteps

(* However many runs overlap, with or without a lease, and whatever fails,  *)
(* the anchors form one chain without branch or gap over committed rows,    *)
(* and no anchor changes: the job implements AnchorChain.                   *)
THEOREM ChainRefined == Spec => RefinesChain
  <1>1. Init => Abstract!Init
    BY EmptySeq DEF Init, Abstract!Init
  <1>2. ChainInv /\ ChainInv' /\ [Next]_vars => [Abstract!Next]_<<rows, Ranges>>
    BY StepRefines
  <1> QED
    BY <1>1, <1>2, ChainInit, ChainStep, PTL DEF Spec, RefinesChain, Abstract!Spec, Ranges

-----------------------------------------------------------------------------
(* The status *)

LEMMA StatusInit == Init => StatusInv
  BY EmptySeq DEF Init, StatusInv, StatusTruthful, PriorTruthful, Heeds, Tops, Idle

LEMMA TopsGrow ==
  ASSUME ChainInv, [Next]_vars
  PROVE  /\ 0 \in Tops' /\ Tops \subseteq Tops'
         /\ \A r \in Runs : anchors' = Append(anchors, New(r)) => run[r].top \in Tops'
  <1>1. /\ Len(anchors') \in Nat /\ Len(anchors) \in Nat /\ Len(anchors) <= Len(anchors')
        /\ \A i \in 1 .. Len(anchors) : anchors'[i] = anchors[i]
    BY ChainGrows, TypeFacts DEF ChainInv
  <1>2. ASSUME NEW i \in 1 .. Len(anchors) PROVE anchors[i].top \in Tops'
    <2>1. i \in 1 .. Len(anchors') /\ anchors'[i].top = anchors[i].top
      BY <1>1
    <2> QED
      BY <2>1 DEF Tops
  <1>3. ASSUME NEW r \in Runs, anchors' = Append(anchors, New(r))
        PROVE  run[r].top \in Tops'
    <2>1. Len(anchors') = Len(anchors) + 1 /\ anchors'[Len(anchors) + 1] = New(r)
      BY <1>3, Appended
    <2>2. Len(anchors) + 1 \in 1 .. Len(anchors') /\ New(r).top = run[r].top
      BY <1>1, <2>1 DEF New
    <2> QED
      BY <2>1, <2>2 DEF Tops
  <1> QED
    BY <1>2, <1>3 DEF Tops

LEMMA RefusalsGrow ==
  ASSUME TypeOK, [Next]_vars
  PROVE  refusals' \in Nat /\ refusals <= refusals'
  <1>1. refusals \in Nat
    BY TypeFacts
  <1>2. refusals' = refusals \/ refusals' = refusals + 1
    BY DEF Next, Step, WriteRow, Tick, Pick, Begin, ReadStatus, Claim, ReadTip, ReadPending,
           Ask, Answer, Confirm, Confirmed, Evaluate, Write, Settle, Release, Refuse,
           DbError, Crash, harm, vars
  <1> QED
    BY <1>1, <1>2

(* A run that keeps what it read, or forgets it.                            *)
LEMMA HeedsKept ==
  ASSUME ChainInv, PriorTruthful, [Next]_vars, NEW r \in Runs,
         run'[r].prior = run[r].prior \/ run'[r].prior = [anchored |-> 0, failures |-> 0],
         \/ run'[r].outcome \notin {"anchored", "tsa-failed"}
         \/ run'[r] = run[r]
  PROVE  Heeds(r)'
  <1>1. /\ run[r].prior.anchored \in Tops /\ run[r].prior.failures <= refusals
        /\ run[r].prior.failures \in Nat /\ refusals \in Nat
    BY TypeFacts DEF ChainInv, PriorTruthful, Heeds, RunRec
  <1>2. 0 \in Tops' /\ Tops \subseteq Tops' /\ refusals' \in Nat /\ refusals <= refusals'
    BY TopsGrow, RefusalsGrow DEF ChainInv
  <1>3. run'[r].prior.anchored \in Tops' /\ run'[r].prior.failures <= refusals'
    BY <1>1, <1>2
  <1>4. CASE run'[r].outcome \notin {"anchored", "tsa-failed"}
    BY <1>3, <1>4 DEF Heeds
  <1>5. CASE run'[r] = run[r]
    BY <1>1, <1>2, <1>3, <1>5 DEF Heeds, PriorTruthful
  <1> QED
    BY <1>4, <1>5

LEMMA HeedsOwn ==
  ASSUME ChainInv, StatusInv, [Next]_vars, NEW r \in Runs,
         Pick(r) \/ Step(r) \/ Refuse(r) \/ DbError(r) \/ Crash(r)
  PROVE  Heeds(r)'
  <1>0. /\ TypeOK /\ PriorTruthful /\ run \in [Runs -> RunRec] /\ run[r] \in RunRec
        /\ refusals \in Nat /\ Heeds(r)
    BY TypeFacts DEF ChainInv, StatusInv, PriorTruthful
  <1>1. CASE Pick(r) \/ Begin(r) \/ ReadTip(r) \/ Answer(r)
    <2>1. run[r].pc # "settling"
      BY <1>1 DEF Pick, Begin, ReadTip, Answer
    <2>2. run[r].outcome \notin {"anchored", "tsa-failed"}
      BY <1>0, <2>1 DEF Heeds
    <2>3. run'[r].prior = run[r].prior /\ run'[r].outcome = run[r].outcome
      BY <1>0, <1>1 DEF Pick, Begin, ReadTip, Answer, Goto, RunRec
    <2> QED
      BY <1>0, <2>2, <2>3, HeedsKept
  <1>2. CASE \/ Claim(r) \/ Settle(r) \/ Release(r) \/ Crash(r)
    <2>1. CASE Finish(r) \/ AfterSettle(r)
      <3>1. /\ run'[r].outcome = "none"
            /\ run'[r].prior = [anchored |-> 0, failures |-> 0]
        BY <1>0, <2>1, EndedRun
      <3> QED
        BY <1>0, <3>1, HeedsKept
    <2>2. CASE Claim(r) /\ Goto(r, "claimed")
      <3>1. run[r].outcome \notin {"anchored", "tsa-failed"}
        BY <1>0, <2>2 DEF Heeds, Claim
      <3>2. run'[r].prior = run[r].prior /\ run'[r].outcome = run[r].outcome
        BY <1>0, <2>2 DEF Goto, RunRec
      <3> QED
        BY <1>0, <3>1, <3>2, HeedsKept
    <2> QED
      BY <1>2, <2>1, <2>2 DEF Claim, Settle, Release, Crash
  <1>3. CASE ReadStatus(r)
    <2>1. /\ run'[r].prior = [anchored |-> status.anchored, failures |-> status.failures]
          /\ run'[r].outcome \in {"local", "none"}
      BY <1>0, <1>3 DEF ReadStatus, RunRec
    <2>2. /\ 0 \in Tops' /\ Tops \subseteq Tops' /\ refusals' = refusals
          /\ status.anchored \in Tops /\ status.failures <= refusals
      BY <1>3, TopsGrow DEF StatusInv, StatusTruthful, Tops, ReadStatus
    <2> QED
      BY <2>1, <2>2 DEF Heeds
  <1>4. CASE ReadPending(r) \/ Ask(r) \/ Confirm(r) \/ Evaluate(r)
    <2>1. CASE Settled(r, "other")
      <3>1. run'[r].outcome = "other" /\ run'[r].prior = run[r].prior
        BY <1>0, <2>1, SettledRun
      <3> QED
        BY <1>0, <3>1, HeedsKept
    <2>2. CASE ~ Settled(r, "other")
      <3>1. run[r].outcome \notin {"anchored", "tsa-failed"}
        BY <1>0, <1>4 DEF Heeds, ReadPending, Ask, Confirm, Confirmed, Evaluate
      <3>2. run'[r].prior = run[r].prior /\ run'[r].outcome = run[r].outcome
        BY <1>0, <1>4, <2>2 DEF ReadPending, Ask, Confirm, Confirmed, Evaluate, Goto, RunRec
      <3> QED
        BY <1>0, <3>1, <3>2, HeedsKept
    <2> QED
      BY <2>1, <2>2
  <1>5. CASE Write(r)
    <2>1. CASE Unique(r)
      <3>1. Settled(r, "anchored") /\ anchors' = Append(anchors, New(r))
        BY <1>5, <2>1 DEF Write, Inserted, New
      <3>2. /\ run'[r].pc = "settling" /\ run'[r].outcome = "anchored"
            /\ run'[r].prior = run[r].prior /\ run'[r].top = run[r].top
        BY <1>0, <3>1, SettledRun
      <3>3. run[r].top \in Tops' /\ Tops \subseteq Tops' /\ refusals' = refusals
        BY <1>5, <3>1, TopsGrow DEF Write, harm
      <3> QED
        BY <1>0, <3>2, <3>3 DEF Heeds
    <2>2. CASE ~ Unique(r)
      <3>1. run'[r].outcome = "other" /\ run'[r].prior = run[r].prior
        BY <1>0, <1>5, <2>2, SettledRun DEF Write
      <3> QED
        BY <1>0, <3>1, HeedsKept
    <2> QED
      BY <2>1, <2>2
  <1>6. CASE Refuse(r)
    <2>1. /\ run'[r].pc = "settling" /\ run'[r].outcome = "tsa-failed"
          /\ run'[r].prior = run[r].prior
      BY <1>0, <1>6, SettledRun DEF Refuse
    <2>2. refusals' = refusals + 1 /\ Tops \subseteq Tops' /\ run[r].prior.failures \in Nat
      BY <1>0, <1>6, TopsGrow DEF Refuse, RunRec
    <2> QED
      BY <1>0, <2>1, <2>2 DEF Heeds
  <1>7. CASE DbError(r)
    <2>1. CASE Finish(r) \/ AfterSettle(r)
      <3>1. /\ run'[r].outcome = "none"
            /\ run'[r].prior = [anchored |-> 0, failures |-> 0]
        BY <1>0, <2>1, EndedRun
      <3> QED
        BY <1>0, <3>1, HeedsKept
    <2>2. CASE Settled(r, "failed")
      <3>1. run'[r].outcome = "failed" /\ run'[r].prior = run[r].prior
        BY <1>0, <2>2, SettledRun
      <3> QED
        BY <1>0, <3>1, HeedsKept
    <2> QED
      BY <1>7, <2>1, <2>2 DEF DbError
  <1> QED
    BY <1>1, <1>2, <1>3, <1>4, <1>5, <1>6, <1>7 DEF Step

LEMMA PriorStep ==
  ASSUME ChainInv, StatusInv, [Next]_vars PROVE PriorTruthful'
  <1> SUFFICES ASSUME NEW s \in Runs PROVE Heeds(s)'
    BY DEF PriorTruthful
  <1>0. TypeOK /\ PriorTruthful /\ Heeds(s) /\ run[s] \in RunRec
    BY TypeFacts DEF ChainInv, StatusInv, PriorTruthful
  <1>1. CASE WriteRow \/ UNCHANGED vars
    BY <1>0, <1>1, HeedsKept DEF WriteRow, vars
  <1>2. CASE Tick
    <2>1. /\ run'[s].pc = run[s].pc /\ run'[s].prior = run[s].prior
          /\ run'[s].outcome = run[s].outcome /\ run'[s].top = run[s].top
          /\ refusals' = refusals /\ anchors' = anchors
      BY <1>0, <1>2 DEF Tick, RunRec, harm
    <2> QED
      BY <1>0, <2>1 DEF Heeds, Tops
  <1>3. ASSUME NEW r \in Runs, Pick(r) \/ Step(r) \/ Refuse(r) \/ DbError(r) \/ Crash(r)
        PROVE  Heeds(s)'
    <2>1. CASE s = r
      BY <1>3, <2>1, HeedsOwn
    <2>2. CASE s # r
      BY <1>0, <1>3, <2>2, OthersKept, HeedsKept
    <2> QED
      BY <2>1, <2>2
  <1> QED
    BY <1>1, <1>2, <1>3 DEF Next

(* Only a run that settles changes the status.                              *)
LEMMA StatusSteps ==
  ASSUME [Next]_vars
  PROVE  UNCHANGED status \/ \E r \in Runs : Settle(r) /\ status' = StatusOf(r)
  <1>1. CASE WriteRow \/ Tick \/ UNCHANGED vars
    BY <1>1 DEF WriteRow, Tick, vars, told
  <1>2. ASSUME NEW r \in Runs, Settle(r)
        PROVE  UNCHANGED status \/ status' = StatusOf(r)
    BY <1>2 DEF Settle, told
  <1>3. ASSUME NEW r \in Runs,
               \/ Pick(r) \/ Begin(r) \/ ReadStatus(r) \/ Claim(r) \/ ReadTip(r)
               \/ ReadPending(r) \/ Ask(r) \/ Answer(r)
        PROVE  UNCHANGED status
    BY <1>3 DEF Pick, Begin, ReadStatus, Claim, ReadTip, ReadPending, Ask, Answer,
                Confirmed, told
  <1>4. ASSUME NEW r \in Runs,
               \/ Confirm(r) \/ Evaluate(r) \/ Write(r) \/ Release(r)
               \/ Refuse(r) \/ DbError(r) \/ Crash(r)
        PROVE  UNCHANGED status
    BY <1>4 DEF Confirm, Confirmed, Evaluate, Write, Release, Refuse, DbError, Crash, told
  <1> QED
    BY <1>1, <1>2, <1>3, <1>4 DEF Next, Step

LEMMA StatusStep ==
  ASSUME ChainInv, StatusInv, [Next]_vars PROVE StatusInv'
  <1>0. /\ refusals \in Nat /\ refusals' \in Nat /\ refusals <= refusals'
        /\ Tops \subseteq Tops' /\ status \in Statuses /\ \A r \in Runs : run[r] \in RunRec
    BY TypeFacts, RefusalsGrow, TopsGrow DEF ChainInv
  <1>1. status.anchored \in Tops /\ status.failures <= refusals
    BY DEF StatusInv, StatusTruthful, Tops
  <1>2. status'.anchored \in Tops' /\ status'.failures <= refusals'
    <2>1. CASE UNCHANGED status
      BY <1>0, <1>1, <2>1 DEF Statuses
    <2>2. ASSUME NEW r \in Runs, status' = StatusOf(r)
          PROVE  status'.anchored \in Tops' /\ status'.failures <= refusals'
      <3>1. Heeds(r) /\ run[r].prior.failures \in Nat
        BY <1>0 DEF StatusInv, PriorTruthful, RunRec
      <3>2. StatusOf(r).anchored \in Tops /\ StatusOf(r).failures <= refusals
        <4>1. CASE run[r].outcome = "anchored"
          BY <1>0, <3>1, <4>1 DEF Heeds, StatusOf
        <4>2. CASE run[r].outcome = "tsa-failed"
          BY <1>0, <3>1, <4>2 DEF Heeds, StatusOf
        <4>3. CASE run[r].outcome \notin {"anchored", "tsa-failed"}
          BY <1>0, <3>1, <4>3 DEF Heeds, StatusOf
        <4> QED
          BY <4>1, <4>2, <4>3
      <3>3. StatusOf(r).failures \in Nat
        BY <3>1 DEF StatusOf
      <3> QED
        BY <1>0, <2>2, <3>2, <3>3
    <2> QED
      BY <2>1, <2>2, StatusSteps
  <1>3. StatusTruthful'
    BY <1>2 DEF StatusTruthful, Tops
  <1> QED
    BY <1>3, PriorStep DEF StatusInv

(* Whichever run stores it last, the status names an anchor of the chain,   *)
(* or none, and blames the authority for no more than it refused.           *)
THEOREM StatusIsTrue == Spec => []StatusTruthful
  <1>1. ChainInv /\ StatusInv /\ [Next]_vars => StatusInv'
    BY StatusStep
  <1>2. StatusInv => StatusTruthful
    BY DEF StatusInv
  <1> QED
    BY <1>1, <1>2, ChainInit, ChainStep, StatusInit, PTL DEF Spec

-----------------------------------------------------------------------------
(* One request per tip                                                      *)

(* While a prompt run asks, its lease has time left.                        *)
LEMMA StillLeased ==
  ASSUME TypeOK, Timeout < TTL, NEW r \in Runs \ Leaseless, AsksUnderLease,
         run[r].pc = "asking"
  PROVE  lease.holder = r /\ lease.left \in Nat /\ lease.left > 0
  <1>1. /\ lease.left \in Nat /\ run[r].waited \in 0 .. Timeout
        /\ TTL \in Nat /\ Timeout \in Nat
    BY TypeFacts, NumbersHold DEF Leases, RunRec
  <1>2. lease.holder = r /\ lease.left + run[r].waited >= TTL
    BY DEF AsksUnderLease
  <1> QED
    BY <1>1, <1>2

(* Others leave the lease of a run that asks alone.                         *)
LEMMA LeaseLeft ==
  ASSUME TypeOK, Timeout < TTL, AsksUnderLease,
         NEW r \in Runs, NEW s \in Runs \ Leaseless, s # r, run[s].pc = "asking",
         Pick(r) \/ Step(r) \/ Refuse(r) \/ DbError(r) \/ Crash(r)
  PROVE  lease' = lease
  <1>1. lease.holder = s /\ lease.left > 0 /\ lease.left \in Nat
    BY StillLeased
  <1>2. CASE Claim(r)
    BY <1>1, <1>2 DEF Claim
  <1>3. CASE Ask(r) \/ Confirm(r)
    BY <1>1, <1>3 DEF Ask, Confirm, Confirmed, Holds
  <1>4. CASE Release(r)
    BY <1>1, <1>4 DEF Release
  <1>5. CASE \/ Pick(r) \/ Begin(r) \/ ReadStatus(r) \/ ReadTip(r) \/ ReadPending(r)
             \/ Answer(r) \/ Evaluate(r) \/ Write(r) \/ Settle(r)
             \/ Refuse(r) \/ DbError(r) \/ Crash(r)
    BY <1>5 DEF Pick, Begin, ReadStatus, ReadTip, ReadPending, Answer, Evaluate, Write,
                Settle, Refuse, DbError, Crash
  <1> QED
    BY <1>2, <1>3, <1>4, <1>5 DEF Step

(* A run begins to ask just after it has renewed its lease.                 *)
LEMMA AsksFresh ==
  ASSUME TypeOK, NEW r \in Runs \ Leaseless, run'[r].pc = "asking",
         Pick(r) \/ Step(r) \/ Refuse(r) \/ DbError(r) \/ Crash(r)
  PROVE  lease'.holder = r /\ lease'.left = TTL /\ run'[r].waited = 0
  <1>0. run \in [Runs -> RunRec] /\ run[r] \in RunRec /\ lease \in Leases /\ r \in Runs
    BY TypeFacts
  <1>1. CASE Ask(r)
    <2>1. CASE Holds(r)
      <3>1. run' = [run EXCEPT ![r].pc = "asking", ![r].waited = 0]
        BY <1>1, <2>1 DEF Ask, Confirmed
      <3>2. lease' = [lease EXCEPT !.left = TTL] /\ lease.holder = r
        BY <1>1, <2>1 DEF Ask, Confirmed, Holds
      <3> QED
        BY <1>0, <3>1, <3>2 DEF RunRec, Leases
    <2>2. CASE ~ Holds(r)
      <3>1. run'[r].pc = "settling"
        BY <1>0, <1>1, <2>2, SettledRun DEF Ask, Confirmed
      <3> QED
        BY <3>1
    <2> QED
      BY <2>1, <2>2
  <1>2. CASE Pick(r) \/ Begin(r) \/ Claim(r) \/ Answer(r) \/ Evaluate(r)
    <2>1. \/ \E pc \in {"picked", "claimed", "answered", "writing"} : Goto(r, pc)
          \/ run'[r].pc = "begun" \/ Settled(r, "other") \/ Finish(r)
      BY <1>0, <1>2 DEF Pick, Begin, Claim, Answer, Evaluate, RunRec
    <2>2. ASSUME NEW pc, Goto(r, pc) PROVE run'[r].pc = pc
      BY <1>0, <2>2 DEF Goto, RunRec
    <2> QED
      BY <1>0, <2>1, <2>2, SettledRun, EndedRun
  <1>3. CASE ReadStatus(r) \/ ReadTip(r)
    <2>1. ReadStatus(r) => run'[r].pc \in {"settling", "claimed", "ready"}
      BY <1>0 DEF ReadStatus, RunRec
    <2>2. ReadTip(r) => run'[r].pc = "tip"
      BY <1>0 DEF ReadTip, RunRec
    <2> QED
      BY <1>3, <2>1, <2>2
  <1>4. CASE ReadPending(r) \/ Confirm(r)
    <2>1. Settled(r, "other") \/ \E pc \in {"pending", "inserting"} : run'[r].pc = pc
      BY <1>0, <1>4 DEF ReadPending, Confirm, Confirmed, RunRec
    <2> QED
      BY <1>0, <2>1, SettledRun
  <1>5. CASE Write(r) \/ Settle(r) \/ Release(r) \/ Refuse(r) \/ DbError(r) \/ Crash(r)
    <2>1. (\E what : Settled(r, what)) \/ Finish(r) \/ AfterSettle(r)
      BY <1>5 DEF Write, Settle, Release, Refuse, DbError, Crash
    <2> QED
      BY <1>0, <2>1, SettledRun, EndedRun
  <1> QED
    BY <1>1, <1>2, <1>3, <1>4, <1>5 DEF Step

LEMMA AsksStep ==
  ASSUME Prompt, Timeout < TTL, TypeOK, TypeOK', AsksUnderLease, [Next]_vars
  PROVE  AsksUnderLease'
  <1> SUFFICES ASSUME NEW s \in Runs \ Leaseless, run'[s].pc = "asking"
               PROVE  lease'.holder = s /\ lease'.left + run'[s].waited >= TTL
    BY DEF AsksUnderLease
  <1>0. /\ run \in [Runs -> RunRec] /\ run[s] \in RunRec /\ lease \in Leases /\ s \in Runs
        /\ TTL \in Nat /\ Timeout \in Nat
    BY TypeFacts, NumbersHold
  <1>1. CASE WriteRow \/ UNCHANGED vars
    BY <1>1 DEF WriteRow, vars, AsksUnderLease
  <1>2. CASE Tick
    <2>1. run'[s] = IF run[s].pc \in UnderLease
                    THEN [run[s] EXCEPT !.waited = Smaller(@ + 1, Timeout)] ELSE run[s]
      BY <1>2 DEF Tick
    <2>2. run[s].pc = "asking"
      BY <1>0, <2>1 DEF RunRec
    <2>3. "asking" \in UnderLease
      BY DEF UnderLease
    <2>4. run[s].waited < Timeout /\ run[s].waited \in Nat
      BY <1>0, <1>2, <2>2, <2>3 DEF Tick, RunRec
    <2>5. run'[s].waited = run[s].waited + 1
      BY <1>0, <2>1, <2>2, <2>3, <2>4 DEF RunRec, Smaller
    <2>6. lease.holder = s /\ lease.left \in Nat /\ lease.left > 0
          /\ lease.left + run[s].waited >= TTL
      BY <2>2, StillLeased DEF AsksUnderLease
    <2>7. lease'.holder = s /\ lease'.left = lease.left - 1
      <3>1. lease' = [lease EXCEPT !.left = Less(lease.left, 1)]
        BY <1>2 DEF Tick
      <3>2. Less(lease.left, 1) = lease.left - 1
        BY <2>6 DEF Less
      <3> QED
        BY <1>0, <2>6, <3>1, <3>2 DEF Leases
    <2> QED
      BY <1>0, <2>4, <2>5, <2>6, <2>7
  <1>3. ASSUME NEW r \in Runs, Pick(r) \/ Step(r) \/ Refuse(r) \/ DbError(r) \/ Crash(r)
        PROVE  lease'.holder = s /\ lease'.left + run'[s].waited >= TTL
    <2>1. CASE s = r
      BY <1>0, <1>3, <2>1, AsksFresh
    <2>2. CASE s # r
      <3>1. run'[s] = run[s]
        BY <1>0, <1>3, <2>2, OthersKept
      <3>2. lease' = lease
        BY <1>0, <1>3, <2>2, <3>1, LeaseLeft
      <3> QED
        BY <3>1, <3>2 DEF AsksUnderLease
    <2> QED
      BY <2>1, <2>2
  <1> QED
    BY <1>1, <1>2, <1>3 DEF Next

(* As long as a request ends before its lease does, two runs that take the  *)
(* lease never ask at once: not over one tip, nor over two.                 *)
THEOREM RequestsTakeTurns ==
  ASSUME Prompt, Timeout < TTL
  PROVE  Spec => []OneRequestPerTip
  <1>1. Init => AsksUnderLease
    BY DEF Init, AsksUnderLease, Idle
  <1>2. TypeOK /\ TypeOK' /\ AsksUnderLease /\ [Next]_vars => AsksUnderLease'
    BY AsksStep
  <1>3. AsksUnderLease => OneRequestPerTip
    BY DEF AsksUnderLease, OneRequestPerTip
  <1> QED
    BY <1>1, <1>2, <1>3, TypeCorrect, PTL DEF Spec
=============================================================================
