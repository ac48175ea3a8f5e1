--------------------------- MODULE MailOutboxProofs ---------------------------
(***************************************************************************)
(* Type correctness of the mail outbox, that the staff are told of what    *)
(* failed once per round, that no row is written which the table refuses,  *)
(* the safety properties of delivery, and that the outbox implements       *)
(* MailDelivery: for any number of orders, runs, recipients, attempts and  *)
(* resends and any durations.                                              *)
(***************************************************************************)
EXTENDS MailOutboxInvariant, MailOutboxRefinement, TLAPS

Constants == OrdersAssumption /\ NumbersAssumption /\ TimesAssumption

LEMMA ConstantsHold == Constants
  BY OrdersAssumption, NumbersAssumption, TimesAssumption DEF Constants

LEMMA TypeInit == Init => TypeInv
  <1> SUFFICES ASSUME Init PROVE TypeInv
    OBVIOUS
  <1> USE ConstantsHold DEF Constants
  <1>1. NoRow("ABSENT") \in RowType
    BY DEF NoRow, RowType, Status, Gone, Time, Count, NoTime
  <1>2. TypeOK
    BY <1>1 DEF Init, TypeOK, NoTally, NumbersAssumption
  <1>3. AttemptLeft
    BY DEF Init, AttemptLeft, NoRow, Waiting
  <1>4. ClaimHeld
    BY DEF Init, ClaimHeld
  <1> QED
    BY <1>2, <1>3, <1>4 DEF TypeInv

LEMMA TypeEnqueue ==
  ASSUME TypeInv, NEW o \in Orders, Enqueue(o) PROVE TypeInv'
  <1> USE ConstantsHold DEF Constants
  <1> DEFINE valid == IF o \in Expiring THEN clock + ValidFor ELSE NoTime
             r == [NoRow("QUEUED") EXCEPT !.nextAt = clock, !.updatedAt = clock,
                     !.content = TRUE, !.validUntil = valid]
  <1>0. valid \in Time
    BY DEF TypeInv, TypeOK, Time, NoTime, TimesAssumption
  <1>r. r \in RowType /\ r.attempts = 0
    <2> HIDE DEF valid
    <2> QED
      BY <1>0 DEF TypeInv, TypeOK, NoRow, RowType, Status, Gone, Waiting, Time,
                  Count, NoTime
  <1> HIDE DEF r
  <1>1. row'[o] \in RowType /\ row'[o].attempts = 0
    BY <1>r DEF TypeInv, TypeOK, Enqueue, r
  <1>2. row' \in [Orders -> RowType]
    BY <1>1 DEF TypeInv, TypeOK, Enqueue
  <1>3. TypeOK'
    BY <1>2 DEF TypeInv, TypeOK, Enqueue, envVars, scanVars, tryVars
  <1>4. AttemptLeft'
    BY <1>1, SMTT(30) DEF TypeInv, TypeOK, AttemptLeft, Enqueue, NumbersAssumption
  <1>5. ClaimHeld'
    BY DEF TypeInv, ClaimHeld, Enqueue, tryVars
  <1> QED
    BY <1>3, <1>4, <1>5 DEF TypeInv

LEMMA ClaimFacts ==
  ASSUME TypeInv, NEW w \in Workers, claim[w] # NoClaim
  PROVE  /\ claim[w] \in Claims
         /\ claim[w].id \in Orders /\ claim[w].attemptNo \in 1 .. MaxAttempts
         /\ claim[w].attemptAt \in Nat /\ claim[w].cycle \in 1 .. MaxCycles
         /\ row[claim[w].id] \in RowType
  BY DEF TypeInv, TypeOK, Claims

(* A result is well typed if the row it writes is.                          *)
LEMMA TypeRecord ==
  ASSUME TypeInv, NEW w \in Workers, NEW r, NEW tell, claim[w] # NoClaim,
         r \in RowType,
         ownClaim(w) /\ r.status \in Waiting => r.attempts < MaxAttempts,
         Record(w, r, tell)
  PROVE  TypeInv'
  <1> DEFINE o == claim[w].id
  <1>1. o \in Orders
    BY ClaimFacts
  <1>2. row' \in [Orders -> RowType]
    BY <1>1 DEF TypeInv, TypeOK, Record
  <1>3. notices' \in [Orders -> Nat]
    BY <1>1 DEF TypeInv, TypeOK, Record
  <1>4. tally' \in [Workers -> [of : Nat, left : Nat, ok : Nat, unsure : BOOLEAN]]
    BY DEF TypeInv, TypeOK, Record, NoTally
  <1>5. TypeOK'
    BY <1>2, <1>3, <1>4 DEF TypeInv, TypeOK, Record, envVars, scanVars
  <1>6. AttemptLeft'
    BY <1>1 DEF TypeInv, TypeOK, AttemptLeft, Record
  <1>7. ClaimHeld'
    BY DEF TypeInv, TypeOK, ClaimHeld, Record
  <1> QED
    BY <1>5, <1>6, <1>7 DEF TypeInv

LEMMA TypeTerminal ==
  ASSUME TypeInv, NEW w \in Workers, NEW status \in Status \ Waiting,
         NEW a \in Count, NEW b \in Count, claim[w] # NoClaim,
         persistTerminal(w, status, <<a, b>>)
  PROVE  TypeInv'
  <1> DEFINE o == claim[w].id
             at == IF status \in Escalated THEN claim[w].attemptAt ELSE NoTime
             kept == row[o].content /\ terminalContent(o, status)
             r == [row[o] EXCEPT
                     !.status = status, !.nextAt = NoTime, !.updatedAt = clock,
                     !.escalatedAt = at, !.content = kept,
                     !.attempted = a, !.accepted = b]
  <1>1. at \in Time /\ kept \in BOOLEAN /\ clock \in Time /\ NoTime \in Time
    BY ClaimFacts DEF TypeInv, TypeOK, Time, NoTime
  <1>2. r \in RowType /\ r.status = status
    <2> HIDE DEF at, kept
    <2> QED
      BY <1>1, ClaimFacts DEF RowType
  <1>3. Record(w, r, status \in Escalated)
    BY DEF persistTerminal
  <1> QED
    <2> HIDE DEF r
    <2> QED
      BY <1>2, <1>3, TypeRecord

LEMMA TypeDefiniteFailure ==
  ASSUME TypeInv, NEW w \in Workers, NEW a \in Count, NEW b \in Count,
         claim[w] # NoClaim,
         persistDefiniteFailure(w, <<a, b>>)
  PROVE  TypeInv'
  <1> USE ConstantsHold DEF Constants
  <1> DEFINE c == claim[w]
             at == c.attemptAt + RetryDelay[c.attemptNo]
             r == [row[c.id] EXCEPT
                     !.status = "RETRY_PENDING", !.updatedAt = clock,
                     !.nextAt = at, !.attempted = a, !.accepted = b]
  <1>1. CASE c.attemptNo >= MaxAttempts
    BY <1>1, TypeTerminal DEF persistDefiniteFailure, Status, Resendable, Waiting
  <1>2. CASE ~ c.attemptNo >= MaxAttempts
    <2>1. at \in Nat /\ c.attemptNo < MaxAttempts
      BY <1>2, ClaimFacts DEF TimesAssumption, NumbersAssumption
    <2>t. at \in Time /\ clock \in Time /\ "RETRY_PENDING" \in Status
      BY <2>1 DEF Time, TypeInv, TypeOK, Status, Waiting
    <2>2. r \in RowType /\ r.attempts = row[c.id].attempts
      <3> HIDE DEF at
      <3> QED
        BY <2>t, ClaimFacts DEF RowType
    <2>3. Record(w, r, FALSE)
      BY <1>2 DEF persistDefiniteFailure
    <2>4. ownClaim(w) => r.attempts < MaxAttempts
      BY <2>1, <2>2 DEF ownClaim
    <2> QED
      <3> HIDE DEF r
      <3> QED
        BY <2>2, <2>3, <2>4, TypeRecord
  <1> QED
    BY <1>1, <1>2

LEMMA TypePersist ==
  ASSUME TypeInv, NEW w \in Workers, Persist(w) PROVE TypeInv'
  <1>1. claim[w] # NoClaim
    BY DEF TypeInv, ClaimHeld, Persist, PersistUnprepared, PersistThrown,
           PersistNoRecipient, PersistAccepted, PersistPartial, PersistUncertain,
           PersistRejected, answered
  <1> DEFINE of == tally[w].of
             ok == tally[w].ok
             a == row[claim[w].id].attempted
             b == row[claim[w].id].accepted
  <1>2. of \in Count /\ ok \in Count /\ a \in Count /\ b \in Count
    BY <1>1, ClaimFacts DEF TypeInv, TypeOK, RowType, Count
  <1>3. told(w) = <<of, ok>> /\ untold(w) = <<a, b>>
    BY DEF told, untold
  <1> HIDE DEF of, ok, a, b
  <1>4. CASE PersistUnprepared(w)
    BY <1>1, <1>2, <1>3, <1>4, TypeDefiniteFailure DEF PersistUnprepared
  <1>5. CASE PersistThrown(w)
    BY <1>1, <1>2, <1>3, <1>5, TypeTerminal
    DEF PersistThrown, Status, Resendable, Waiting
  <1>6. CASE PersistNoRecipient(w)
    BY <1>1, <1>2, <1>3, <1>6, TypeTerminal
    DEF PersistNoRecipient, Status, Settled, Waiting
  <1>7. CASE PersistAccepted(w)
    BY <1>1, <1>2, <1>3, <1>7, TypeTerminal
    DEF PersistAccepted, Status, Settled, Waiting
  <1>8. CASE PersistPartial(w)
    BY <1>1, <1>2, <1>3, <1>8, TypeTerminal
    DEF PersistPartial, Status, Settled, Waiting
  <1>9. CASE PersistUncertain(w)
    BY <1>1, <1>2, <1>3, <1>9, TypeTerminal
    DEF PersistUncertain, Status, Resendable, Waiting
  <1>10. CASE PersistRejected(w)
    BY <1>1, <1>2, <1>3, <1>10, TypeDefiniteFailure DEF PersistRejected
  <1> QED
    BY <1>4, <1>5, <1>6, <1>7, <1>8, <1>9, <1>10 DEF Persist

(* The steps of the business side that write rows.                          *)
LEMMA TypeResend ==
  ASSUME TypeInv, NEW S \in SUBSET Orders, NEW first \in Orders,
         NEW confirm \in BOOLEAN, Resend(S, first, confirm)
  PROVE  TypeInv'
  <1> USE ConstantsHold DEF Constants
  <1> DEFINE valid == Relevant(first, clock)
  <1>1. /\ row' = [o \in Orders |-> IF o \notin S THEN row[o]
                                    ELSE IF valid THEN requeued(o) ELSE skipped(o)]
        /\ cycle' = [o \in Orders |->
                       IF o \in S /\ valid THEN cycle[o] + 1 ELSE cycle[o]]
        /\ confirmed' = confirmed \cup
             {<<o, cycle[o] + 1>> : o \in {s \in S : valid /\ confirm}}
        /\ \A o \in S : cycle[o] < MaxCycles
    BY DEF Resend
  <1>t. /\ clock \in Time /\ NoTime \in Time /\ NoTime \in Count
        /\ "QUEUED" \in Status /\ "SKIPPED" \in Status
    BY DEF TypeInv, TypeOK, Time, Count, NoTime, Status, Waiting, Settled
  <1>2. ASSUME NEW o \in Orders
        PROVE  /\ requeued(o) \in RowType /\ requeued(o).attempts = 0
               /\ skipped(o) \in RowType /\ skipped(o).status = "SKIPPED"
    <2>1. row[o] \in RowType
      BY DEF TypeInv, TypeOK
    <2> QED
      BY <2>1, <1>t DEF RowType, requeued, skipped
  <1> HIDE DEF valid
  <1>3. row' \in [Orders -> RowType]
    BY <1>1, <1>2 DEF TypeInv, TypeOK
  <1>4. cycle' \in [Orders -> 1 .. MaxCycles]
    BY <1>1 DEF TypeInv, TypeOK, NumbersAssumption
  <1>5. confirmed' \in SUBSET (Orders \X (1 .. MaxCycles))
    <2>1. \A o \in S : cycle[o] + 1 \in 1 .. MaxCycles
      BY <1>1 DEF TypeInv, TypeOK, NumbersAssumption
    <2>2. confirmed \in SUBSET (Orders \X (1 .. MaxCycles))
      BY DEF TypeInv, TypeOK
    <2> QED
      BY <2>1, <2>2, <1>1
  <1>6. TypeOK'
    BY <1>3, <1>4, <1>5 DEF TypeInv, TypeOK, Resend, envVars, scanVars, tryVars
  <1>7. AttemptLeft'
    BY <1>1, <1>2 DEF TypeInv, AttemptLeft, Waiting, NumbersAssumption
  <1>8. ClaimHeld'
    BY DEF TypeInv, ClaimHeld, Resend, tryVars
  <1> QED
    BY <1>6, <1>7, <1>8 DEF TypeInv

LEMMA TypePurge ==
  ASSUME TypeInv, NEW S \in SUBSET Orders, Purge(S) PROVE TypeInv'
  <1>1. NoRow("PURGED") \in RowType /\ NoRow("PURGED").status = "PURGED"
    BY DEF NoRow, RowType, Gone, Time, Count, NoTime
  <1>2. row' \in [Orders -> RowType]
    BY <1>1 DEF Purge, TypeInv, TypeOK
  <1>3. TypeOK'
    BY <1>2 DEF TypeInv, TypeOK, Purge, envVars, scanVars, tryVars
  <1>4. AttemptLeft'
    BY <1>1 DEF TypeInv, AttemptLeft, Purge, Waiting
  <1>5. ClaimHeld'
    BY DEF TypeInv, ClaimHeld, Purge, tryVars
  <1> QED
    BY <1>3, <1>4, <1>5 DEF TypeInv

(* The scan: stranded claims, kept content, candidates.                     *)
LEMMA TypeEscalateOne ==
  ASSUME TypeInv, NEW w \in Workers, EscalateOne(w) PROVE TypeInv'
  <1>1. PICK s \in stranded[w] :
          /\ stranded' = [stranded EXCEPT ![w] = @ \ {s}]
          /\ IF stillStranded(s)
             THEN /\ row' = [row EXCEPT ![s.id] = unclear(s.id, now[w])]
                  /\ notices' = [notices EXCEPT ![s.id] = @ + 1]
             ELSE UNCHANGED <<row, notices>>
    BY DEF EscalateOne
  <1>2. s.id \in Orders
    BY DEF TypeInv, TypeOK
  <1> DEFINE kept == row[s.id].content /\ terminalContent(s.id, "UNKNOWN")
             r == unclear(s.id, now[w])
  <1>t. /\ now[w] \in Time /\ clock \in Time /\ NoTime \in Time
        /\ kept \in BOOLEAN /\ "UNKNOWN" \in Status
    BY DEF TypeInv, TypeOK, Time, NoTime, Status, Resendable
  <1>3. r \in RowType /\ r.status = "UNKNOWN"
    <2>1. row[s.id] \in RowType
      BY <1>2 DEF TypeInv, TypeOK
    <2>2. r = [row[s.id] EXCEPT
                 !.status = "UNKNOWN", !.escalatedAt = now[w], !.nextAt = NoTime,
                 !.updatedAt = clock, !.content = kept]
      BY DEF unclear
    <2> HIDE DEF kept, r
    <2> QED
      BY <2>1, <2>2, <1>t DEF RowType
  <1> HIDE DEF r
  <1>4. row' = row \/ row' = [row EXCEPT ![s.id] = r]
    BY <1>1 DEF r
  <1>5. row' \in [Orders -> RowType] /\ notices' \in [Orders -> Nat]
    <2>1. row' \in [Orders -> RowType]
      BY <1>2, <1>3, <1>4 DEF TypeInv, TypeOK
    <2>2. notices' = notices \/ notices' = [notices EXCEPT ![s.id] = @ + 1]
      BY <1>1
    <2> QED
      BY <1>2, <2>1, <2>2 DEF TypeInv, TypeOK
  <1>6. TypeOK'
    BY <1>1, <1>5 DEF TypeInv, TypeOK, EscalateOne, envVars, tryVars
  <1>7. AttemptLeft'
    BY <1>2, <1>3, <1>4 DEF TypeInv, TypeOK, AttemptLeft, Waiting
  <1>8. ClaimHeld'
    BY DEF TypeInv, ClaimHeld, EscalateOne, tryVars
  <1> QED
    BY <1>6, <1>7, <1>8 DEF TypeInv

LEMMA TypeClearExpired ==
  ASSUME TypeInv, NEW w \in Workers, ClearExpired(w) PROVE TypeInv'
  <1>1. ASSUME NEW o \in Orders
        PROVE  /\ row'[o] \in RowType
               /\ row'[o].status = row[o].status
               /\ row'[o].attempts = row[o].attempts
    <2>1. row[o] \in RowType /\ clock \in Time
      BY DEF TypeInv, TypeOK, Time
    <2> QED
      BY <2>1 DEF ClearExpired, RowType
  <1>2. row' \in [Orders -> RowType]
    BY <1>1 DEF ClearExpired
  <1>3. TypeOK'
    BY <1>2 DEF TypeInv, TypeOK, ClearExpired, envVars, scanVars, tryVars
  <1>4. AttemptLeft'
    BY <1>1 DEF TypeInv, AttemptLeft
  <1>5. ClaimHeld'
    BY DEF TypeInv, TypeOK, ClaimHeld, ClearExpired, tryVars
  <1> QED
    BY <1>3, <1>4, <1>5 DEF TypeInv

LEMMA TypeStartRun ==
  ASSUME TypeInv, NEW w \in Workers, StartRun(w) PROVE TypeInv'
  <1>1. PICK S \in SUBSET Orders :
          stranded' = [stranded EXCEPT ![w] =
                         {[id |-> o, lastAt |-> row[o].lastAt] : o \in S}]
    BY DEF StartRun, OldestFirst, hanging
  <1>2. stranded' \in [Workers -> SUBSET [id : Orders, lastAt : Time]]
    BY <1>1 DEF TypeInv, TypeOK, RowType
  <1>3. TypeOK'
    BY <1>2 DEF TypeInv, TypeOK, StartRun, orderVars, envVars, tryVars
  <1>4. AttemptLeft' /\ ClaimHeld'
    BY DEF TypeInv, TypeOK, AttemptLeft, ClaimHeld, StartRun, orderVars, tryVars
  <1> QED
    BY <1>3, <1>4 DEF TypeInv

LEMMA TypeFetch ==
  ASSUME TypeInv, NEW w \in Workers, FetchCandidates(w) PROVE TypeInv'
  <1> USE ConstantsHold DEF Constants
  <1>1. PICK S \in SUBSET {o \in Orders : row[o].status \in Waiting} :
          batch' = [batch EXCEPT ![w] =
            {[id |-> o, status |-> row[o].status, attempts |-> row[o].attempts] :
               o \in S}]
    BY DEF FetchCandidates, OldestFirst, due
  <1>2. \A o \in S : /\ o \in Orders /\ row[o].status \in Waiting
                     /\ row[o].attempts \in 0 .. MaxAttempts - 1
    BY DEF TypeInv, TypeOK, AttemptLeft, RowType, NumbersAssumption
  <1>3. batch' \in [Workers -> SUBSET [id : Orders, status : Waiting,
                                       attempts : 0 .. MaxAttempts - 1]]
    BY <1>1, <1>2, SMTT(30) DEF TypeInv, TypeOK
  <1>4. TypeOK'
    BY <1>3 DEF TypeInv, TypeOK, FetchCandidates, orderVars, envVars, tryVars
  <1>5. AttemptLeft' /\ ClaimHeld'
    BY DEF TypeInv, TypeOK, AttemptLeft, ClaimHeld, FetchCandidates, orderVars,
           tryVars
  <1> QED
    BY <1>4, <1>5 DEF TypeInv

LEMMA CandidateFacts ==
  ASSUME TypeInv, NEW w \in Workers, NEW c \in batch[w]
  PROVE  /\ c.id \in Orders /\ c.status \in Waiting
         /\ c.attempts \in 0 .. MaxAttempts - 1
         /\ row[c.id] \in RowType
  BY DEF TypeInv, TypeOK

LEMMA TypeClaim ==
  ASSUME TypeInv, NEW w \in Workers, Claim(w) PROVE TypeInv'
  <1>1. PICK c \in batch[w] :
          /\ unchanged(c)
          /\ row' = [row EXCEPT ![c.id] = started(c.id)]
          /\ claim' = [claim EXCEPT ![w] =
               [id |-> c.id, attemptNo |-> c.attempts + 1, attemptAt |-> clock,
                cycle |-> cycle[c.id]]]
          /\ batch' = [batch EXCEPT ![w] = @ \ {c}]
    BY DEF Claim
  <1> DEFINE r == started(c.id)
             k == [id |-> c.id, attemptNo |-> c.attempts + 1, attemptAt |-> clock,
                   cycle |-> cycle[c.id]]
  <1>c. /\ c.id \in Orders /\ c.attempts \in 0 .. MaxAttempts - 1
        /\ row[c.id] \in RowType /\ clock \in Nat
        /\ cycle[c.id] \in 1 .. MaxCycles
    BY CandidateFacts DEF TypeInv, TypeOK
  <1>2. row' = [row EXCEPT ![c.id] = r] /\ claim' = [claim EXCEPT ![w] = k]
    BY <1>1
  <1>3. r \in RowType /\ r.status = "SENDING"
    <2>1. /\ clock \in Time /\ NoTime \in Time /\ "SENDING" \in Status
          /\ row[c.id].attempts + 1 \in Nat
      BY <1>c DEF Time, Status, RowType
    <2> QED
      BY <1>c, <2>1 DEF RowType, started
  <1>4. k \in Claims /\ k # NoClaim
    <2>1. c.attempts + 1 \in 1 .. MaxAttempts
      BY <1>c, ConstantsHold DEF Constants, NumbersAssumption
    <2>2. k \in Claims
      BY <1>c, <2>1 DEF Claims
    <2>3. k.id # NoOrder /\ NoClaim.id = NoOrder
      BY <1>c, ConstantsHold DEF Constants, OrdersAssumption, NoClaim
    <2> QED
      BY <2>2, <2>3
  <1> HIDE DEF r, k
  <1>5. /\ row' \in [Orders -> RowType]
        /\ claim' \in [Workers -> Claims \cup {NoClaim}]
        /\ batch' \in [Workers -> SUBSET [id : Orders, status : Waiting,
                                          attempts : 0 .. MaxAttempts - 1]]
    BY <1>1, <1>2, <1>3, <1>4, CandidateFacts DEF TypeInv, TypeOK
  <1>6. TypeOK'
    BY <1>5 DEF TypeInv, TypeOK, Claim, envVars
  <1>7. AttemptLeft'
    BY <1>2, <1>3, CandidateFacts DEF TypeInv, TypeOK, AttemptLeft, Waiting
  <1>8. ClaimHeld'
    BY <1>2, <1>4 DEF TypeInv, TypeOK, ClaimHeld, Claim
  <1> QED
    BY <1>6, <1>7, <1>8 DEF TypeInv

LEMMA TypeSkip ==
  ASSUME TypeInv, NEW w \in Workers, Skip(w) PROVE TypeInv'
  <1>1. PICK c \in batch[w] :
          /\ row' = [row EXCEPT ![c.id] = skipped(c.id)]
          /\ batch' = [batch EXCEPT ![w] = @ \ {c}]
    BY DEF Skip
  <1> DEFINE r == skipped(c.id)
  <1>2. row' = [row EXCEPT ![c.id] = r]
    BY <1>1
  <1>3. r \in RowType /\ r.status = "SKIPPED"
    <2>1. clock \in Time /\ NoTime \in Time /\ "SKIPPED" \in Status
      BY DEF TypeInv, TypeOK, Time, Status, Settled
    <2> QED
      BY <2>1, CandidateFacts DEF RowType, skipped
  <1> HIDE DEF r
  <1>4. /\ row' \in [Orders -> RowType]
        /\ batch' \in [Workers -> SUBSET [id : Orders, status : Waiting,
                                          attempts : 0 .. MaxAttempts - 1]]
    BY <1>1, <1>2, <1>3, CandidateFacts DEF TypeInv, TypeOK
  <1>5. TypeOK'
    BY <1>4 DEF TypeInv, TypeOK, Skip, envVars, tryVars
  <1>6. AttemptLeft'
    BY <1>2, <1>3, CandidateFacts DEF TypeInv, TypeOK, AttemptLeft, Waiting
  <1>7. ClaimHeld'
    BY DEF TypeInv, ClaimHeld, Skip, tryVars
  <1> QED
    BY <1>5, <1>6, <1>7 DEF TypeInv

(* The steps that write no row.                                             *)
LEMMA TypeLose ==
  ASSUME TypeInv, NEW w \in Workers, Lose(w) \/ EndRun(w) PROVE TypeInv'
  <1>1. TypeOK'
    <2>1. CASE Lose(w)
      <3>1. PICK c : batch' = [batch EXCEPT ![w] = @ \ {c}]
        BY <2>1 DEF Lose
      <3>2. batch' \in [Workers -> SUBSET [id : Orders, status : Waiting,
                                           attempts : 0 .. MaxAttempts - 1]]
        BY <3>1 DEF TypeInv, TypeOK
      <3> QED
        BY <2>1, <3>2 DEF TypeInv, TypeOK, Lose, orderVars, envVars, tryVars
    <2>2. CASE EndRun(w)
      BY <2>2 DEF TypeInv, TypeOK, EndRun, orderVars, envVars, tryVars
    <2> QED
      BY <2>1, <2>2
  <1>2. AttemptLeft' /\ ClaimHeld'
    BY DEF TypeInv, TypeOK, AttemptLeft, ClaimHeld, Lose, EndRun, orderVars, tryVars
  <1> QED
    BY <1>1, <1>2 DEF TypeInv

LEMMA TypeAddress ==
  ASSUME TypeInv, NEW w \in Workers, Address(w) PROVE TypeInv'
  <1> USE ConstantsHold DEF Constants
  <1>1. PICK n \in Nat :
          tally' = [tally EXCEPT ![w] = [NoTally EXCEPT !.of = n, !.left = n]]
    <2>1. PICK n \in IF claim[w].id \in Contacts THEN 0 .. MaxRecipients ELSE {1} :
            tally' = [tally EXCEPT ![w] = [NoTally EXCEPT !.of = n, !.left = n]]
      BY DEF Address
    <2>2. n \in Nat
      BY <2>1 DEF NumbersAssumption
    <2> QED
      BY <2>1, <2>2
  <1>2. tally' \in [Workers -> [of : Nat, left : Nat, ok : Nat, unsure : BOOLEAN]]
    BY <1>1 DEF TypeInv, TypeOK, NoTally
  <1>3. TypeOK'
    BY <1>2 DEF TypeInv, TypeOK, Address, orderVars, envVars, scanVars
  <1>4. AttemptLeft' /\ ClaimHeld'
    BY DEF TypeInv, TypeOK, AttemptLeft, ClaimHeld, Address, orderVars
  <1> QED
    BY <1>3, <1>4 DEF TypeInv

LEMMA TypeSendNext ==
  ASSUME TypeInv, NEW w \in Workers, SendNext(w) PROVE TypeInv'
  <1>1. claim[w] # NoClaim
    BY DEF SendNext, TypeInv, ClaimHeld
  <1>2. handed' \in SUBSET (Orders \X (1 .. MaxCycles) \X (1 .. MaxAttempts))
    <2>1. Attempt(w) \in Orders \X (1 .. MaxCycles) \X (1 .. MaxAttempts)
      BY <1>1, ClaimFacts DEF Attempt
    <2>2. handed' = handed \/ handed' = handed \cup {Attempt(w)}
      BY DEF SendNext
    <2> QED
      BY <2>1, <2>2 DEF TypeInv, TypeOK
  <1>3. tally' \in [Workers -> [of : Nat, left : Nat, ok : Nat, unsure : BOOLEAN]]
    <2>1. PICK t \in BOOLEAN, u \in BOOLEAN :
            tally' = [tally EXCEPT ![w] = counted(tally[w], t, u)]
      BY DEF SendNext
    <2>2. /\ tally[w] \in [of : Nat, left : Nat, ok : Nat, unsure : BOOLEAN]
          /\ tally[w].left - 1 \in Nat
      BY DEF TypeInv, TypeOK, SendNext
    <2>3. counted(tally[w], t, u) \in
            [of : Nat, left : Nat, ok : Nat, unsure : BOOLEAN]
      BY <2>2 DEF counted
    <2> QED
      BY <2>1, <2>3 DEF TypeInv, TypeOK
  <1>4. TypeOK'
    BY <1>2, <1>3 DEF TypeInv, TypeOK, SendNext, envVars, scanVars
  <1>5. AttemptLeft' /\ ClaimHeld'
    BY DEF TypeInv, TypeOK, AttemptLeft, ClaimHeld, SendNext
  <1> QED
    BY <1>4, <1>5 DEF TypeInv

LEMMA TypeCrash ==
  ASSUME TypeInv, NEW w \in Workers, Crash(w) PROVE TypeInv'
  <1>1. TypeOK'
    BY DEF TypeInv, TypeOK, Crash, NoTally, orderVars, envVars
  <1>2. AttemptLeft' /\ ClaimHeld'
    BY DEF TypeInv, TypeOK, AttemptLeft, ClaimHeld, Crash, orderVars
  <1> QED
    BY <1>1, <1>2 DEF TypeInv

LEMMA TypeSurroundings ==
  ASSUME TypeInv,
         \/ \E p \in Processes : Turn(p) \/ Anonymize(p)
         \/ Tick
         \/ UNCHANGED vars
  PROVE  TypeInv'
  <1>1. TypeOK'
    BY DEF TypeInv, TypeOK, Turn, Anonymize, Tick, vars, orderVars, envVars,
           scanVars, tryVars
  <1>2. AttemptLeft' /\ ClaimHeld'
    BY DEF TypeInv, AttemptLeft, ClaimHeld, Turn, Anonymize, Tick, vars, orderVars,
           scanVars, tryVars
  <1> QED
    BY <1>1, <1>2 DEF TypeInv

LEMMA TypeStep == TypeInv /\ [Next]_vars => TypeInv'
  <1> SUFFICES ASSUME TypeInv, [Next]_vars PROVE TypeInv'
    OBVIOUS
  <1>1. CASE \E o \in Orders : Enqueue(o)
    BY <1>1, TypeEnqueue
  <1>2. CASE ResendStep
    BY <1>2, TypeResend DEF ResendStep
  <1>3. CASE \E S \in SUBSET Orders : Purge(S)
    BY <1>3, TypePurge
  <1>4. ASSUME NEW w \in Workers, Scan(w) PROVE TypeInv'
    BY <1>4, TypeStartRun, TypeEscalateOne, TypeClearExpired, TypeFetch, TypeClaim,
       TypeSkip, TypeLose
    DEF Scan
  <1>5. ASSUME NEW w \in Workers, Deliver(w) PROVE TypeInv'
    BY <1>5, TypeAddress, TypeSendNext, TypePersist DEF Deliver
  <1>6. CASE \E w \in Workers : Crash(w)
    BY <1>6, TypeCrash
  <1>7. CASE \/ \E p \in Processes : Turn(p) \/ Anonymize(p)
             \/ Tick
             \/ UNCHANGED vars
    BY <1>7, TypeSurroundings
  <1> QED
    BY <1>1, <1>2, <1>3, <1>4, <1>5, <1>6, <1>7 DEF Next, Work

(* Every reachable state is well typed; in particular no order is ever      *)
(* tried more often than MAIL_OUTBOX_MAX_ATTEMPTS in one round.             *)
THEOREM TypeCorrect == Spec => []TypeOK
  <1>1. TypeInv => TypeOK
    BY DEF TypeInv
  <1> QED
    BY <1>1, TypeInit, TypeStep, PTL DEF Spec

-----------------------------------------------------------------------------
(* The rows of the table: an order is left as it is, or its new row is     *)
(* sound.                                                                  *)

LEMMA TableInit == Init => TableInv
  <1> SUFFICES ASSUME Init PROVE TableInv
    OBVIOUS
  <1>1. ASSUME NEW o \in Orders PROVE RowSound(o, row[o], cycle[o], notices[o])
    <2>1. row[o] = NoRow("ABSENT") /\ cycle[o] = 1 /\ notices[o] = 0
      BY DEF Init
    <2> QED
      BY <2>1 DEF RowSound, NoRow, NoTime, Waiting, Resendable, Escalated
  <1>2. TallyBounded
    BY DEF Init, TallyBounded, NoTally
  <1> QED
    BY <1>1, <1>2 DEF TableInv

LEMMA OneRow ==
  ASSUME TypeInv, TableInv, NEW p \in Orders, NEW r, UNCHANGED cycle,
         row' = [row EXCEPT ![p] = r],
         \A o \in Orders \ {p} : notices'[o] = notices[o],
         RowSound(p, r, cycle[p], notices'[p]), TallyBounded'
  PROVE  TableInv'
  <1> SUFFICES ASSUME NEW o \in Orders
               PROVE  RowSound(o, row'[o], cycle'[o], notices'[o])
    BY DEF TableInv
  <1>1. CASE o = p
    BY <1>1 DEF TypeInv, TypeOK
  <1>2. CASE o # p
    BY <1>2 DEF TypeInv, TypeOK, TableInv
  <1> QED
    BY <1>1, <1>2

LEMMA SoundRow ==
  ASSUME TypeInv, TableInv, NEW o \in Orders
  PROVE  /\ row[o] \in RowType /\ RowSound(o, row[o], cycle[o], notices[o])
         /\ notices[o] \in Nat /\ cycle[o] \in Nat /\ clock \in Nat
  BY ConstantsHold DEF TypeInv, TypeOK, TableInv, Constants, NumbersAssumption

LEMMA TableEnqueue ==
  ASSUME TypeInv, TableInv, NEW o \in Orders, Enqueue(o) PROVE TableInv'
  <1> DEFINE valid == IF o \in Expiring THEN clock + ValidFor ELSE NoTime
             r == [NoRow("QUEUED") EXCEPT !.nextAt = clock, !.updatedAt = clock,
                     !.content = TRUE, !.validUntil = valid]
  <1>1. /\ row[o].status = "ABSENT" /\ row' = [row EXCEPT ![o] = r]
        /\ UNCHANGED <<cycle, notices, tally>>
    BY DEF Enqueue, tryVars
  <1>2. /\ r.status = "QUEUED" /\ r.nextAt = clock /\ r.content = TRUE
        /\ r.attempted = NoTime /\ r.accepted = NoTime /\ r.escalatedAt = NoTime
    <2> HIDE DEF valid
    <2> QED
      BY DEF NoRow
  <1> HIDE DEF r
  <1>3. RowSound(o, r, cycle[o], notices[o])
    BY <1>1, <1>2, SoundRow
    DEF RowSound, Waiting, Resendable, Escalated, NoTime
  <1>4. TallyBounded'
    BY <1>1 DEF TableInv, TallyBounded
  <1> QED
    BY <1>1, <1>3, <1>4, OneRow

(* app.mail_outbox_resend counts a new round where it clears the mark of    *)
(* the old one.                                                             *)
LEMMA TableResend ==
  ASSUME TypeInv, TableInv, NEW S \in SUBSET Orders, NEW first \in Orders,
         NEW confirm \in BOOLEAN, Resend(S, first, confirm)
  PROVE  TableInv'
  <1> DEFINE valid == Relevant(first, clock)
  <1>1. /\ \A o \in S : row[o].status \in Resendable
        /\ valid => \A o \in S : row[o].content
        /\ S \cap Tcms = {}
        /\ row' = [o \in Orders |-> IF o \notin S THEN row[o]
                                    ELSE IF valid THEN requeued(o) ELSE skipped(o)]
        /\ cycle' = [o \in Orders |->
                       IF o \in S /\ valid THEN cycle[o] + 1 ELSE cycle[o]]
        /\ UNCHANGED <<notices, tally>>
    BY DEF Resend, tryVars, contentOfAll
  <1> HIDE DEF valid
  <1>2. ASSUME NEW o \in Orders
        PROVE  RowSound(o, row'[o], cycle'[o], notices'[o])
    <2>1. CASE o \notin S
      BY <1>1, <2>1, SoundRow
    <2>2. CASE o \in S /\ valid
      <3>1. /\ row'[o] = requeued(o) /\ cycle'[o] = cycle[o] + 1
            /\ notices'[o] = notices[o]
            /\ row[o].status \in Resendable /\ row[o].content
        BY <1>1, <2>2
      <3>2. /\ requeued(o).status = "QUEUED" /\ requeued(o).nextAt = clock
            /\ requeued(o).content = row[o].content
            /\ requeued(o).attempted = NoTime /\ requeued(o).escalatedAt = NoTime
        BY SoundRow DEF requeued, RowType
      <3> QED
        BY <3>1, <3>2, SoundRow DEF RowSound, Waiting, Resendable, Escalated, NoTime
    <2>3. CASE o \in S /\ ~ valid
      <3>1. /\ row'[o] = skipped(o) /\ cycle'[o] = cycle[o]
            /\ notices'[o] = notices[o] /\ row[o].status \in Resendable
        BY <1>1, <2>3
      <3>2. /\ skipped(o).status = "SKIPPED" /\ skipped(o).nextAt = NoTime
            /\ skipped(o).content = FALSE
            /\ skipped(o).attempted = row[o].attempted
            /\ skipped(o).accepted = row[o].accepted
            /\ skipped(o).escalatedAt = row[o].escalatedAt
        BY SoundRow DEF skipped, RowType
      <3> QED
        BY <3>1, <3>2, SoundRow DEF RowSound, Waiting, Resendable, Escalated, NoTime
    <2> QED
      BY <2>1, <2>2, <2>3
  <1>3. TallyBounded'
    BY <1>1 DEF TableInv, TallyBounded
  <1> QED
    BY <1>2, <1>3 DEF TableInv

LEMMA TablePurge ==
  ASSUME TypeInv, TableInv, NEW S \in SUBSET Orders, Purge(S) PROVE TableInv'
  <1>1. ASSUME NEW o \in Orders
        PROVE  RowSound(o, row'[o], cycle'[o], notices'[o])
    <2>1. CASE o \in S
      <3>1. row'[o] = NoRow("PURGED")
        BY <2>1 DEF Purge
      <3> QED
        BY <3>1 DEF RowSound, NoRow, NoTime, Waiting, Resendable, Escalated
    <2>2. CASE o \notin S
      BY <2>2, SoundRow DEF Purge
    <2> QED
      BY <2>1, <2>2
  <1>2. TallyBounded'
    BY DEF TableInv, TallyBounded, Purge, tryVars
  <1> QED
    BY <1>1, <1>2 DEF TableInv

(* escalateStrandedSending marks an order SENDING, hence unmarked, and      *)
(* writes its one notification in the same transaction.                     *)
LEMMA TableEscalateOne ==
  ASSUME TypeInv, TableInv, NEW w \in Workers, EscalateOne(w) PROVE TableInv'
  <1>1. PICK s \in stranded[w] :
          IF stillStranded(s)
          THEN /\ row' = [row EXCEPT ![s.id] = unclear(s.id, now[w])]
               /\ notices' = [notices EXCEPT ![s.id] = @ + 1]
          ELSE UNCHANGED <<row, notices>>
    BY DEF EscalateOne
  <1> DEFINE o == s.id
             r == unclear(o, now[w])
  <1>2. o \in Orders /\ now[w] \in Nat
    BY DEF TypeInv, TypeOK
  <1>3. UNCHANGED <<cycle, tally>> /\ TallyBounded'
    BY DEF EscalateOne, tryVars, TableInv, TallyBounded
  <1>4. CASE stillStranded(s)
    <2>1. /\ r.status = "UNKNOWN" /\ r.nextAt = NoTime /\ r.escalatedAt = now[w]
          /\ r.attempted = row[o].attempted /\ r.accepted = row[o].accepted
          /\ r.content => o \notin Tcms
      BY <1>2, SoundRow DEF unclear, RowType, terminalContent
    <2> HIDE DEF r
    <2>2. row' = [row EXCEPT ![o] = r] /\ row[o].status = "SENDING"
      BY <1>1, <1>4 DEF r, stillStranded
    <2>3. /\ notices'[o] = notices[o] + 1
          /\ \A p \in Orders \ {o} : notices'[p] = notices[p]
      BY <1>1, <1>2, <1>4 DEF TypeInv, TypeOK
    <2>4. RowSound(o, r, cycle[o], notices'[o])
      BY <1>2, <2>1, <2>2, <2>3, SoundRow
      DEF RowSound, Waiting, Resendable, Escalated, NoTime
    <2> QED
      BY <1>2, <1>3, <2>2, <2>3, <2>4, OneRow
  <1>5. CASE ~ stillStranded(s)
    BY <1>1, <1>3, <1>5 DEF TableInv
  <1> QED
    BY <1>4, <1>5

LEMMA TableClearExpired ==
  ASSUME TypeInv, TableInv, NEW w \in Workers, ClearExpired(w) PROVE TableInv'
  <1>1. /\ row' = [o \in Orders |->
             IF expired(o, now[w])
             THEN [row[o] EXCEPT !.content = FALSE, !.updatedAt = clock]
             ELSE row[o]]
        /\ UNCHANGED <<cycle, notices, tally>>
    BY DEF ClearExpired, tryVars
  <1>2. ASSUME NEW o \in Orders
        PROVE  RowSound(o, row'[o], cycle'[o], notices'[o])
    <2>1. CASE expired(o, now[w])
      <3> DEFINE r == [row[o] EXCEPT !.content = FALSE, !.updatedAt = clock]
      <3>1. /\ r.status = row[o].status /\ r.nextAt = row[o].nextAt
            /\ r.content = FALSE /\ r.escalatedAt = row[o].escalatedAt
            /\ r.attempted = row[o].attempted /\ r.accepted = row[o].accepted
        BY SoundRow DEF RowType
      <3>2. row'[o] = r
        BY <1>1, <2>1
      <3>3. row[o].status \in Resendable
        BY <2>1 DEF expired
      <3> HIDE DEF r
      <3> QED
        BY <1>1, <3>1, <3>2, <3>3, SoundRow, ZenonT(40) DEF RowSound, Waiting, Resendable
    <2>2. CASE ~ expired(o, now[w])
      BY <1>1, <2>2, SoundRow
    <2> QED
      BY <2>1, <2>2
  <1>3. TallyBounded'
    BY <1>1 DEF TableInv, TallyBounded
  <1> QED
    BY <1>2, <1>3 DEF TableInv

LEMMA TableClaim ==
  ASSUME TypeInv, TableInv, NEW w \in Workers, Claim(w) \/ Skip(w) PROVE TableInv'
  <1>1. PICK c \in batch[w] :
          /\ unchanged(c)
          /\ \/ row' = [row EXCEPT ![c.id] = started(c.id)]
             \/ row' = [row EXCEPT ![c.id] = skipped(c.id)]
    BY DEF Claim, Skip
  <1> DEFINE o == c.id
  <1>2. o \in Orders /\ row[o].status \in Waiting
    BY <1>1, CandidateFacts DEF unchanged
  <1>3. UNCHANGED <<cycle, notices, tally>>
    BY DEF Claim, Skip, tryVars
  <1>4. TallyBounded'
    BY <1>3 DEF TableInv, TallyBounded
  <1>5. /\ started(o).status = "SENDING" /\ started(o).nextAt = NoTime
        /\ started(o).content = row[o].content
        /\ started(o).escalatedAt = row[o].escalatedAt
        /\ started(o).attempted = row[o].attempted
        /\ started(o).accepted = row[o].accepted
    BY <1>2, SoundRow DEF started, RowType
  <1>6. /\ skipped(o).status = "SKIPPED" /\ skipped(o).nextAt = NoTime
        /\ skipped(o).content = FALSE
        /\ skipped(o).escalatedAt = row[o].escalatedAt
        /\ skipped(o).attempted = row[o].attempted
        /\ skipped(o).accepted = row[o].accepted
    BY <1>2, SoundRow DEF skipped, RowType
  <1>7. RowSound(o, started(o), cycle[o], notices[o])
    BY <1>2, <1>5, SoundRow DEF RowSound, Waiting, Resendable, Escalated
  <1>8. RowSound(o, skipped(o), cycle[o], notices[o])
    BY <1>2, <1>6, SoundRow DEF RowSound, Waiting, Resendable, Escalated
  <1> QED
    BY <1>1, <1>2, <1>3, <1>4, <1>7, <1>8, OneRow

(* A result is sound if the row it would write over its own claim is.       *)
LEMMA TableRecord ==
  ASSUME TypeInv, TableInv, NEW w \in Workers, NEW r, NEW tell \in BOOLEAN,
         claim[w] # NoClaim,
         ownClaim(w) =>
           RowSound(claim[w].id, r, cycle[claim[w].id],
                    notices[claim[w].id] + (IF tell THEN 1 ELSE 0)),
         Record(w, r, tell)
  PROVE  TableInv'
  <1> DEFINE o == claim[w].id
  <1>1. o \in Orders
    BY ClaimFacts
  <1>2. /\ row' = IF ownClaim(w) THEN [row EXCEPT ![o] = r] ELSE row
        /\ notices' = IF ownClaim(w) /\ tell
                      THEN [notices EXCEPT ![o] = @ + 1] ELSE notices
        /\ tally' = [tally EXCEPT ![w] = NoTally]
        /\ UNCHANGED cycle
    BY DEF Record
  <1>3. TallyBounded'
    <2> SUFFICES ASSUME NEW v \in Workers
                 PROVE  tally'[v].ok + tally'[v].left <= tally'[v].of
      BY DEF TallyBounded
    <2>1. CASE v = w
      BY <1>2, <2>1 DEF TypeInv, TypeOK, NoTally
    <2>2. CASE v # w
      BY <1>2, <2>2 DEF TypeInv, TypeOK, TableInv, TallyBounded
    <2> QED
      BY <2>1, <2>2
  <1>4. CASE ownClaim(w)
    <2>1. /\ notices'[o] = notices[o] + (IF tell THEN 1 ELSE 0)
          /\ \A p \in Orders \ {o} : notices'[p] = notices[p]
      BY <1>1, <1>2, <1>4 DEF TypeInv, TypeOK
    <2>2. RowSound(o, r, cycle[o], notices'[o])
      BY <1>4, <2>1
    <2> QED
      BY <1>1, <1>2, <1>3, <1>4, <2>1, <2>2, OneRow
  <1>5. CASE ~ ownClaim(w)
    BY <1>2, <1>3, <1>5 DEF TableInv
  <1> QED
    BY <1>4, <1>5

(* Counts a run may report: what it knows itself, or what stands there.     *)
Reportable(a, b) ==
  a \in Count /\ b \in Count /\ (a # NoTime /\ b # NoTime => b <= a)

LEMMA TableTerminal ==
  ASSUME TypeInv, TableInv, NEW w \in Workers,
         NEW status \in Status \ (Waiting \cup {"SENDING"}),
         NEW a, NEW b, Reportable(a, b), claim[w] # NoClaim,
         persistTerminal(w, status, <<a, b>>)
  PROVE  TableInv'
  <1> DEFINE o == claim[w].id
             at == IF status \in Escalated THEN claim[w].attemptAt ELSE NoTime
             kept == row[o].content /\ terminalContent(o, status)
             r == [row[o] EXCEPT
                     !.status = status, !.nextAt = NoTime, !.updatedAt = clock,
                     !.escalatedAt = at, !.content = kept,
                     !.attempted = a, !.accepted = b]
             tell == status \in Escalated
  <1>1. o \in Orders /\ row[o] \in RowType
    BY ClaimFacts
  <1>2. /\ r.status = status /\ r.nextAt = NoTime /\ r.escalatedAt = at
        /\ r.content = kept /\ r.attempted = a /\ r.accepted = b
    <2> HIDE DEF at, kept
    <2> QED
      BY <1>1 DEF RowType
  <1>3. at # NoTime <=> status \in Escalated
    BY ClaimFacts DEF NoTime
  <1>4. kept => status \in Resendable /\ o \notin Tcms
    BY DEF terminalContent
  <1>5. Record(w, r, tell)
    BY DEF persistTerminal
  <1>6. ASSUME ownClaim(w)
        PROVE  RowSound(o, r, cycle[o], notices[o] + (IF tell THEN 1 ELSE 0))
    <2>1. row[o].status = "SENDING"
      BY <1>6 DEF ownClaim
    <2>2. /\ row[o].escalatedAt = NoTime /\ notices[o] = cycle[o] - 1
          /\ cycle[o] \in Nat /\ notices[o] \in Nat
      BY <1>1, <2>1, SoundRow DEF RowSound
    <2>3. status \notin Waiting \cup {"SENDING", "ABSENT", "PURGED"}
      BY DEF Status, Waiting, Resendable, Settled
    <2>4. a # NoTime /\ b # NoTime => b <= a
      BY DEF Reportable
    <2>5. notices[o] + (IF tell THEN 1 ELSE 0) =
            (cycle[o] - 1) + (IF at = NoTime THEN 0 ELSE 1)
      BY <1>3, <2>2
    <2> HIDE DEF r, at, kept, tell
    <2> QED
      BY <1>2, <1>3, <1>4, <2>3, <2>4, <2>5 DEF RowSound
  <1>7. tell \in BOOLEAN
    OBVIOUS
  <1> HIDE DEF r, tell
  <1> QED
    BY <1>5, <1>6, <1>7, TableRecord

LEMMA TableDefiniteFailure ==
  ASSUME TypeInv, TableInv, NEW w \in Workers, NEW a, NEW b, Reportable(a, b),
         claim[w] # NoClaim, persistDefiniteFailure(w, <<a, b>>)
  PROVE  TableInv'
  <1> USE ConstantsHold DEF Constants
  <1> DEFINE c == claim[w]
             o == c.id
             at == c.attemptAt + RetryDelay[c.attemptNo]
             r == [row[o] EXCEPT
                     !.status = "RETRY_PENDING", !.updatedAt = clock,
                     !.nextAt = at, !.attempted = a, !.accepted = b]
  <1>1. CASE c.attemptNo >= MaxAttempts
    BY <1>1, TableTerminal DEF persistDefiniteFailure, Status, Resendable, Waiting
  <1>2. CASE ~ c.attemptNo >= MaxAttempts
    <2>1. at \in Nat /\ o \in Orders /\ row[o] \in RowType
      BY <1>2, ClaimFacts DEF TimesAssumption, NumbersAssumption
    <2>2. /\ r.status = "RETRY_PENDING" /\ r.nextAt = at
          /\ r.content = row[o].content /\ r.escalatedAt = row[o].escalatedAt
          /\ r.attempted = a /\ r.accepted = b
      <3> HIDE DEF at
      <3> QED
        BY <2>1 DEF RowType
    <2>3. Record(w, r, FALSE)
      BY <1>2 DEF persistDefiniteFailure
    <2>4. at # NoTime
      BY <2>1 DEF NoTime
    <2> HIDE DEF r, at
    <2>5. ASSUME ownClaim(w) PROVE RowSound(o, r, cycle[o], notices[o])
      <3>1. row[o].status = "SENDING"
        BY <2>5 DEF ownClaim
      <3>2. /\ row[o].content /\ row[o].escalatedAt = NoTime
            /\ notices[o] = cycle[o] - 1
            /\ cycle[o] \in Nat /\ notices[o] \in Nat
        BY <2>1, <3>1, SoundRow, SMTT(30) DEF RowSound
      <3> QED
        BY <2>2, <2>4, <3>2 DEF RowSound, Reportable, Waiting, Escalated
    <2>6. notices[o] + (IF FALSE THEN 1 ELSE 0) = notices[o]
      BY <2>1, SoundRow
    <2>7. ownClaim(w) =>
            RowSound(o, r, cycle[o], notices[o] + (IF FALSE THEN 1 ELSE 0))
      BY <2>5, <2>6
    <2> QED
      BY <2>3, <2>7, TableRecord
  <1> QED
    BY <1>1, <1>2

LEMMA TablePersist ==
  ASSUME TypeInv, TableInv, NEW w \in Workers, Persist(w) PROVE TableInv'
  <1>1. claim[w] # NoClaim
    BY DEF TypeInv, ClaimHeld, Persist, PersistUnprepared, PersistThrown,
           PersistNoRecipient, PersistAccepted, PersistPartial, PersistUncertain,
           PersistRejected, answered
  <1> DEFINE of == tally[w].of
             ok == tally[w].ok
             a == row[claim[w].id].attempted
             b == row[claim[w].id].accepted
  <1>2. Reportable(of, ok) /\ Reportable(a, b)
    <2>1. /\ of \in Nat /\ ok \in Nat /\ tally[w].left \in Nat
          /\ ok + tally[w].left <= of
      BY DEF TypeInv, TypeOK, TableInv, TallyBounded
    <2>2. Reportable(of, ok)
      BY <2>1 DEF Reportable, Count
    <2>3. Reportable(a, b)
      BY <1>1, ClaimFacts, SoundRow DEF Reportable, RowType, RowSound
    <2> QED
      BY <2>2, <2>3
  <1>3. told(w) = <<of, ok>> /\ untold(w) = <<a, b>>
    BY DEF told, untold
  <1>4. {"UNKNOWN", "NO_RECIPIENT", "PROVIDER_ACCEPTED", "PARTIAL_FAILURE"}
          \subseteq Status \ (Waiting \cup {"SENDING"})
    BY DEF Status, Waiting, Resendable, Settled
  <1> HIDE DEF of, ok, a, b
  <1>5. CASE PersistUnprepared(w)
    BY <1>1, <1>2, <1>3, <1>5, TableDefiniteFailure DEF PersistUnprepared
  <1>6. CASE PersistThrown(w)
    BY <1>1, <1>2, <1>3, <1>4, <1>6, TableTerminal DEF PersistThrown
  <1>7. CASE PersistNoRecipient(w)
    BY <1>1, <1>2, <1>3, <1>4, <1>7, TableTerminal DEF PersistNoRecipient
  <1>8. CASE PersistAccepted(w)
    BY <1>1, <1>2, <1>3, <1>4, <1>8, TableTerminal DEF PersistAccepted
  <1>9. CASE PersistPartial(w)
    BY <1>1, <1>2, <1>3, <1>4, <1>9, TableTerminal DEF PersistPartial
  <1>10. CASE PersistUncertain(w)
    BY <1>1, <1>2, <1>3, <1>4, <1>10, TableTerminal DEF PersistUncertain
  <1>11. CASE PersistRejected(w)
    BY <1>1, <1>2, <1>3, <1>11, TableDefiniteFailure DEF PersistRejected
  <1> QED
    BY <1>5, <1>6, <1>7, <1>8, <1>9, <1>10, <1>11 DEF Persist

(* The steps that write no row.                                             *)
LEMMA TableQuiet ==
  ASSUME TypeInv, TableInv, UNCHANGED <<row, cycle, notices>>,
         \A w \in Workers : \/ tally'[w] = tally[w]
                            \/ tally'[w].ok + tally'[w].left <= tally'[w].of
  PROVE  TableInv'
  BY DEF TableInv, TallyBounded

LEMMA TableDelivers ==
  ASSUME TypeInv, TableInv, NEW w \in Workers,
         Address(w) \/ SendNext(w) \/ Crash(w)
  PROVE  TableInv'
  <1>1. CASE Address(w)
    <2>1. PICK n \in Nat :
            tally' = [tally EXCEPT ![w] = [NoTally EXCEPT !.of = n, !.left = n]]
      <3>1. PICK n \in IF claim[w].id \in Contacts THEN 0 .. MaxRecipients ELSE {1} :
              tally' = [tally EXCEPT ![w] = [NoTally EXCEPT !.of = n, !.left = n]]
        BY <1>1 DEF Address
      <3>2. n \in Nat
        BY <3>1, ConstantsHold DEF Constants, NumbersAssumption
      <3> QED
        BY <3>1, <3>2
    <2>2. /\ tally'[w] = [NoTally EXCEPT !.of = n, !.left = n]
          /\ \A v \in Workers \ {w} : tally'[v] = tally[v]
      BY <2>1 DEF TypeInv, TypeOK
    <2>3. tally'[w].ok + tally'[w].left <= tally'[w].of
      BY <2>2 DEF NoTally
    <2> QED
      BY <1>1, <2>2, <2>3, TableQuiet DEF Address, orderVars
  <1>2. CASE SendNext(w)
    <2>1. PICK t \in BOOLEAN, u \in BOOLEAN :
            tally' = [tally EXCEPT ![w] = counted(tally[w], t, u)]
      BY <1>2 DEF SendNext
    <2>2. /\ tally'[w] = counted(tally[w], t, u)
          /\ \A v \in Workers \ {w} : tally'[v] = tally[v]
      BY <2>1 DEF TypeInv, TypeOK
    <2>3. /\ tally[w].ok \in Nat /\ tally[w].left \in Nat /\ tally[w].of \in Nat
          /\ tally[w].ok + tally[w].left <= tally[w].of
      BY DEF TypeInv, TypeOK, TableInv, TallyBounded
    <2>4. tally'[w].ok + tally'[w].left <= tally'[w].of
      BY <2>2, <2>3 DEF counted
    <2> QED
      BY <1>2, <2>2, <2>4, TableQuiet DEF SendNext
  <1>3. CASE Crash(w)
    <2>1. /\ tally'[w] = NoTally
          /\ \A v \in Workers \ {w} : tally'[v] = tally[v]
      BY <1>3 DEF Crash, TypeInv, TypeOK
    <2>2. tally'[w].ok + tally'[w].left <= tally'[w].of
      BY <2>1 DEF NoTally
    <2> QED
      BY <1>3, <2>1, <2>2, TableQuiet DEF Crash, orderVars
  <1> QED
    BY <1>1, <1>2, <1>3

LEMMA TableStep == TypeInv /\ TableInv /\ [Next]_vars => TableInv'
  <1> SUFFICES ASSUME TypeInv, TableInv, [Next]_vars PROVE TableInv'
    OBVIOUS
  <1>1. CASE \E o \in Orders : Enqueue(o)
    BY <1>1, TableEnqueue
  <1>2. CASE ResendStep
    BY <1>2, TableResend DEF ResendStep
  <1>3. CASE \E S \in SUBSET Orders : Purge(S)
    BY <1>3, TablePurge
  <1>4. ASSUME NEW w \in Workers, Scan(w) PROVE TableInv'
    <2>1. CASE StartRun(w) \/ FetchCandidates(w) \/ Lose(w) \/ EndRun(w)
      BY <2>1, TableQuiet
      DEF StartRun, FetchCandidates, Lose, EndRun, orderVars, tryVars
    <2> QED
      BY <1>4, <2>1, TableEscalateOne, TableClearExpired, TableClaim DEF Scan
  <1>5. ASSUME NEW w \in Workers, Deliver(w) PROVE TableInv'
    BY <1>5, TableDelivers, TablePersist DEF Deliver
  <1>6. CASE \E w \in Workers : Crash(w)
    BY <1>6, TableDelivers
  <1>7. CASE \/ \E p \in Processes : Turn(p) \/ Anonymize(p)
             \/ Tick
             \/ UNCHANGED vars
    BY <1>7, TableQuiet
    DEF Turn, Anonymize, Tick, vars, orderVars, envVars, scanVars, tryVars
  <1> QED
    BY <1>1, <1>2, <1>3, <1>4, <1>5, <1>6, <1>7 DEF Next, Work

LEMMA TableAlways == Spec => [](TypeInv /\ TableInv)
  BY TypeInit, TypeStep, TableInit, TableStep, PTL DEF Spec

(* Whoever marks an order as escalated writes the staff's notification in   *)
(* the same transaction, and nobody marks it twice in a round: one          *)
(* notification per round, whichever of the runs and the scan come first.   *)
THEOREM StaffAreToldOnce == Spec => []ToldOnce
  <1>1. TypeInv /\ TableInv => ToldOnce
    BY DEF TableInv, RowSound, ToldOnce
  <1> QED
    BY <1>1, TableAlways, PTL

(* No update of the job, of a resend or of the purge breaks the table's own *)
(* CHECK constraints, whatever rows they find.                              *)
THEOREM RowsPassTheChecks == Spec => []TableChecks
  <1>1. TypeInv /\ TableInv => TableChecks
    BY DEF TableInv, RowSound, TableChecks
  <1> QED
    BY <1>1, TableAlways, PTL

-----------------------------------------------------------------------------
(* DeliveryInv is inductive; what a step does to an order's row, clock and  *)
(* claims, or to a racing run, is a step of MailDelivery or none.           *)
LEMMA DeliveryInit == Init => DeliveryInv
  <1> SUFFICES ASSUME Init PROVE DeliveryInv
    OBVIOUS
  <1>1. TypeInv
    BY TypeInit
  <1>2. ScanIsPast
    BY DEF Init, ScanIsPast
  <1>3. RoundInv
    BY DEF Init, RoundInv, ClaimState, OneClaimPerRound, HandedByClaim, HandedState,
           NoAutomaticDuplicate, TallyIsTrue, DeliveredWasHanded, NoRow
  <1> QED
    BY <1>1, <1>2, <1>3 DEF DeliveryInv

(* A claim's fields, and those of an attempt that was handed over.          *)
LEMMA HandedFacts ==
  ASSUME TypeInv, NEW h \in handed
  PROVE  /\ h[1] \in Orders /\ h[2] \in 1 .. MaxCycles /\ h[3] \in 1 .. MaxAttempts
         /\ h = <<h[1], h[2], h[3]>>
         /\ cycle[h[1]] \in 1 .. MaxCycles /\ row[h[1]] \in RowType
  <1>1. h \in Orders \X (1 .. MaxCycles) \X (1 .. MaxAttempts)
    BY DEF TypeInv, TypeOK
  <1> QED
    BY <1>1 DEF TypeInv, TypeOK

(* A step that leaves statuses, attempts, claims and what was handed over   *)
(* alone leaves the rounds alone.                                           *)
LEMMA RoundFrame ==
  ASSUME TypeInv, TypeInv', RoundInv, clock <= clock',
         UNCHANGED <<claim, cycle, confirmed, handed>>,
         \A o \in Orders : /\ row'[o].status = row[o].status
                           /\ row'[o].attempts = row[o].attempts
                           /\ row'[o].lastAt = row[o].lastAt,
         \A w \in Workers : pc'[w] \in {"preparing", "sending"} =>
                              pc'[w] = pc[w] /\ tally'[w] = tally[w]
  PROVE  RoundInv'
  <1>1. ClaimState'
    <2> SUFFICES ASSUME NEW w \in Workers, claim[w] # NoClaim
                 PROVE  /\ claim[w].cycle <= cycle[claim[w].id]
                        /\ claim[w].cycle = cycle[claim[w].id] => CurrentClaim(w)'
                        /\ claim[w].cycle < cycle[claim[w].id] => FormerClaim(w)'
      BY DEF ClaimState
    <2>1. claim[w].id \in Orders /\ claim[w].attemptAt \in Nat
      BY ClaimFacts
    <2>2. clock \in Nat /\ clock' \in Nat
      BY DEF TypeInv, TypeOK
    <2>3. claim[w].attemptAt < clock => claim[w].attemptAt < clock'
      BY <2>1, <2>2
    <2>4. CurrentClaim(w) => CurrentClaim(w)'
      BY <2>1, <2>3 DEF CurrentClaim, ownClaim
    <2>5. FormerClaim(w) => FormerClaim(w)'
      BY <2>1, <2>3 DEF FormerClaim
    <2> QED
      BY <2>4, <2>5 DEF RoundInv, ClaimState
  <1>2. OneClaimPerRound'
    BY DEF RoundInv, OneClaimPerRound
  <1>3. HandedByClaim'
    BY DEF RoundInv, HandedByClaim
  <1>4. HandedState'
    BY HandedFacts DEF RoundInv, HandedState
  <1>5. NoAutomaticDuplicate'
    BY DEF RoundInv, NoAutomaticDuplicate
  <1>6. TallyIsTrue'
    BY DEF RoundInv, TallyIsTrue, Attempt
  <1>7. DeliveredWasHanded'
    BY DEF RoundInv, DeliveredWasHanded
  <1> QED
    BY <1>1, <1>2, <1>3, <1>4, <1>5, <1>6, <1>7 DEF RoundInv

(* The ways a row changes without a run's own result: it had no claim of    *)
(* its round, it was given up in time, or it has ended.                     *)
QuietMove(o) ==
  /\ row[o].status \in {"ABSENT"} \cup Waiting
  /\ row'[o].status \in Waiting \cup {"SKIPPED"}
GivenUp(o) ==
  /\ row[o].status = "SENDING" /\ row[o].lastAt < clock
  /\ row'[o].status = "UNKNOWN" /\ row'[o].attempts = row[o].attempts
Retired(o) ==
  /\ row[o].status \in Resendable
  /\ row'[o].status = "SKIPPED" /\ row'[o].attempts = row[o].attempts
Purged(o) ==
  /\ row[o].status \in Resendable \cup Settled
  /\ row'[o].status = "PURGED"
Same(o) ==
  /\ row'[o].status = row[o].status
  /\ row'[o].attempts = row[o].attempts
  /\ row'[o].lastAt = row[o].lastAt

LEMMA RoundRows ==
  ASSUME TypeInv, TypeInv', RoundInv,
         UNCHANGED <<clock, claim, cycle, confirmed, handed, pc, tally>>,
         \A o \in Orders :
           Same(o) \/ QuietMove(o) \/ GivenUp(o) \/ Retired(o) \/ Purged(o)
  PROVE  RoundInv'
  <1> USE DEF Same, QuietMove, GivenUp, Retired, Purged, Waiting, Resendable, Settled
  <1>1. ClaimState'
    <2> SUFFICES ASSUME NEW w \in Workers, claim[w] # NoClaim
                 PROVE  /\ claim[w].cycle <= cycle[claim[w].id]
                        /\ claim[w].cycle = cycle[claim[w].id] => CurrentClaim(w)'
                        /\ claim[w].cycle < cycle[claim[w].id] => FormerClaim(w)'
      BY DEF ClaimState
    <2>1. /\ claim[w].id \in Orders /\ claim[w].attemptAt \in Nat
          /\ clock \in Nat
      BY ClaimFacts DEF TypeInv, TypeOK
    <2>2. CurrentClaim(w) => CurrentClaim(w)'
      BY <2>1 DEF CurrentClaim, ownClaim
    <2>3. FormerClaim(w) => FormerClaim(w)'
      BY <2>1 DEF FormerClaim
    <2> QED
      BY <2>2, <2>3 DEF RoundInv, ClaimState
  <1>2. OneClaimPerRound' /\ HandedByClaim' /\ NoAutomaticDuplicate'
    BY DEF RoundInv, OneClaimPerRound, HandedByClaim, NoAutomaticDuplicate
  <1>3. HandedState'
    <2> SUFFICES ASSUME NEW h \in handed, h[2] = cycle[h[1]]
                 PROVE  \/ /\ row'[h[1]].status \in {"SENDING", "UNKNOWN", "SKIPPED",
                                          "PROVIDER_ACCEPTED", "PARTIAL_FAILURE"}
                           /\ row'[h[1]].attempts = h[3]
                        \/ row'[h[1]].status = "PURGED"
      BY DEF RoundInv, HandedState
    <2>1. h[1] \in Orders
      BY HandedFacts
    <2> QED
      BY <2>1 DEF RoundInv, HandedState
  <1>4. TallyIsTrue'
    BY DEF RoundInv, TallyIsTrue, Attempt
  <1>5. DeliveredWasHanded'
    BY DEF RoundInv, DeliveredWasHanded
  <1> QED
    BY <1>1, <1>2, <1>3, <1>4, <1>5 DEF RoundInv

(* A resend begins a new round: whoever still holds a claim of the last one *)
(* had been given up, and the staff confirmed.                              *)
LEMMA RoundResend ==
  ASSUME TypeInv, TypeInv', RoundInv, NEW S \in SUBSET Orders,
         NEW first \in Orders, NEW confirm \in BOOLEAN, Resend(S, first, confirm)
  PROVE  RoundInv'
  <1> DEFINE valid == Relevant(first, clock)
  <1>1. /\ \A o \in S : row[o].status \in Resendable
        /\ (\E o \in S : row[o].status = "UNKNOWN") => confirm
        /\ UNCHANGED <<clock, claim, handed, pc, tally>>
        /\ row' = [o \in Orders |-> IF o \notin S THEN row[o]
                                    ELSE IF valid THEN requeued(o) ELSE skipped(o)]
        /\ cycle' = [o \in Orders |->
                       IF o \in S /\ valid THEN cycle[o] + 1 ELSE cycle[o]]
        /\ confirmed' = confirmed \cup
             {<<o, cycle[o] + 1>> : o \in {s \in S : valid /\ confirm}}
    BY DEF Resend, confirmedIfUnclear, tryVars
  <1>r. \A o \in Orders :
          /\ requeued(o).status = "QUEUED"
          /\ skipped(o).status = "SKIPPED"
          /\ skipped(o).attempts = row[o].attempts
    BY DEF TypeInv, TypeOK, RowType, requeued, skipped
  <1> HIDE DEF valid
  <1>2. CASE ~ valid
    <2>1. \A o \in Orders : IF o \in S THEN Retired(o) ELSE Same(o)
      BY <1>1, <1>2, <1>r DEF Retired, Same
    <2>2. UNCHANGED <<cycle, confirmed>>
      BY <1>1, <1>2 DEF TypeInv, TypeOK
    <2> QED
      BY <1>1, <2>1, <2>2, RoundRows
  <1>3. CASE valid
    <2>1. \A o \in Orders :
            IF o \in S
            THEN /\ row'[o].status = "QUEUED" /\ cycle'[o] = cycle[o] + 1
                 /\ confirm => <<o, cycle[o] + 1>> \in confirmed'
            ELSE row'[o] = row[o] /\ cycle'[o] = cycle[o]
      BY <1>1, <1>3, <1>r
    <2>2. confirmed \subseteq confirmed'
      BY <1>1
    <2>3. ClaimState'
      <3> SUFFICES ASSUME NEW w \in Workers, claim[w] # NoClaim
                   PROVE  /\ claim[w].cycle <= cycle'[claim[w].id]
                          /\ claim[w].cycle = cycle'[claim[w].id] => CurrentClaim(w)'
                          /\ claim[w].cycle < cycle'[claim[w].id] => FormerClaim(w)'
        BY <1>1 DEF ClaimState
      <3> DEFINE c == claim[w]
      <3>1. /\ c.id \in Orders /\ c.cycle \in Nat /\ cycle[c.id] \in Nat
            /\ c.attemptAt \in Nat
        BY ClaimFacts DEF TypeInv, TypeOK
      <3>2. /\ c.cycle <= cycle[c.id]
            /\ c.cycle = cycle[c.id] => CurrentClaim(w)
            /\ c.cycle < cycle[c.id] => FormerClaim(w)
        BY DEF RoundInv, ClaimState
      <3>3. CASE c.id \in S
        <4>1. c.cycle = cycle[c.id] =>
                row[c.id].status = "UNKNOWN" /\ c.attemptAt < clock
          BY <1>1, <3>2, <3>3 DEF CurrentClaim, ownClaim, Resendable
        <4>2. c.cycle = cycle[c.id] => <<c.id, c.cycle + 1>> \in confirmed'
          BY <1>1, <2>1, <3>1, <3>3, <4>1
        <4>3. c.cycle < cycle[c.id] \/ c.cycle = cycle[c.id]
          BY <3>1, <3>2
        <4>4. c.attemptAt < clock /\ <<c.id, c.cycle + 1>> \in confirmed'
          BY <2>2, <3>2, <4>1, <4>2, <4>3 DEF FormerClaim
        <4>5. row'[c.id].status = "QUEUED"
          BY <2>1, <3>1, <3>3
        <4>6. FormerClaim(w)'
          BY <1>1, <4>4, <4>5 DEF FormerClaim
        <4>7. cycle'[c.id] = cycle[c.id] + 1
          BY <2>1, <3>1, <3>3
        <4>8. c.cycle < cycle'[c.id]
          BY <3>1, <3>2, <4>7
        <4> QED
          BY <3>1, <4>6, <4>7, <4>8
      <3>4. CASE c.id \notin S
        <4>1. cycle'[c.id] = cycle[c.id] /\ row'[c.id] = row[c.id]
          BY <2>1, <3>1, <3>4
        <4>2. CurrentClaim(w) => CurrentClaim(w)'
          BY <1>1, <4>1 DEF CurrentClaim, ownClaim
        <4>3. FormerClaim(w) => FormerClaim(w)'
          BY <1>1, <2>2, <4>1 DEF FormerClaim
        <4> QED
          BY <3>2, <4>1, <4>2, <4>3
      <3> QED
        BY <3>3, <3>4
    <2>4. OneClaimPerRound' /\ HandedByClaim' /\ NoAutomaticDuplicate'
      BY <1>1 DEF RoundInv, OneClaimPerRound, HandedByClaim, NoAutomaticDuplicate
    <2>5. HandedState'
      <3> SUFFICES ASSUME NEW h \in handed
                   PROVE  LET r == row'[h[1]]
                          IN /\ h[2] <= cycle'[h[1]]
                             /\ h[2] = cycle'[h[1]] =>
                                  \/ /\ r.status \in {"SENDING", "UNKNOWN", "SKIPPED",
                                          "PROVIDER_ACCEPTED", "PARTIAL_FAILURE"}
                                     /\ r.attempts = h[3]
                                  \/ r.status = "PURGED"
                             /\ h[2] < cycle'[h[1]] =>
                                  <<h[1], h[2] + 1>> \in confirmed'
        BY <1>1 DEF HandedState
      <3>1. h[1] \in Orders /\ h[2] \in Nat /\ cycle[h[1]] \in Nat
        BY HandedFacts
      <3>2. CASE h[1] \in S
        <4>1. h[2] = cycle[h[1]] => row[h[1]].status = "UNKNOWN"
          BY <1>1, <3>2 DEF RoundInv, HandedState, Resendable
        <4>2. h[2] = cycle[h[1]] => <<h[1], h[2] + 1>> \in confirmed'
          BY <1>1, <2>1, <3>1, <3>2, <4>1
        <4>3. cycle'[h[1]] = cycle[h[1]] + 1
          BY <2>1, <3>1, <3>2
        <4>4. /\ h[2] <= cycle[h[1]]
              /\ h[2] < cycle[h[1]] => <<h[1], h[2] + 1>> \in confirmed'
          BY <2>2 DEF RoundInv, HandedState
        <4>5. h[2] < cycle[h[1]] \/ h[2] = cycle[h[1]]
          BY <3>1, <4>4
        <4>6. <<h[1], h[2] + 1>> \in confirmed'
          BY <4>2, <4>4, <4>5
        <4>7. h[2] < cycle'[h[1]]
          BY <3>1, <4>3, <4>4
        <4> QED
          BY <3>1, <4>3, <4>6, <4>7
      <3>3. CASE h[1] \notin S
        BY <2>1, <2>2, <3>1, <3>3 DEF RoundInv, HandedState
      <3> QED
        BY <3>2, <3>3
    <2>6. TallyIsTrue'
      BY <1>1 DEF RoundInv, TallyIsTrue, Attempt
    <2>7. DeliveredWasHanded'
      BY <1>1, <2>1 DEF RoundInv, DeliveredWasHanded
    <2> QED
      BY <2>3, <2>4, <2>5, <2>6, <2>7 DEF RoundInv
  <1> QED
    BY <1>2, <1>3

LEMMA NoClaimFacts ==
  /\ NoClaim.id \notin Orders
  /\ \A w \in Workers : claim[w] = NoClaim => claim[w].id \notin Orders
  BY ConstantsHold DEF NoClaim, Constants, OrdersAssumption

(* A claim whose token matches the row is of the current round.             *)
LEMMA OwnIsCurrent ==
  ASSUME TypeInv, RoundInv, NEW w \in Workers, claim[w] # NoClaim, ownClaim(w)
  PROVE  claim[w].cycle = cycle[claim[w].id]
  <1> DEFINE c == claim[w]
  <1>1. /\ c.id \in Orders /\ c.cycle \in Nat /\ cycle[c.id] \in Nat
        /\ c.attemptAt \in Nat
    BY ClaimFacts DEF TypeInv, TypeOK
  <1>2. c.cycle <= cycle[c.id] /\ (c.cycle < cycle[c.id] => FormerClaim(w))
    BY DEF RoundInv, ClaimState
  <1>3. ~ FormerClaim(w)
    BY <1>1 DEF FormerClaim, ownClaim
  <1> QED
    BY <1>1, <1>2, <1>3

(* A run lets its claim go and changes, at most, the row it owns.           *)
LEMMA RoundRelease ==
  ASSUME TypeInv, TypeInv', RoundInv, NEW w \in Workers,
         claim' = [claim EXCEPT ![w] = NoClaim],
         UNCHANGED <<clock, cycle, confirmed, handed>>,
         pc'[w] \notin {"preparing", "sending"},
         \A v \in Workers \ {w} : pc'[v] = pc[v] /\ tally'[v] = tally[v],
         \/ row' = row
         \/ LET o == claim[w].id
            IN /\ claim[w] # NoClaim /\ ownClaim(w)
               /\ \A p \in Orders \ {o} : row'[p] = row[p]
               /\ row'[o].attempts = row[o].attempts
               /\ \/ row'[o].status = "UNKNOWN"
                  \/ /\ row'[o].status \in {"PROVIDER_ACCEPTED", "PARTIAL_FAILURE"}
                     /\ Attempt(w) \in handed
                  \/ /\ row'[o].status \in Waiting \cup {"FAILED", "NO_RECIPIENT"}
                     /\ Attempt(w) \notin handed
  PROVE  RoundInv'
  <1> DEFINE o == claim[w].id
             Wrote ==
               /\ claim[w] # NoClaim /\ ownClaim(w)
               /\ \A p \in Orders \ {o} : row'[p] = row[p]
               /\ row'[o].attempts = row[o].attempts
               /\ \/ row'[o].status = "UNKNOWN"
                  \/ /\ row'[o].status \in {"PROVIDER_ACCEPTED", "PARTIAL_FAILURE"}
                     /\ Attempt(w) \in handed
                  \/ /\ row'[o].status \in Waiting \cup {"FAILED", "NO_RECIPIENT"}
                     /\ Attempt(w) \notin handed
  <1>0. row' = row \/ Wrote
    OBVIOUS
  <1>1. /\ claim'[w] = NoClaim
        /\ \A v \in Workers \ {w} : claim'[v] = claim[v]
    BY DEF TypeInv, TypeOK
  <1>2. Wrote => /\ o \in Orders /\ claim[w].cycle = cycle[o]
                 /\ row[o].attempts = claim[w].attemptNo
                 /\ Attempt(w) = <<o, cycle[o], row[o].attempts>>
    BY ClaimFacts, OwnIsCurrent DEF ownClaim, Attempt
  <1>3. ASSUME Wrote, NEW h \in handed, h[1] = o, h[2] = cycle[o]
        PROVE  h = Attempt(w)
    BY <1>2, <1>3, HandedFacts DEF RoundInv, HandedByClaim, Attempt
  <1>4. ClaimState'
    <2> SUFFICES ASSUME NEW v \in Workers, claim'[v] # NoClaim
                 PROVE  /\ claim[v].cycle <= cycle[claim[v].id]
                        /\ claim[v].cycle = cycle[claim[v].id] => CurrentClaim(v)'
                        /\ claim[v].cycle < cycle[claim[v].id] => FormerClaim(v)'
      BY <1>1 DEF ClaimState
    <2>1. v # w /\ claim'[v] = claim[v] /\ claim[v] # NoClaim
      BY <1>1
    <2>2. claim[v].id \in Orders
      BY <2>1, ClaimFacts
    <2>3. /\ claim[v].cycle <= cycle[claim[v].id]
          /\ claim[v].cycle = cycle[claim[v].id] => CurrentClaim(v)
          /\ claim[v].cycle < cycle[claim[v].id] => FormerClaim(v)
      BY <2>1 DEF RoundInv, ClaimState
    <2>4. CASE row'[claim[v].id] = row[claim[v].id]
      BY <2>1, <2>3, <2>4 DEF CurrentClaim, FormerClaim, ownClaim
    <2>5. CASE Wrote /\ claim[v].id = o
      <3>1. claim[v].cycle # cycle[o]
        BY <1>2, <2>1, <2>5 DEF RoundInv, OneClaimPerRound
      <3>2. row'[o].status # "SENDING"
        BY <2>5 DEF Waiting
      <3>3. FormerClaim(v) => FormerClaim(v)'
        BY <2>1, <2>5, <3>2 DEF FormerClaim
      <3> QED
        BY <2>3, <2>5, <3>1, <3>3
    <2> QED
      BY <1>0, <2>2, <2>4, <2>5
  <1>5. OneClaimPerRound'
    BY <1>1, ClaimFacts, NoClaimFacts DEF RoundInv, OneClaimPerRound
  <1>6. HandedByClaim'
    BY <1>1, HandedFacts, NoClaimFacts DEF RoundInv, HandedByClaim
  <1>7. HandedState'
    <2> SUFFICES ASSUME NEW h \in handed, h[2] = cycle[h[1]]
                 PROVE  \/ /\ row'[h[1]].status \in {"SENDING", "UNKNOWN", "SKIPPED",
                                          "PROVIDER_ACCEPTED", "PARTIAL_FAILURE"}
                           /\ row'[h[1]].attempts = h[3]
                        \/ row'[h[1]].status = "PURGED"
      BY DEF RoundInv, HandedState
    <2>1. h[1] \in Orders
      BY HandedFacts
    <2>2. CASE row'[h[1]] = row[h[1]]
      BY <2>2 DEF RoundInv, HandedState
    <2>3. CASE Wrote /\ h[1] = o
      <3>1. h = Attempt(w) /\ h[3] = row[o].attempts
        BY <1>2, <1>3, <2>3
      <3> QED
        BY <2>3, <3>1
    <2> QED
      BY <1>0, <2>1, <2>2, <2>3
  <1>8. NoAutomaticDuplicate'
    BY DEF RoundInv, NoAutomaticDuplicate
  <1>9. TallyIsTrue'
    BY <1>1 DEF RoundInv, TallyIsTrue, Attempt
  <1>10. DeliveredWasHanded'
    <2> SUFFICES ASSUME NEW p \in Orders,
                        row'[p].status \in {"PROVIDER_ACCEPTED", "PARTIAL_FAILURE"}
                 PROVE  <<p, cycle[p], row'[p].attempts>> \in handed
      BY DEF DeliveredWasHanded
    <2>1. CASE row'[p] = row[p]
      BY <2>1 DEF RoundInv, DeliveredWasHanded
    <2>2. CASE Wrote /\ p = o
      BY <1>2, <2>2 DEF Waiting
    <2> QED
      BY <1>0, <2>1, <2>2
  <1> QED
    BY <1>4, <1>5, <1>6, <1>7, <1>8, <1>9, <1>10 DEF RoundInv

LEMMA RoundCrash ==
  ASSUME TypeInv, TypeInv', RoundInv, NEW w \in Workers, Crash(w)
  PROVE  RoundInv'
  <1>1. /\ claim' = [claim EXCEPT ![w] = NoClaim]
        /\ UNCHANGED <<row, clock, cycle, confirmed, handed>>
        /\ pc'[w] = "idle"
        /\ \A v \in Workers \ {w} : pc'[v] = pc[v] /\ tally'[v] = tally[v]
    BY DEF Crash, orderVars, TypeInv, TypeOK
  <1> QED
    BY <1>1, RoundRelease

(* What a run may write over its own claim, given what it handed over.       *)
Truthful(w, status) ==
  \/ status = "UNKNOWN"
  \/ status \in {"PROVIDER_ACCEPTED", "PARTIAL_FAILURE"} /\ Attempt(w) \in handed
  \/ /\ status \in Waiting \cup {"FAILED", "NO_RECIPIENT"}
     /\ Attempt(w) \notin handed

LEMMA RoundRecord ==
  ASSUME TypeInv, TypeInv', RoundInv, NEW w \in Workers, claim[w] # NoClaim,
         NEW r, NEW tell, r.attempts = row[claim[w].id].attempts,
         Truthful(w, r.status), Record(w, r, tell)
  PROVE  RoundInv'
  <1> DEFINE o == claim[w].id
  <1>1. o \in Orders
    BY ClaimFacts
  <1>2. /\ claim' = [claim EXCEPT ![w] = NoClaim]
        /\ UNCHANGED <<clock, cycle, confirmed, handed>>
        /\ row' = IF ownClaim(w) THEN [row EXCEPT ![o] = r] ELSE row
    BY DEF Record
  <1>3. /\ pc'[w] = "working"
        /\ \A v \in Workers \ {w} : pc'[v] = pc[v] /\ tally'[v] = tally[v]
    BY DEF Record, TypeInv, TypeOK
  <1>4. CASE ~ ownClaim(w)
    BY <1>2, <1>3, <1>4, RoundRelease
  <1>5. CASE ownClaim(w)
    <2>1. row'[o] = r /\ \A p \in Orders \ {o} : row'[p] = row[p]
      BY <1>1, <1>2, <1>5 DEF TypeInv, TypeOK
    <2>2. \/ row'[o].status = "UNKNOWN"
          \/ /\ row'[o].status \in {"PROVIDER_ACCEPTED", "PARTIAL_FAILURE"}
             /\ Attempt(w) \in handed
          \/ /\ row'[o].status \in Waiting \cup {"FAILED", "NO_RECIPIENT"}
             /\ Attempt(w) \notin handed
      BY <2>1 DEF Truthful
    <2>3. row'[o].attempts = row[o].attempts
      BY <2>1
    <2> QED
      BY <1>2, <1>3, <1>5, <2>1, <2>2, <2>3, RoundRelease
  <1> QED
    BY <1>4, <1>5

(* Both ways to end an attempt write one row, of the status they say.       *)
LEMMA TerminalRecords ==
  ASSUME TypeInv, NEW w \in Workers, claim[w] # NoClaim, NEW status, NEW counts,
         persistTerminal(w, status, counts)
  PROVE  \E r, tell : /\ Record(w, r, tell) /\ r.status = status
                      /\ r.attempts = row[claim[w].id].attempts
  <1> DEFINE o == claim[w].id
             at == IF status \in Escalated THEN claim[w].attemptAt ELSE NoTime
             kept == row[o].content /\ terminalContent(o, status)
             a == counts[1]
             b == counts[2]
             r == [row[o] EXCEPT
                     !.status = status, !.nextAt = NoTime, !.updatedAt = clock,
                     !.escalatedAt = at, !.content = kept,
                     !.attempted = a, !.accepted = b]
  <1>1. r.status = status /\ r.attempts = row[o].attempts
    <2> HIDE DEF at, kept, a, b
    <2> QED
      BY ClaimFacts DEF RowType
  <1>2. Record(w, r, status \in Escalated)
    BY DEF persistTerminal
  <1> QED
    <2> HIDE DEF r
    <2> QED
      BY <1>1, <1>2

LEMMA DefiniteFailureRecords ==
  ASSUME TypeInv, NEW w \in Workers, claim[w] # NoClaim, NEW counts,
         persistDefiniteFailure(w, counts)
  PROVE  \E r, tell : /\ Record(w, r, tell)
                      /\ r.status \in {"FAILED", "RETRY_PENDING"}
                      /\ r.attempts = row[claim[w].id].attempts
  <1> DEFINE c == claim[w]
             at == c.attemptAt + RetryDelay[c.attemptNo]
             a == counts[1]
             b == counts[2]
             r == [row[c.id] EXCEPT
                     !.status = "RETRY_PENDING", !.updatedAt = clock,
                     !.nextAt = at, !.attempted = a, !.accepted = b]
  <1>1. CASE c.attemptNo >= MaxAttempts
    <2>1. persistTerminal(w, "FAILED", counts)
      BY <1>1 DEF persistDefiniteFailure
    <2>2. PICK s, tell : /\ Record(w, s, tell) /\ s.status = "FAILED"
                         /\ s.attempts = row[c.id].attempts
      BY <2>1, TerminalRecords
    <2> QED
      BY <2>2
  <1>2. CASE ~ (c.attemptNo >= MaxAttempts)
    <2>1. r.status = "RETRY_PENDING" /\ r.attempts = row[c.id].attempts
      <3> HIDE DEF at, a, b
      <3> QED
        BY ClaimFacts DEF RowType
    <2>2. Record(w, r, FALSE)
      BY <1>2 DEF persistDefiniteFailure
    <2> QED
      <3> HIDE DEF r
      <3> QED
        BY <2>1, <2>2
  <1> QED
    BY <1>1, <1>2

(* Every result a run writes is true of what it handed over.                *)
Reports(w) ==
  \E r, tell : /\ Record(w, r, tell) /\ Truthful(w, r.status)
               /\ r.attempts = row[claim[w].id].attempts

LEMMA PersistIsTruthful ==
  ASSUME TypeInv, RoundInv, NEW w \in Workers, Persist(w)
  PROVE  claim[w] # NoClaim /\ Reports(w)
  <1>1. claim[w] # NoClaim
    BY DEF TypeInv, ClaimHeld, Persist, PersistUnprepared, PersistThrown,
           PersistNoRecipient, PersistAccepted, PersistPartial, PersistUncertain,
           PersistRejected, answered
  <1> SUFFICES Reports(w)
    BY <1>1
  <1>2. /\ pc[w] = "preparing" => Attempt(w) \notin handed
        /\ pc[w] = "sending" =>
             /\ tally[w].ok > 0 => Attempt(w) \in handed
             /\ Attempt(w) \in handed =>
                  tally[w].of > 0 /\ (tally[w].unsure \/ tally[w].ok > 0)
        /\ tally[w].of \in Nat /\ tally[w].ok \in Nat
    BY DEF RoundInv, TallyIsTrue, TypeInv, TypeOK
  <1>3. ASSUME NEW status, NEW counts, Truthful(w, status),
               persistTerminal(w, status, counts)
        PROVE  Reports(w)
    BY <1>1, <1>3, TerminalRecords DEF Reports
  <1>4. ASSUME NEW counts, Attempt(w) \notin handed, persistDefiniteFailure(w, counts)
        PROVE  Reports(w)
    BY <1>1, <1>4, DefiniteFailureRecords DEF Reports, Truthful, Waiting
  <1>5. CASE PersistUnprepared(w)
    BY <1>2, <1>4, <1>5 DEF PersistUnprepared
  <1>6. CASE PersistThrown(w) \/ PersistUncertain(w)
    BY <1>3, <1>6 DEF PersistThrown, PersistUncertain, Truthful
  <1>7. CASE PersistNoRecipient(w)
    <2>1. Attempt(w) \notin handed
      BY <1>2, <1>7 DEF PersistNoRecipient, answered
    <2> QED
      BY <1>3, <1>7, <2>1 DEF PersistNoRecipient, Truthful
  <1>8. CASE PersistAccepted(w) \/ PersistPartial(w)
    <2>1. Attempt(w) \in handed
      BY <1>2, <1>8 DEF PersistAccepted, PersistPartial, answered
    <2> QED
      BY <1>3, <1>8, <2>1 DEF PersistAccepted, PersistPartial, Truthful
  <1>9. CASE PersistRejected(w)
    <2>1. Attempt(w) \notin handed
      BY <1>2, <1>9 DEF PersistRejected, answered
    <2> QED
      BY <1>4, <1>9, <2>1 DEF PersistRejected
  <1> QED
    BY <1>5, <1>6, <1>7, <1>8, <1>9 DEF Persist

LEMMA RoundPersist ==
  ASSUME TypeInv, TypeInv', RoundInv, NEW w \in Workers, Persist(w)
  PROVE  RoundInv'
  <1>1. PICK r, tell : /\ Record(w, r, tell) /\ Truthful(w, r.status)
                       /\ r.attempts = row[claim[w].id].attempts
    BY PersistIsTruthful DEF Reports
  <1> QED
    BY <1>1, PersistIsTruthful, RoundRecord

(* A claim is taken on a waiting order: nothing of its round is under way   *)
(* or was handed over, and former attempts lie in the past.                 *)
LEMMA RoundClaim ==
  ASSUME TypeInv, TypeInv', RoundInv, NEW w \in Workers, Claim(w)
  PROVE  RoundInv'
  <1>1. PICK c \in batch[w] :
          /\ unchanged(c)
          /\ row' = [row EXCEPT ![c.id] = started(c.id)]
          /\ claim' = [claim EXCEPT ![w] =
               [id |-> c.id, attemptNo |-> c.attempts + 1, attemptAt |-> clock,
                cycle |-> cycle[c.id]]]
    BY DEF Claim
  <1> DEFINE o == c.id
             d == [id |-> o, attemptNo |-> c.attempts + 1, attemptAt |-> clock,
                   cycle |-> cycle[o]]
             r == started(o)
  <1>2. /\ o \in Orders /\ c.attempts \in Nat /\ clock \in Nat
        /\ cycle[o] \in Nat
        /\ row[o].status \in Waiting /\ row[o].attempts = c.attempts
    <2>1. o \in Orders /\ c.status \in Waiting
      BY CandidateFacts
    <2>2. row[o].status = c.status /\ row[o].attempts = c.attempts
      BY <1>1 DEF unchanged
    <2>3. row[o].attempts \in Nat
      BY <2>1 DEF TypeInv, TypeOK, RowType
    <2>4. cycle[o] \in Nat /\ clock \in Nat
      BY <2>1 DEF TypeInv, TypeOK
    <2> QED
      BY <2>1, <2>2, <2>3, <2>4
  <1>3. r.status = "SENDING" /\ r.attempts = c.attempts + 1 /\ r.lastAt = clock
    BY <1>1, <1>2, CandidateFacts DEF started, RowType
  <1>4. /\ d.id = o /\ d.attemptNo = c.attempts + 1 /\ d.attemptAt = clock
        /\ d.cycle = cycle[o]
    OBVIOUS
  <1>5. claim[w] = NoClaim
    BY DEF Claim, TypeInv, ClaimHeld
  <1>6. /\ claim'[w] = d
        /\ \A v \in Workers \ {w} : claim'[v] = claim[v]
        /\ row'[o] = r
        /\ \A p \in Orders \ {o} : row'[p] = row[p]
    BY <1>1, <1>2 DEF TypeInv, TypeOK
  <1>7. /\ pc'[w] = "preparing"
        /\ \A v \in Workers \ {w} : pc'[v] = pc[v]
        /\ UNCHANGED <<clock, cycle, confirmed, handed, tally>>
    BY DEF Claim, TypeInv, TypeOK
  <1> HIDE DEF d, r
  <1>8. ASSUME NEW v \in Workers, claim[v] # NoClaim, claim[v].id = o
        PROVE  claim[v].cycle < cycle[o] /\ FormerClaim(v)
    <2>1. ~ CurrentClaim(v)
      BY <1>2, <1>8 DEF CurrentClaim, ownClaim, Waiting
    <2>2. claim[v].cycle <= cycle[o] /\ claim[v].cycle # cycle[o]
      BY <1>8, <2>1 DEF RoundInv, ClaimState
    <2>3. claim[v].cycle \in Nat
      BY <1>8, ClaimFacts
    <2>4. claim[v].cycle < cycle[o]
      BY <1>2, <2>2, <2>3
    <2> QED
      BY <1>8, <2>4 DEF RoundInv, ClaimState
  <1>9. ASSUME NEW h \in handed, h[1] = o PROVE h[2] # cycle[o]
    BY <1>2, <1>9 DEF RoundInv, HandedState, Waiting
  <1>10. ClaimState'
    <2> SUFFICES ASSUME NEW v \in Workers, claim'[v] # NoClaim
                 PROVE  /\ claim'[v].cycle <= cycle[claim'[v].id]
                        /\ claim'[v].cycle = cycle[claim'[v].id] => CurrentClaim(v)'
                        /\ claim'[v].cycle < cycle[claim'[v].id] => FormerClaim(v)'
      BY <1>7 DEF ClaimState
    <2>1. CASE v = w
      <3>1. CurrentClaim(v)'
        BY <1>3, <1>4, <1>6, <2>1 DEF CurrentClaim, ownClaim
      <3> QED
        BY <1>2, <1>4, <1>6, <2>1, <3>1
    <2>2. CASE v # w
      <3>1. claim'[v] = claim[v] /\ claim[v] # NoClaim /\ claim[v].id \in Orders
        BY <1>6, <2>2, ClaimFacts
      <3>2. CASE claim[v].id = o
        <4>1. claim[v].cycle < cycle[o] /\ FormerClaim(v)
          BY <1>8, <3>1, <3>2
        <4>2. FormerClaim(v)'
          BY <1>3, <1>6, <1>7, <3>1, <3>2, <4>1 DEF FormerClaim
        <4>3. claim[v].cycle \in Nat
          BY <3>1, ClaimFacts
        <4> QED
          BY <1>2, <3>1, <3>2, <4>1, <4>2, <4>3
      <3>3. CASE claim[v].id # o
        <4>1. row'[claim[v].id] = row[claim[v].id]
          BY <1>6, <3>1, <3>3
        <4> QED
          BY <1>7, <3>1, <4>1
          DEF RoundInv, ClaimState, CurrentClaim, FormerClaim, ownClaim
      <3> QED
        BY <3>2, <3>3
    <2> QED
      BY <2>1, <2>2
  <1>11. OneClaimPerRound'
    <2> SUFFICES ASSUME NEW u \in Workers, NEW v \in Workers,
                        claim'[u] # NoClaim, claim'[u].id = claim'[v].id,
                        claim'[u].cycle = claim'[v].cycle, u # v
                 PROVE  FALSE
      BY DEF OneClaimPerRound
    <2>0. claim'[v] # NoClaim
      BY <1>2, <1>4, <1>6, ClaimFacts, NoClaimFacts
    <2>1. CASE u = w
      <3>1. v # w /\ claim[v] # NoClaim /\ claim[v].id = o
            /\ claim[v].cycle = cycle[o]
        BY <1>4, <1>6, <2>0, <2>1
      <3>2. claim[v].cycle < cycle[o]
        BY <1>8, <3>1
      <3> QED
        BY <1>2, <3>1, <3>2
    <2>2. CASE v = w
      <3>1. u # w /\ claim[u] # NoClaim /\ claim[u].id = o
            /\ claim[u].cycle = cycle[o]
        BY <1>4, <1>6, <2>2
      <3>2. claim[u].cycle < cycle[o]
        BY <1>8, <3>1
      <3> QED
        BY <1>2, <3>1, <3>2
    <2>3. CASE u # w /\ v # w
      BY <1>6, <2>3 DEF RoundInv, OneClaimPerRound
    <2> QED
      BY <2>1, <2>2, <2>3
  <1>12. HandedByClaim'
    BY <1>4, <1>6, <1>7, <1>9 DEF RoundInv, HandedByClaim
  <1>13. HandedState'
    <2> SUFFICES ASSUME NEW h \in handed, h[2] = cycle[h[1]]
                 PROVE  \/ /\ row'[h[1]].status \in {"SENDING", "UNKNOWN", "SKIPPED",
                                          "PROVIDER_ACCEPTED", "PARTIAL_FAILURE"}
                           /\ row'[h[1]].attempts = h[3]
                        \/ row'[h[1]].status = "PURGED"
      BY <1>7 DEF RoundInv, HandedState
    <2>1. h[1] \in Orders /\ h[1] # o
      BY <1>9, HandedFacts
    <2> QED
      BY <1>6, <2>1 DEF RoundInv, HandedState
  <1>14. NoAutomaticDuplicate'
    BY <1>7 DEF RoundInv, NoAutomaticDuplicate
  <1>15. TallyIsTrue'
    <2>1. Attempt(w)' \notin handed
      <3>1. Attempt(w)' = <<o, cycle[o], c.attempts + 1>>
        BY <1>4, <1>6 DEF Attempt
      <3> QED
        BY <1>9, <3>1
    <2> QED
      BY <1>6, <1>7, <2>1 DEF RoundInv, TallyIsTrue, Attempt
  <1>16. DeliveredWasHanded'
    BY <1>3, <1>6, <1>7 DEF RoundInv, DeliveredWasHanded
  <1> QED
    BY <1>10, <1>11, <1>12, <1>13, <1>14, <1>15, <1>16 DEF RoundInv

(* Recipients are addressed: nothing was handed over by this claim yet.      *)
LEMMA RoundAddress ==
  ASSUME TypeInv, TypeInv', RoundInv, NEW w \in Workers, Address(w)
  PROVE  RoundInv'
  <1>1. PICK n : tally' = [tally EXCEPT ![w] = [NoTally EXCEPT !.of = n, !.left = n]]
    BY DEF Address
  <1>2. /\ UNCHANGED <<row, clock, claim, cycle, confirmed, handed>>
        /\ pc[w] = "preparing" /\ pc'[w] = "sending"
        /\ \A v \in Workers \ {w} : pc'[v] = pc[v] /\ tally'[v] = tally[v]
    BY DEF Address, orderVars, TypeInv, TypeOK
  <1>3. ClaimState' /\ OneClaimPerRound' /\ HandedByClaim' /\ HandedState'
        /\ NoAutomaticDuplicate' /\ DeliveredWasHanded'
    BY <1>2 DEF RoundInv, ClaimState, CurrentClaim, FormerClaim, ownClaim,
                OneClaimPerRound, HandedByClaim, HandedState,
                NoAutomaticDuplicate, DeliveredWasHanded
  <1>4. TallyIsTrue'
    <2>1. Attempt(w)' \notin handed'
      BY <1>2 DEF RoundInv, TallyIsTrue, Attempt
    <2>2. tally'[w].of = n /\ tally'[w].left = n /\ tally'[w].ok = 0
      BY <1>1 DEF TypeInv, TypeOK, NoTally
    <2>3. n \in Nat
      BY <2>2 DEF TypeInv, TypeOK
    <2>4. tally'[w].left <= tally'[w].of /\ ~ (tally'[w].ok > 0)
      BY <2>2, <2>3
    <2> QED
      BY <1>2, <2>1, <2>4 DEF RoundInv, TallyIsTrue, Attempt
  <1> QED
    BY <1>3, <1>4 DEF RoundInv

(* The provider takes a mail: it counts for this claim and no other, and    *)
(* the run keeps in mind that it may have happened.                         *)
LEMMA RoundSendNext ==
  ASSUME TypeInv, TypeInv', RoundInv, NEW w \in Workers, SendNext(w)
  PROVE  RoundInv'
  <1>1. PICK taken \in BOOLEAN, conclusive \in BOOLEAN :
          /\ handed' = IF taken THEN handed \cup {Attempt(w)} ELSE handed
          /\ tally' = [tally EXCEPT ![w] = counted(tally[w], taken, conclusive)]
    BY DEF SendNext
  <1>2. /\ UNCHANGED <<row, cycle, confirmed, clock, claim, pc>>
        /\ pc[w] = "sending" /\ tally[w].left > 0
    BY DEF SendNext
  <1> DEFINE a == Attempt(w)
             c == claim[w]
  <1>3. c # NoClaim
    BY <1>2 DEF TypeInv, ClaimHeld
  <1>4. /\ c.id \in Orders /\ c.cycle \in Nat /\ c.attemptNo \in Nat
        /\ cycle[c.id] \in Nat
        /\ a[1] = c.id /\ a[2] = c.cycle /\ a[3] = c.attemptNo
    BY <1>3, ClaimFacts DEF Attempt, TypeInv, TypeOK
  <1>5. handed \subseteq handed' /\ handed' \subseteq handed \cup {a}
    BY <1>1
  <1>6. ASSUME NEW v \in Workers, claim[v].id = c.id, claim[v].cycle = c.cycle
        PROVE  v = w
    BY <1>3, <1>6 DEF RoundInv, OneClaimPerRound
  <1> HIDE DEF a
  <1>7. ClaimState' /\ OneClaimPerRound' /\ DeliveredWasHanded'
    BY <1>2, <1>5 DEF RoundInv, ClaimState, CurrentClaim, FormerClaim, ownClaim,
                      OneClaimPerRound, DeliveredWasHanded
  <1>8. HandedByClaim'
    BY <1>2, <1>4, <1>5, <1>6 DEF RoundInv, HandedByClaim
  <1>9. NoAutomaticDuplicate'
    <2>1. \A h \in handed : h[1] = c.id /\ h[2] = c.cycle => h[3] = c.attemptNo
      BY DEF RoundInv, HandedByClaim
    <2> QED
      BY <1>4, <1>5, <2>1 DEF RoundInv, NoAutomaticDuplicate
  <1>10. HandedState'
    <2>1. /\ c.cycle <= cycle[c.id]
          /\ c.cycle = cycle[c.id] => CurrentClaim(w)
          /\ c.cycle < cycle[c.id] => FormerClaim(w)
      BY <1>3 DEF RoundInv, ClaimState
    <2>2. c.cycle = cycle[c.id] =>
            \/ /\ row[c.id].status \in {"SENDING", "UNKNOWN", "SKIPPED"}
               /\ row[c.id].attempts = c.attemptNo
            \/ row[c.id].status = "PURGED"
      BY <2>1 DEF CurrentClaim, ownClaim
    <2>3. c.cycle < cycle[c.id] => <<c.id, c.cycle + 1>> \in confirmed
      BY <2>1 DEF FormerClaim
    <2>4. \A h \in handed \cup {a} :
            LET r == row[h[1]]
            IN /\ h[2] <= cycle[h[1]]
               /\ h[2] = cycle[h[1]] =>
                    \/ /\ r.status \in {"SENDING", "UNKNOWN", "SKIPPED",
                                        "PROVIDER_ACCEPTED", "PARTIAL_FAILURE"}
                       /\ r.attempts = h[3]
                    \/ r.status = "PURGED"
               /\ h[2] < cycle[h[1]] => <<h[1], h[2] + 1>> \in confirmed
      BY <1>4, <2>1, <2>2, <2>3 DEF RoundInv, HandedState
    <2> QED
      BY <1>2, <1>5, <2>4 DEF HandedState
  <1>11. TallyIsTrue'
    <2> SUFFICES ASSUME NEW v \in Workers
                 PROVE  /\ pc[v] = "preparing" => Attempt(v) \notin handed'
                        /\ pc[v] = "sending" =>
                             /\ tally'[v].left <= tally'[v].of
                             /\ tally'[v].ok > 0 => Attempt(v) \in handed'
                             /\ Attempt(v) \in handed' =>
                                  /\ tally'[v].of > 0
                                  /\ tally'[v].unsure \/ tally'[v].ok > 0
      BY <1>2 DEF TallyIsTrue, Attempt
    <2>1. CASE v = w
      <3>1. /\ tally[w].of \in Nat /\ tally[w].left \in Nat /\ tally[w].ok \in Nat
            /\ tally[w].unsure \in BOOLEAN
            /\ tally[w].left <= tally[w].of
            /\ tally[w].ok > 0 => a \in handed
            /\ a \in handed => tally[w].unsure \/ tally[w].ok > 0
        BY <1>2 DEF RoundInv, TallyIsTrue, TypeInv, TypeOK, a
      <3>2. tally'[w] = counted(tally[w], taken, conclusive)
        BY <1>1 DEF TypeInv, TypeOK
      <3>3. /\ tally'[w].of = tally[w].of /\ tally'[w].left = tally[w].left - 1
            /\ tally'[w].ok = IF taken /\ conclusive
                              THEN tally[w].ok + 1 ELSE tally[w].ok
            /\ tally'[w].unsure = (tally[w].unsure \/ ~ conclusive)
        BY <3>2 DEF counted
      <3>4. tally'[w].left <= tally'[w].of /\ tally'[w].of > 0
        BY <1>2, <3>1, <3>3
      <3>5. tally'[w].ok > 0 => a \in handed'
        BY <1>1, <3>1, <3>3 DEF a
      <3>6. a \in handed' => tally'[w].unsure \/ tally'[w].ok > 0
        <4>1. CASE taken /\ conclusive
          BY <3>1, <3>3, <4>1
        <4>2. CASE taken /\ ~ conclusive
          BY <3>3, <4>2
        <4>3. CASE ~ taken
          BY <1>1, <3>1, <3>3, <4>3
        <4> QED
          BY <4>1, <4>2, <4>3
      <3> QED
        BY <1>2, <2>1, <3>4, <3>5, <3>6 DEF a
    <2>2. CASE v # w
      <3>1. tally'[v] = tally[v]
        BY <1>1, <2>2 DEF TypeInv, TypeOK
      <3>2. pc[v] \in {"preparing", "sending"} => Attempt(v) # a
        BY <1>4, <1>6, <2>2 DEF Attempt
      <3>3. pc[v] \in {"preparing", "sending"} =>
              (Attempt(v) \in handed' <=> Attempt(v) \in handed)
        BY <1>5, <3>2
      <3> QED
        BY <3>1, <3>3 DEF RoundInv, TallyIsTrue
    <2> QED
      BY <2>1, <2>2
  <1> QED
    BY <1>7, <1>8, <1>9, <1>10, <1>11 DEF RoundInv

(* The run's other steps change no status, or only in one of the quiet ways. *)
LEMMA RoundQuiet ==
  ASSUME TypeInv, TypeInv', RoundInv, ScanIsPast, NEW w \in Workers,
         \/ StartRun(w) \/ EscalateOne(w) \/ ClearExpired(w)
         \/ FetchCandidates(w) \/ Skip(w) \/ Lose(w) \/ EndRun(w)
  PROVE  RoundInv'
  <1> USE DEF orderVars, tryVars
  <1>1. CASE StartRun(w) \/ FetchCandidates(w) \/ Lose(w) \/ EndRun(w)
    <2>1. /\ UNCHANGED <<row, clock, claim, tally, cycle, confirmed, handed>>
          /\ \A v \in Workers :
               pc'[v] \in {"preparing", "sending"} => pc'[v] = pc[v]
      BY <1>1 DEF StartRun, FetchCandidates, Lose, EndRun, TypeInv, TypeOK
    <2>2. clock <= clock'
      BY <2>1 DEF TypeInv, TypeOK
    <2> QED
      BY <2>1, <2>2, RoundFrame
  <1>2. CASE ClearExpired(w)
    <2>1. /\ UNCHANGED <<clock, claim, tally, cycle, confirmed, handed>>
          /\ \A v \in Workers :
               pc'[v] \in {"preparing", "sending"} => pc'[v] = pc[v]
      BY <1>2 DEF ClearExpired, TypeInv, TypeOK
    <2>2. ASSUME NEW o \in Orders
          PROVE  /\ row'[o].status = row[o].status
                 /\ row'[o].attempts = row[o].attempts
                 /\ row'[o].lastAt = row[o].lastAt
      <3>1. row[o] \in RowType
        BY DEF TypeInv, TypeOK
      <3>2. row'[o] = IF expired(o, now[w])
                      THEN [row[o] EXCEPT !.content = FALSE, !.updatedAt = clock]
                      ELSE row[o]
        BY <1>2 DEF ClearExpired
      <3> QED
        BY <3>1, <3>2 DEF RowType
    <2>3. clock <= clock'
      BY <2>1 DEF TypeInv, TypeOK
    <2> QED
      BY <2>1, <2>2, <2>3, RoundFrame
  <1>3. CASE EscalateOne(w)
    <2>1. UNCHANGED <<clock, claim, cycle, confirmed, handed, pc, tally>>
      BY <1>3 DEF EscalateOne
    <2>2. PICK s \in stranded[w] :
            IF stillStranded(s)
            THEN row' = [row EXCEPT ![s.id] = unclear(s.id, now[w])]
            ELSE UNCHANGED row
      BY <1>3 DEF EscalateOne
    <2> DEFINE o == s.id
    <2>3. o \in Orders /\ s.lastAt \in Time /\ row[o] \in RowType
      BY DEF TypeInv, TypeOK
    <2>4. s.lastAt + InFlightTimeout <= clock
      BY DEF ScanIsPast
    <2>5. InFlightTimeout \in Nat \ {0} /\ clock \in Nat
      BY ConstantsHold DEF Constants, TimesAssumption, TypeInv, TypeOK
    <2>6. s.lastAt < clock
      BY <2>3, <2>4, <2>5 DEF Time, NoTime
    <2>7. CASE stillStranded(s)
      <3> DEFINE kept == row[o].content /\ terminalContent(o, "UNKNOWN")
                 r == [row[o] EXCEPT
                         !.status = "UNKNOWN", !.escalatedAt = now[w],
                         !.nextAt = NoTime, !.updatedAt = clock, !.content = kept]
      <3>1. unclear(o, now[w]) = r
        BY DEF unclear
      <3>2. r.status = "UNKNOWN" /\ r.attempts = row[o].attempts
        <4> HIDE DEF kept
        <4> QED
          BY <2>3 DEF RowType
      <3>3. row'[o] = r /\ \A p \in Orders \ {o} : row'[p] = row[p]
        BY <2>2, <2>3, <2>7, <3>1 DEF TypeInv, TypeOK
      <3>4. row[o].status = "SENDING" /\ row[o].lastAt < clock
        BY <2>6, <2>7 DEF stillStranded
      <3> HIDE DEF r
      <3>5. GivenUp(o)
        BY <3>2, <3>3, <3>4 DEF GivenUp
      <3>6. \A p \in Orders : p # o => Same(p)
        BY <3>3 DEF Same
      <3> QED
        BY <2>1, <3>5, <3>6, RoundRows
    <2>8. CASE ~ stillStranded(s)
      <3>1. \A p \in Orders : Same(p)
        BY <2>2, <2>8 DEF Same
      <3> QED
        BY <2>1, <3>1, RoundRows
    <2> QED
      BY <2>7, <2>8
  <1>4. CASE Skip(w)
    <2>1. UNCHANGED <<clock, claim, cycle, confirmed, handed, pc, tally>>
      BY <1>4 DEF Skip
    <2>2. PICK c \in batch[w] :
            unchanged(c) /\ row' = [row EXCEPT ![c.id] = skipped(c.id)]
      BY <1>4 DEF Skip
    <2>3. c.id \in Orders /\ c.status \in Waiting /\ row[c.id] \in RowType
      BY CandidateFacts
    <2>4. row[c.id].status \in Waiting
      BY <2>2, <2>3 DEF unchanged
    <2>5. skipped(c.id).status = "SKIPPED"
      BY <2>3 DEF skipped, RowType
    <2>6. QuietMove(c.id)
      BY <2>2, <2>3, <2>4, <2>5 DEF QuietMove, TypeInv, TypeOK
    <2>7. \A p \in Orders : p # c.id => Same(p)
      BY <2>2, <2>3 DEF Same, TypeInv, TypeOK
    <2> QED
      BY <2>1, <2>6, <2>7, RoundRows
  <1> QED
    BY <1>1, <1>2, <1>3, <1>4

LEMMA RoundBusiness ==
  ASSUME TypeInv, TypeInv', RoundInv,
         \/ \E o \in Orders : Enqueue(o)
         \/ \E p \in Processes : Turn(p) \/ Anonymize(p)
         \/ \E S \in SUBSET Orders : Purge(S)
         \/ Tick
         \/ UNCHANGED vars
  PROVE  RoundInv'
  <1> USE DEF orderVars, tryVars
  <1>1. CASE \E o \in Orders : Enqueue(o)
    <2>1. PICK o \in Orders : Enqueue(o)
      BY <1>1
    <2> DEFINE valid == IF o \in Expiring THEN clock + ValidFor ELSE NoTime
               r == [NoRow("QUEUED") EXCEPT !.nextAt = clock, !.updatedAt = clock,
                       !.content = TRUE, !.validUntil = valid]
    <2>2. row' = [row EXCEPT ![o] = r] /\ row[o].status = "ABSENT"
      BY <2>1 DEF Enqueue
    <2>3. r.status = "QUEUED"
      BY DEF NoRow
    <2>4. UNCHANGED <<clock, claim, cycle, confirmed, handed, pc, tally>>
      BY <2>1 DEF Enqueue
    <2> HIDE DEF r
    <2>5. QuietMove(o) /\ \A p \in Orders : p # o => Same(p)
      BY <2>2, <2>3 DEF QuietMove, Same, Waiting, TypeInv, TypeOK
    <2> QED
      BY <2>4, <2>5, RoundRows
  <1>2. CASE \E S \in SUBSET Orders : Purge(S)
    <2>1. PICK S \in SUBSET Orders : Purge(S)
      BY <1>2
    <2>2. UNCHANGED <<clock, claim, cycle, confirmed, handed, pc, tally>>
      BY <2>1 DEF Purge
    <2>3. ASSUME NEW o \in Orders PROVE Same(o) \/ Purged(o)
      <3>1. CASE o \in S
        <4>1. row'[o].status = "PURGED"
          BY <2>1, <3>1 DEF Purge, NoRow
        <4> QED
          BY <2>1, <3>1, <4>1 DEF Purge, PurgeDue, Purged
      <3>2. CASE o \notin S
        BY <2>1, <3>2 DEF Purge, Same
      <3> QED
        BY <3>1, <3>2
    <2> QED
      BY <2>2, <2>3, RoundRows
  <1>3. CASE \/ \E p \in Processes : Turn(p) \/ Anonymize(p)
             \/ Tick
             \/ UNCHANGED vars
    <2>1. UNCHANGED <<row, claim, tally, cycle, confirmed, handed, pc>>
      BY <1>3 DEF Turn, Anonymize, Tick, vars
    <2>2. clock' = clock \/ clock' = clock + 1
      BY <1>3 DEF Turn, Anonymize, Tick, vars
    <2>3. clock <= clock'
      BY <2>2 DEF TypeInv, TypeOK
    <2> QED
      BY <2>1, <2>3, RoundFrame
  <1> QED
    BY <1>1, <1>2, <1>3

LEMMA RoundStep == TypeInv /\ ScanIsPast /\ RoundInv /\ [Next]_vars => RoundInv'
  <1> SUFFICES ASSUME TypeInv, ScanIsPast, RoundInv, [Next]_vars PROVE RoundInv'
    OBVIOUS
  <1>1. TypeInv'
    BY TypeStep
  <1>2. CASE ResendStep
    <2>1. PICK p \in Processes, confirm \in BOOLEAN :
            \E S \in SUBSET {o \in Orders : ProcessOf[o] = p} :
              \E first \in S : Resend(S, first, confirm)
      BY <1>2 DEF ResendStep
    <2>2. PICK S \in SUBSET Orders : \E first \in S : Resend(S, first, confirm)
      BY <2>1
    <2>3. PICK first \in Orders : Resend(S, first, confirm)
      BY <2>2
    <2> QED
      BY <1>1, <2>3, RoundResend
  <1>3. ASSUME NEW w \in Workers, Work(w) \/ Crash(w) PROVE RoundInv'
    <2>1. CASE Claim(w)
      BY <1>1, <2>1, RoundClaim
    <2>2. CASE Address(w)
      BY <1>1, <2>2, RoundAddress
    <2>3. CASE SendNext(w)
      BY <1>1, <2>3, RoundSendNext
    <2>4. CASE Persist(w)
      BY <1>1, <2>4, RoundPersist
    <2>5. CASE Crash(w)
      BY <1>1, <2>5, RoundCrash
    <2> QED
      BY <1>1, <1>3, <2>1, <2>2, <2>3, <2>4, <2>5, RoundQuiet DEF Work, Scan, Deliver
  <1> QED
    BY <1>1, <1>2, <1>3, RoundBusiness DEF Next

-----------------------------------------------------------------------------
(* Time only passes, so what a run read stays in the past.                  *)
LEMMA ScanFrame ==
  ASSUME TypeInv, TypeInv', ScanIsPast, clock <= clock',
         \A w \in Workers : now'[w] = now[w] \/ now'[w] <= clock,
         \A w \in Workers :
           \A s \in stranded'[w] :
             s \in stranded[w] \/ s.lastAt + InFlightTimeout <= clock
  PROVE  ScanIsPast'
  <1> SUFFICES ASSUME NEW w \in Workers
               PROVE  /\ now'[w] <= clock'
                      /\ \A s \in stranded'[w] :
                           s.lastAt + InFlightTimeout <= clock'
    BY DEF ScanIsPast
  <1>1. /\ clock \in Nat /\ clock' \in Nat
        /\ now[w] \in Nat /\ now'[w] \in Nat
    BY DEF TypeInv, TypeOK
  <1>2. now'[w] <= clock
    BY DEF ScanIsPast
  <1>3. ASSUME NEW s \in stranded'[w] PROVE s.lastAt + InFlightTimeout <= clock'
    <2>1. s.lastAt \in Int /\ InFlightTimeout \in Int
      <3>1. s.lastAt \in Time
        BY DEF TypeInv, TypeOK
      <3>2. InFlightTimeout \in Nat
        BY ConstantsHold DEF Constants, TimesAssumption
      <3> QED
        BY <3>1, <3>2 DEF Time, NoTime
    <2>2. s.lastAt + InFlightTimeout <= clock
      BY DEF ScanIsPast
    <2> QED
      BY <1>1, <2>1, <2>2
  <1> QED
    BY <1>1, <1>2, <1>3

LEMMA ScanStep == TypeInv /\ ScanIsPast /\ [Next]_vars => ScanIsPast'
  <1> SUFFICES ASSUME TypeInv, ScanIsPast, [Next]_vars PROVE ScanIsPast'
    OBVIOUS
  <1>1. TypeInv'
    BY TypeStep
  <1>0. clock \in Nat
    BY DEF TypeInv, TypeOK
  <1>2. CASE UNCHANGED <<clock, now, stranded>>
    BY <1>2 DEF ScanIsPast
  <1>3. CASE Tick
    <2>1. clock' = clock + 1 /\ UNCHANGED <<now, stranded>>
      BY <1>3 DEF Tick, scanVars
    <2>2. clock <= clock'
      BY <1>0, <2>1
    <2> QED
      BY <1>1, <2>1, <2>2, ScanFrame
  <1>4. ASSUME NEW w \in Workers, EndRun(w) \/ Crash(w) PROVE ScanIsPast'
    <2>1. /\ clock' = clock /\ now' = [now EXCEPT ![w] = 0]
          /\ \/ stranded' = stranded
             \/ stranded' = [stranded EXCEPT ![w] = {}]
      BY <1>4 DEF EndRun, Crash
    <2>2. \A v \in Workers : now'[v] = now[v] \/ now'[v] <= clock
      BY <1>0, <2>1 DEF TypeInv, TypeOK
    <2>3. \A v \in Workers : stranded'[v] \subseteq stranded[v]
      BY <2>1 DEF TypeInv, TypeOK
    <2>4. clock <= clock'
      BY <1>0, <2>1
    <2> QED
      BY <1>1, <2>2, <2>3, <2>4, ScanFrame
  <1>5. ASSUME NEW w \in Workers, EscalateOne(w) PROVE ScanIsPast'
    <2>1. PICK s \in stranded[w] : stranded' = [stranded EXCEPT ![w] = @ \ {s}]
      BY <1>5 DEF EscalateOne
    <2>2. \A v \in Workers : stranded'[v] \subseteq stranded[v]
      BY <2>1 DEF TypeInv, TypeOK
    <2>3. UNCHANGED <<clock, now>> /\ clock <= clock'
      BY <1>0, <1>5 DEF EscalateOne
    <2> QED
      BY <1>1, <2>2, <2>3, ScanFrame
  <1>6. ASSUME NEW w \in Workers, StartRun(w) PROVE ScanIsPast'
    <2>1. PICK S \in SUBSET hanging :
            stranded' = [stranded EXCEPT ![w] =
                           {[id |-> o, lastAt |-> row[o].lastAt] : o \in S}]
      BY <1>6 DEF StartRun, OldestFirst
    <2>2. clock' = clock /\ now' = [now EXCEPT ![w] = clock]
      BY <1>6 DEF StartRun
    <2>3. \A v \in Workers : now'[v] = now[v] \/ now'[v] <= clock
      BY <1>0, <2>2 DEF TypeInv, TypeOK
    <2>4. ASSUME NEW v \in Workers, NEW s \in stranded'[v], s \notin stranded[v]
          PROVE  s.lastAt + InFlightTimeout <= clock
      <3>1. stranded'[v] # stranded[v]
        BY <2>4
      <3>2. v = w
        BY <2>1, <3>1 DEF TypeInv, TypeOK
      <3>3. PICK o \in S : s = [id |-> o, lastAt |-> row[o].lastAt]
        BY <2>1, <2>4, <3>2 DEF TypeInv, TypeOK
      <3>4. o \in Orders /\ row[o].status = "SENDING"
            /\ row[o].lastAt <= clock - InFlightTimeout
        BY DEF hanging
      <3>5. row[o].lastAt \in Time
        BY <3>4 DEF TypeInv, TypeOK, RowType
      <3>6. row[o].lastAt \in Int
        BY <3>5 DEF Time, NoTime
      <3>7. InFlightTimeout \in Nat
        BY ConstantsHold DEF Constants, TimesAssumption
      <3>8. row[o].lastAt + InFlightTimeout <= clock
        BY <1>0, <3>4, <3>6, <3>7
      <3> QED
        BY <3>3, <3>8
    <2>5. clock <= clock'
      BY <1>0, <2>2
    <2> QED
      BY <1>1, <2>3, <2>4, <2>5, ScanFrame
  <1>7. ASSUME NEW w \in Workers,
               \/ ClearExpired(w) \/ FetchCandidates(w) \/ Claim(w) \/ Skip(w)
               \/ Lose(w) \/ Deliver(w)
        PROVE  UNCHANGED <<clock, now, stranded>>
    <2>1. CASE \/ ClearExpired(w) \/ FetchCandidates(w) \/ Claim(w) \/ Skip(w)
               \/ Lose(w) \/ Address(w) \/ SendNext(w)
      BY <2>1 DEF ClearExpired, FetchCandidates, Claim, Skip, Lose, Address,
                  SendNext, scanVars
    <2>2. CASE Persist(w)
      BY <2>2 DEF Persist, PersistUnprepared, PersistThrown, PersistNoRecipient,
                  PersistAccepted, PersistPartial, PersistUncertain, PersistRejected,
                  persistTerminal, persistDefiniteFailure, Record, scanVars
    <2> QED
      BY <1>7, <2>1, <2>2 DEF Deliver
  <1>8. CASE \/ \E o \in Orders : Enqueue(o)
             \/ \E p \in Processes : Turn(p) \/ Anonymize(p)
             \/ ResendStep
             \/ \E S \in SUBSET Orders : Purge(S)
             \/ UNCHANGED vars
    BY <1>2, <1>8 DEF Enqueue, Turn, Anonymize, ResendStep, Resend, Purge, scanVars, vars
  <1> QED
    BY <1>2, <1>3, <1>4, <1>5, <1>6, <1>7, <1>8 DEF Next, Work, Scan

LEMMA DeliveryStep == DeliveryInv /\ [Next]_vars => DeliveryInv'
  BY TypeStep, ScanStep, RoundStep DEF DeliveryInv

LEMMA DeliveryAlways == Spec => []DeliveryInv
  BY DeliveryInit, DeliveryStep, PTL DEF Spec

-----------------------------------------------------------------------------
(* Of all attempts between two resends, the provider takes a mail in at     *)
(* most one: no run of processMailOutbox, whatever races, hangs or dies,    *)
(* sends again what may already have been sent.                             *)
THEOREM NeverSentTwice == Spec => []NoAutomaticDuplicate
  <1>1. DeliveryInv => NoAutomaticDuplicate
    BY DEF DeliveryInv, RoundInv
  <1> QED
    BY <1>1, DeliveryAlways, PTL

(* resendMailOutboxTx begins a round after one in which the provider took a *)
(* mail only with the staff's confirmation, even where the mail was taken   *)
(* after the order had been given up.                                       *)
THEOREM DuplicatesAreConfirmed == Spec => []DuplicateOnlyConfirmed
  <1>1. DeliveryInv => DuplicateOnlyConfirmed
    BY DEF DeliveryInv, RoundInv, HandedState, DuplicateOnlyConfirmed
  <1> QED
    BY <1>1, DeliveryAlways, PTL

(* No persist function writes a status that is not so: nothing was taken    *)
(* for an order reported as failed or still waiting, and something was for  *)
(* one reported as accepted.                                                *)
THEOREM StatusesAreTrue == Spec => []StatusIsTrue
  <1>1. DeliveryInv => StatusIsTrue
    <2> SUFFICES ASSUME DeliveryInv, NEW o \in Orders
                 PROVE  /\ row[o].status \in Waiting \cup {"FAILED", "NO_RECIPIENT"} =>
                             {h \in handed : h[1] = o /\ h[2] = cycle[o]} = {}
                        /\ row[o].status \in {"PROVIDER_ACCEPTED", "PARTIAL_FAILURE"} =>
                             <<o, cycle[o], row[o].attempts>> \in handed
      BY DEF StatusIsTrue
    <2>1. row[o].status \in Waiting \cup {"FAILED", "NO_RECIPIENT"} =>
            {h \in handed : h[1] = o /\ h[2] = cycle[o]} = {}
      BY DEF DeliveryInv, RoundInv, HandedState, Waiting
    <2> QED
      BY <2>1 DEF DeliveryInv, RoundInv, DeliveredWasHanded
  <1> QED
    BY <1>1, DeliveryAlways, PTL

(* ownClaim never holds of a claim of an earlier round, nor of two claims   *)
(* at once: the compare-and-swap token is not met again.                    *)
THEOREM ClaimsAreExclusive == Spec => []OwnClaimIsCurrent
  <1>1. DeliveryInv => OwnClaimIsCurrent
    <2> SUFFICES ASSUME DeliveryInv, NEW w \in Workers, claim[w] # NoClaim, ownClaim(w)
                 PROVE  /\ claim[w].cycle = cycle[claim[w].id]
                        /\ \A v \in Workers \ {w} :
                             claim[v].id = claim[w].id => ~ ownClaim(v)
      BY DEF OwnClaimIsCurrent
    <2>1. claim[w].cycle = cycle[claim[w].id]
      BY OwnIsCurrent DEF DeliveryInv
    <2>2. ASSUME NEW v \in Workers \ {w}, claim[v].id = claim[w].id, ownClaim(v)
          PROVE  FALSE
      <3>1. claim[v] # NoClaim
        BY <2>2, ClaimFacts, NoClaimFacts DEF DeliveryInv
      <3>2. claim[v].cycle = cycle[claim[v].id]
        BY <2>2, <3>1, OwnIsCurrent DEF DeliveryInv
      <3> QED
        BY <2>1, <2>2, <3>1, <3>2 DEF DeliveryInv, RoundInv, OneClaimPerRound
    <2> QED
      BY <2>1, <2>2
  <1> QED
    BY <1>1, DeliveryAlways, PTL

(* An attempt leaves SENDING by its own run's persist, or by an escalation  *)
(* whose in-flight timeout ran from this attempt's start: the scan's        *)
(* compare-and-swap on the attempt's time keeps a late scan from giving up  *)
(* an attempt it never saw.                                                 *)
THEOREM AttemptsKeepTheirTime == Spec => NotGivenUpEarly
  <1> DEFINE Rightly(o) ==
               \/ \E w \in Workers :
                    claim[w].id = o /\ ownClaim(w) /\ claim'[w] = NoClaim
               \/ row[o].lastAt + InFlightTimeout <= clock
             Step == \A o \in Orders :
               row[o].status = "SENDING" /\ row'[o].status # "SENDING" => Rightly(o)
  <1>1. DeliveryInv /\ [Next]_vars => [Step]_vars
    <2> SUFFICES ASSUME DeliveryInv, Next, NEW o \in Orders,
                        row[o].status = "SENDING", row'[o].status # "SENDING"
                 PROVE  Rightly(o)
      OBVIOUS
    <2>0. TypeInv /\ ScanIsPast /\ row[o] \in RowType /\ row' # row
      BY DEF DeliveryInv, TypeInv, TypeOK
    <2>1. ASSUME NEW w \in Workers, EscalateOne(w) PROVE Rightly(o)
      <3>1. PICK s \in stranded[w] :
              IF stillStranded(s)
              THEN row' = [row EXCEPT ![s.id] = unclear(s.id, now[w])]
              ELSE UNCHANGED row
        BY <2>1 DEF EscalateOne
      <3>2. s.id = o /\ stillStranded(s)
        BY <2>0, <3>1 DEF TypeInv, TypeOK
      <3>3. s.lastAt + InFlightTimeout <= clock
        BY <2>0 DEF ScanIsPast
      <3> QED
        BY <3>2, <3>3 DEF stillStranded
    <2>2. ASSUME NEW w \in Workers, Persist(w) PROVE Rightly(o)
      <3>1. PICK r, tell : Record(w, r, tell)
        BY <2>2 DEF Persist, PersistUnprepared, PersistThrown, PersistNoRecipient,
                    PersistAccepted, PersistPartial, PersistUncertain, PersistRejected,
                    persistTerminal, persistDefiniteFailure
      <3>2. /\ row' = IF ownClaim(w) THEN [row EXCEPT ![claim[w].id] = r] ELSE row
            /\ claim'[w] = NoClaim
        BY <2>0, <3>1 DEF Record, TypeInv, TypeOK
      <3> QED
        BY <2>0, <3>2 DEF TypeInv, TypeOK
    <2>3. ASSUME NEW w \in Workers, Claim(w) \/ Skip(w) PROVE FALSE
      <3>1. PICK c \in batch[w] :
              /\ unchanged(c)
              /\ \A p \in Orders : p # c.id => row'[p] = row[p]
        BY <2>0, <2>3 DEF Claim, Skip, TypeInv, TypeOK
      <3>2. row[c.id].status \in Waiting
        BY <2>0, <3>1, CandidateFacts DEF unchanged
      <3> QED
        BY <2>0, <3>1, <3>2 DEF Waiting
    <2>4. ASSUME NEW w \in Workers, ClearExpired(w) PROVE FALSE
      <3>1. row'[o] = IF expired(o, now[w])
                      THEN [row[o] EXCEPT !.content = FALSE, !.updatedAt = clock]
                      ELSE row[o]
        BY <2>4 DEF ClearExpired
      <3> QED
        BY <2>0, <3>1 DEF RowType
    <2>5. ASSUME NEW w \in Workers,
                 \/ StartRun(w) \/ FetchCandidates(w) \/ Lose(w) \/ EndRun(w)
                 \/ Address(w) \/ SendNext(w) \/ Crash(w)
          PROVE  FALSE
      BY <2>0, <2>5 DEF StartRun, FetchCandidates, Lose, EndRun, Address, SendNext,
                        Crash, orderVars
    <2>6. CASE ResendStep
      <3>1. PICK S \in SUBSET Orders :
              /\ \A p \in S : row[p].status \in Resendable
              /\ \A p \in Orders \ S : row'[p] = row[p]
        BY <2>6 DEF ResendStep, Resend
      <3> QED
        BY <3>1 DEF Resendable
    <2>7. CASE \E S \in SUBSET Orders : Purge(S)
      BY <2>7 DEF Purge, PurgeDue, Resendable, Settled
    <2>8. CASE \E p \in Orders : Enqueue(p)
      BY <2>0, <2>8 DEF Enqueue, TypeInv, TypeOK
    <2>9. CASE Tick \/ \E p \in Processes : Turn(p) \/ Anonymize(p)
      BY <2>0, <2>9 DEF Tick, Turn, Anonymize, orderVars
    <2> QED
      BY <2>1, <2>2, <2>3, <2>4, <2>5, <2>6, <2>7, <2>8, <2>9
      DEF Next, Work, Scan, Deliver
  <1> QED
    BY <1>1, DeliveryAlways, PTL DEF Spec, NotGivenUpEarly

-----------------------------------------------------------------------------
(* The refinement                                                           *)

(* Where an order stands, by its status.                                    *)
LEMMA PhaseFacts ==
  /\ phaseOf("ABSENT") = "none" /\ phaseOf("PURGED") = "forgotten"
  /\ \A s \in Waiting : phaseOf(s) = "open"
  /\ phaseOf("SENDING") = "trying"
  /\ phaseOf("PROVIDER_ACCEPTED") = "delivered"
  /\ phaseOf("PARTIAL_FAILURE") = "delivered"
  /\ phaseOf("FAILED") = "undelivered" /\ phaseOf("UNKNOWN") = "doubtful"
  /\ phaseOf("SKIPPED") = "ended" /\ phaseOf("NO_RECIPIENT") = "ended"
  BY DEF phaseOf, Waiting

LEMMA PhaseSame ==
  ASSUME \A o \in Orders : row'[o].status = row[o].status
  PROVE  phaseBar' = phaseBar
  BY DEF phaseBar

LEMMA PhaseMoves ==
  ASSUME NEW o \in Orders,
         \A p \in Orders \ {o} : row'[p].status = row[p].status
  PROVE  phaseBar' = [phaseBar EXCEPT ![o] = phaseOf(row'[o].status)]
  BY DEF phaseBar

(* Which attempts are pending or were taken, by the claims and the hand-overs. *)
LEMMA PendingGrows ==
  ASSUME TypeInv, NEW w \in Workers, NEW d, claim[w] = NoClaim, d # NoClaim,
         claim' = [claim EXCEPT ![w] = d]
  PROVE  pendingBar' = pendingBar \cup {<<d.id, d.cycle>>}
  <1>1. /\ claim'[w] = d /\ \A v \in Workers \ {w} : claim'[v] = claim[v]
    BY DEF TypeInv, TypeOK
  <1> QED
    BY <1>1 DEF pendingBar

LEMMA PendingShrinks ==
  ASSUME TypeInv, OneClaimPerRound, NEW w \in Workers, claim[w] # NoClaim,
         claim' = [claim EXCEPT ![w] = NoClaim]
  PROVE  /\ <<claim[w].id, claim[w].cycle>> \in pendingBar
         /\ pendingBar' = pendingBar \ {<<claim[w].id, claim[w].cycle>>}
  <1>1. /\ claim'[w] = NoClaim /\ \A v \in Workers \ {w} : claim'[v] = claim[v]
    BY DEF TypeInv, TypeOK
  <1>2. ASSUME NEW v \in Workers \ {w}, claim[v] # NoClaim
        PROVE  <<claim[v].id, claim[v].cycle>> # <<claim[w].id, claim[w].cycle>>
    BY <1>2 DEF OneClaimPerRound
  <1> QED
    BY <1>1, <1>2 DEF pendingBar

LEMMA PendingSame ==
  ASSUME UNCHANGED claim PROVE pendingBar' = pendingBar
  BY DEF pendingBar

LEMMA TakenGrows ==
  ASSUME NEW w \in Workers, handed' = handed \cup {Attempt(w)}
  PROVE  takenBar' = takenBar \cup {<<claim[w].id, claim[w].cycle>>}
  <1> DEFINE a == Attempt(w)
  <1>1. a[1] = claim[w].id /\ a[2] = claim[w].cycle
    BY DEF Attempt
  <1>2. handed' = handed \cup {a}
    OBVIOUS
  <1> HIDE DEF a
  <1>3. takenBar' = {<<h[1], h[2]>> : h \in handed'}
    BY DEF takenBar
  <1> QED
    BY <1>1, <1>2, <1>3 DEF takenBar

LEMMA TakenSame ==
  ASSUME UNCHANGED handed PROVE takenBar' = takenBar
  BY DEF takenBar

(* Nothing of its round is pending or taken for an order that waits or      *)
(* failed.                                                                  *)
LEMMA NothingOut ==
  ASSUME TypeInv, RoundInv, NEW o \in Orders,
         row[o].status \in Waiting \cup {"FAILED"}
  PROVE  <<o, cycle[o]>> \notin pendingBar \cup takenBar
  <1>1. <<o, cycle[o]>> \notin pendingBar
    <2> SUFFICES ASSUME NEW v \in Workers, claim[v] # NoClaim, claim[v].id = o,
                        claim[v].cycle = cycle[o]
                 PROVE  FALSE
      BY DEF pendingBar
    <2>1. CurrentClaim(v)
      BY DEF RoundInv, ClaimState
    <2> QED
      BY <2>1 DEF CurrentClaim, ownClaim, Waiting
  <1>2. <<o, cycle[o]>> \notin takenBar
    BY DEF takenBar, RoundInv, HandedState, Waiting
  <1> QED
    BY <1>1, <1>2

(* What was taken of a claim's round, this claim handed over.               *)
LEMMA TakenByClaim ==
  ASSUME TypeInv, RoundInv, NEW w \in Workers, claim[w] # NoClaim
  PROVE  <<claim[w].id, claim[w].cycle>> \in takenBar <=> Attempt(w) \in handed
  <1>1. ASSUME NEW h \in handed, h[1] = claim[w].id, h[2] = claim[w].cycle
        PROVE  h = Attempt(w)
    BY <1>1, HandedFacts DEF RoundInv, HandedByClaim, Attempt
  <1>2. ASSUME Attempt(w) \in handed
        PROVE  <<claim[w].id, claim[w].cycle>> \in takenBar
    BY <1>2 DEF takenBar, Attempt
  <1> QED
    BY <1>1, <1>2 DEF takenBar

-----------------------------------------------------------------------------
(* Each step of the outbox is a step of the promise.                       *)

LEMMA RefineEnqueue ==
  ASSUME TypeInv, NEW o \in Orders, Enqueue(o) PROVE Delivery!Place(o)
  <1>1. /\ row[o].status = "ABSENT" /\ row'[o].status = "QUEUED"
        /\ \A p \in Orders \ {o} : row'[p].status = row[p].status
        /\ UNCHANGED <<cycle, confirmed, handed, claim>>
    BY DEF Enqueue, tryVars, NoRow, TypeInv, TypeOK
  <1>2. phaseBar[o] = "none" /\ phaseOf(row'[o].status) = "open"
    BY <1>1, PhaseFacts DEF phaseBar, Waiting
  <1> QED
    BY <1>1, <1>2, PhaseMoves, PendingSame, TakenSame DEF Delivery!Place

LEMMA RefineSkip ==
  ASSUME TypeInv, NEW w \in Workers, Skip(w)
  PROVE  \E o \in Orders : Delivery!Drop(o)
  <1>1. PICK c \in batch[w] :
          unchanged(c) /\ row' = [row EXCEPT ![c.id] = skipped(c.id)]
    BY DEF Skip
  <1> DEFINE o == c.id
  <1>2. o \in Orders /\ row[o].status \in Waiting /\ row[o] \in RowType
    BY <1>1, CandidateFacts DEF unchanged
  <1>3. /\ row'[o].status = "SKIPPED"
        /\ \A p \in Orders \ {o} : row'[p].status = row[p].status
        /\ UNCHANGED <<cycle, confirmed, handed, claim>>
    BY <1>1, <1>2 DEF Skip, tryVars, skipped, RowType, TypeInv, TypeOK
  <1>4. phaseBar[o] = "open" /\ phaseOf(row'[o].status) = "ended"
    BY <1>2, <1>3, PhaseFacts DEF phaseBar
  <1>5. Delivery!Drop(o)
    BY <1>2, <1>3, <1>4, PhaseMoves, PendingSame, TakenSame DEF Delivery!Drop
  <1> QED
    BY <1>2, <1>5

(* claimOrSkip finds nothing of the round under way.                        *)
LEMMA RefineClaim ==
  ASSUME TypeInv, RoundInv, NEW w \in Workers, Claim(w)
  PROVE  \E o \in Orders : Delivery!Try(o)
  <1>1. PICK c \in batch[w] :
          /\ unchanged(c) /\ row' = [row EXCEPT ![c.id] = started(c.id)]
          /\ claim' = [claim EXCEPT ![w] =
               [id |-> c.id, attemptNo |-> c.attempts + 1, attemptAt |-> clock,
                cycle |-> cycle[c.id]]]
    BY DEF Claim
  <1> DEFINE o == c.id
             d == [id |-> o, attemptNo |-> c.attempts + 1, attemptAt |-> clock,
                   cycle |-> cycle[o]]
  <1>2. o \in Orders /\ row[o].status \in Waiting /\ row[o] \in RowType
    BY <1>1, CandidateFacts DEF unchanged
  <1>3. /\ row'[o].status = "SENDING"
        /\ \A p \in Orders \ {o} : row'[p].status = row[p].status
        /\ UNCHANGED <<cycle, confirmed, handed>>
    BY <1>1, <1>2 DEF Claim, started, RowType, TypeInv, TypeOK
  <1>4. phaseBar[o] = "open" /\ phaseOf(row'[o].status) = "trying"
    BY <1>2, <1>3, PhaseFacts DEF phaseBar
  <1>5. claim[w] = NoClaim
    BY DEF Claim, TypeInv, ClaimHeld
  <1>6. d # NoClaim /\ d.id = o /\ d.cycle = cycle[o] /\ claim' = [claim EXCEPT ![w] = d]
    <2>1. d.id = o /\ NoClaim.id \notin Orders
      BY NoClaimFacts
    <2> QED
      BY <1>1, <1>2, <2>1
  <1> HIDE DEF d
  <1>7. pendingBar' = pendingBar \cup {<<o, cycle[o]>>}
    BY <1>5, <1>6, PendingGrows
  <1>8. <<o, cycle[o]>> \notin pendingBar \cup takenBar
    BY <1>2, NothingOut
  <1>9. Delivery!Try(o)
    BY <1>2, <1>3, <1>4, <1>7, <1>8, PhaseMoves, TakenSame
    DEF Delivery!Try, Delivery!current
  <1> QED
    BY <1>2, <1>9

LEMMA RefineSendNext ==
  ASSUME TypeInv, NEW w \in Workers, SendNext(w)
  PROVE  UNCHANGED Delivery!vars \/ \E p \in pendingBar : Delivery!Take(p)
  <1> DEFINE p == <<claim[w].id, claim[w].cycle>>
  <1>1. UNCHANGED <<row, cycle, confirmed, claim>>
    BY DEF SendNext
  <1>2. phaseBar' = phaseBar /\ pendingBar' = pendingBar
    BY <1>1, PhaseSame, PendingSame
  <1>3. p \in pendingBar
    BY DEF pendingBar, SendNext, TypeInv, ClaimHeld
  <1>4. CASE handed' = handed
    BY <1>1, <1>2, <1>4, TakenSame DEF Delivery!vars
  <1>5. CASE handed' = handed \cup {Attempt(w)}
    <2>1. takenBar' = takenBar \cup {p}
      BY <1>5, TakenGrows
    <2>2. Delivery!Take(p)
      BY <1>1, <1>2, <1>3, <2>1 DEF Delivery!Take
    <2> QED
      BY <1>3, <2>2
  <1> QED
    BY <1>4, <1>5 DEF SendNext

(* A result is written over the run's own attempt, which is of the current  *)
(* round, and says no more than is known; otherwise it is lost.             *)
LEMMA RefinePersist ==
  ASSUME TypeInv, RoundInv, NEW w \in Workers, Persist(w)
  PROVE  \/ \E p \in pendingBar : Delivery!Vanish(p)
         \/ \E o \in Orders :
              \E result \in {"open", "delivered", "undelivered", "doubtful", "ended"} :
                Delivery!Conclude(o, result)
  <1>1. claim[w] # NoClaim /\ Reports(w)
    BY PersistIsTruthful
  <1>2. PICK r, tell : Record(w, r, tell) /\ Truthful(w, r.status)
    BY <1>1 DEF Reports
  <1> DEFINE o == claim[w].id
             p == <<o, claim[w].cycle>>
  <1>3. /\ row' = IF ownClaim(w) THEN [row EXCEPT ![o] = r] ELSE row
        /\ claim' = [claim EXCEPT ![w] = NoClaim]
        /\ UNCHANGED <<cycle, confirmed, handed>>
    BY <1>2 DEF Record
  <1>4. o \in Orders /\ row[o] \in RowType
    BY <1>1, ClaimFacts
  <1>5. p \in pendingBar /\ pendingBar' = pendingBar \ {p} /\ takenBar' = takenBar
    BY <1>1, <1>3, PendingShrinks, TakenSame DEF RoundInv
  <1>6. CASE ~ ownClaim(w)
    <2>1. Delivery!Vanish(p)
      BY <1>3, <1>5, <1>6, PhaseSame DEF Delivery!Vanish
    <2> QED
      BY <1>5, <2>1
  <1>7. CASE ownClaim(w)
    <2> DEFINE result == phaseOf(r.status)
    <2>1. /\ row'[o].status = r.status
          /\ \A q \in Orders \ {o} : row'[q].status = row[q].status
      BY <1>3, <1>4, <1>7 DEF TypeInv, TypeOK
    <2>2. phaseBar[o] = "trying" /\ phaseBar' = [phaseBar EXCEPT ![o] = result]
      BY <1>4, <1>7, <2>1, PhaseMoves, PhaseFacts DEF phaseBar, ownClaim
    <2>3. p = <<o, cycle[o]>>
      BY <1>1, <1>7, OwnIsCurrent
    <2>4. p \in takenBar <=> Attempt(w) \in handed
      BY <1>1, TakenByClaim
    <2>5. \/ result = "doubtful"
          \/ result = "delivered" /\ p \in takenBar
          \/ result \in {"open", "undelivered", "ended"} /\ p \notin takenBar
      BY <1>2, <2>4, PhaseFacts DEF Truthful
    <2> HIDE DEF result
    <2>6. Delivery!Conclude(o, result)
      BY <1>3, <1>5, <2>2, <2>3, <2>5 DEF Delivery!Conclude, Delivery!current
    <2> QED
      BY <1>4, <2>5, <2>6
  <1> QED
    BY <1>6, <1>7

LEMMA RefineCrash ==
  ASSUME TypeInv, RoundInv, NEW w \in Workers, Crash(w)
  PROVE  UNCHANGED Delivery!vars \/ \E p \in pendingBar : Delivery!Vanish(p)
  <1>1. /\ claim' = [claim EXCEPT ![w] = NoClaim]
        /\ UNCHANGED <<row, cycle, confirmed, handed>>
    BY DEF Crash, orderVars
  <1>2. phaseBar' = phaseBar /\ takenBar' = takenBar
    BY <1>1, PhaseSame, TakenSame
  <1>3. CASE claim[w] = NoClaim
    <2>1. claim' = claim
      BY <1>1, <1>3 DEF TypeInv, TypeOK
    <2> QED
      BY <1>1, <1>2, <2>1, PendingSame DEF Delivery!vars
  <1>4. CASE claim[w] # NoClaim
    <2> DEFINE p == <<claim[w].id, claim[w].cycle>>
    <2>1. p \in pendingBar /\ pendingBar' = pendingBar \ {p}
      BY <1>1, <1>4, PendingShrinks DEF RoundInv
    <2>2. Delivery!Vanish(p)
      BY <1>1, <1>2, <2>1 DEF Delivery!Vanish
    <2> QED
      BY <2>1, <2>2
  <1> QED
    BY <1>3, <1>4

LEMMA RefineEscalateOne ==
  ASSUME TypeInv, NEW w \in Workers, EscalateOne(w)
  PROVE  UNCHANGED Delivery!vars \/ \E o \in Orders : Delivery!GiveUp(o)
  <1>1. PICK s \in stranded[w] :
          IF stillStranded(s)
          THEN row' = [row EXCEPT ![s.id] = unclear(s.id, now[w])]
          ELSE UNCHANGED row
    BY DEF EscalateOne
  <1>2. UNCHANGED <<cycle, confirmed, handed, claim>>
    BY DEF EscalateOne, tryVars
  <1>3. pendingBar' = pendingBar /\ takenBar' = takenBar
    BY <1>2, PendingSame, TakenSame
  <1> DEFINE o == s.id
  <1>4. o \in Orders /\ row[o] \in RowType
    BY DEF TypeInv, TypeOK
  <1>5. CASE stillStranded(s)
    <2>1. /\ row[o].status = "SENDING" /\ row'[o].status = "UNKNOWN"
          /\ \A p \in Orders \ {o} : row'[p].status = row[p].status
      <3>1. unclear(o, now[w]).status = "UNKNOWN"
        BY <1>4 DEF unclear, RowType
      <3>2. row' = [row EXCEPT ![o] = unclear(o, now[w])]
        BY <1>1, <1>5
      <3> QED
        BY <1>4, <1>5, <3>1, <3>2 DEF stillStranded, TypeInv, TypeOK
    <2>2. phaseBar[o] = "trying" /\ phaseOf(row'[o].status) = "doubtful"
      BY <1>4, <2>1, PhaseFacts DEF phaseBar
    <2>3. Delivery!GiveUp(o)
      BY <1>2, <1>3, <1>4, <2>1, <2>2, PhaseMoves DEF Delivery!GiveUp
    <2> QED
      BY <1>4, <2>3
  <1>6. CASE ~ stillStranded(s)
    BY <1>1, <1>2, <1>3, <1>6, PhaseSame DEF Delivery!vars
  <1> QED
    BY <1>5, <1>6

(* resendMailOutboxTx: a confirmed resend is a knowing one, and an          *)
(* unconfirmed one touches only orders of which nothing is out.             *)
LEMMA RefineResend ==
  ASSUME TypeInv, RoundInv, NEW S \in SUBSET Orders, NEW first \in Orders,
         NEW confirm \in BOOLEAN, Resend(S, first, confirm)
  PROVE  Delivery!Resubmit(S, confirm) \/ Delivery!Retire(S)
  <1> DEFINE valid == Relevant(first, clock)
  <1>1. /\ \A o \in S : row[o].status \in Resendable
        /\ (\E o \in S : row[o].status = "UNKNOWN") => confirm
        /\ \A o \in S : cycle[o] < MaxCycles
        /\ row' = [o \in Orders |-> IF o \notin S THEN row[o]
                                    ELSE IF valid THEN requeued(o) ELSE skipped(o)]
        /\ cycle' = [o \in Orders |->
                       IF o \in S /\ valid THEN cycle[o] + 1 ELSE cycle[o]]
        /\ confirmed' = confirmed \cup
             {<<o, cycle[o] + 1>> : o \in {s \in S : valid /\ confirm}}
        /\ UNCHANGED <<handed, claim>>
    BY DEF Resend, confirmedIfUnclear, tryVars
  <1> HIDE DEF valid
  <1>2. pendingBar' = pendingBar /\ takenBar' = takenBar
    BY <1>1, PendingSame, TakenSame
  <1>3. \A o \in Orders : requeued(o).status = "QUEUED" /\ skipped(o).status = "SKIPPED"
    BY DEF requeued, skipped, RowType, TypeInv, TypeOK
  <1>4. \A o \in S : phaseBar[o] \in {"undelivered", "doubtful"}
    BY <1>1, PhaseFacts DEF phaseBar, Resendable
  <1>5. CASE valid
    <2>1. phaseBar' = [o \in Orders |-> IF o \in S THEN "open" ELSE phaseBar[o]]
      <3>1. \A o \in Orders :
              phaseOf(row'[o].status) = IF o \in S THEN "open" ELSE phaseBar[o]
        BY <1>1, <1>3, <1>5, PhaseFacts DEF phaseBar, Waiting
      <3> QED
        BY <3>1 DEF phaseBar
    <2>2. \A o \in S : <<o, cycle[o]>> \in pendingBar \cup takenBar => confirm
      <3> SUFFICES ASSUME NEW o \in S, ~ confirm
                   PROVE  <<o, cycle[o]>> \notin pendingBar \cup takenBar
        OBVIOUS
      <3>1. row[o].status = "FAILED"
        BY <1>1 DEF Resendable
      <3> QED
        BY <3>1, NothingOut
    <2>3. cycle' = [o \in Orders |-> IF o \in S THEN cycle[o] + 1 ELSE cycle[o]]
      BY <1>1, <1>5
    <2>4. confirmed' = IF confirm
                       THEN confirmed \cup {<<o, cycle[o] + 1>> : o \in S}
                       ELSE confirmed
      BY <1>1, <1>5
    <2>5. Delivery!Resubmit(S, confirm)
      BY <1>1, <1>2, <1>4, <2>1, <2>2, <2>3, <2>4
      DEF Delivery!Resubmit, Delivery!current
    <2> QED
      BY <2>5
  <1>6. CASE ~ valid
    <2>1. phaseBar' = [o \in Orders |-> IF o \in S THEN "ended" ELSE phaseBar[o]]
      <3>1. \A o \in Orders :
              phaseOf(row'[o].status) = IF o \in S THEN "ended" ELSE phaseBar[o]
        BY <1>1, <1>3, <1>6, PhaseFacts DEF phaseBar
      <3> QED
        BY <3>1 DEF phaseBar
    <2>2. cycle' = cycle /\ confirmed' = confirmed
      BY <1>1, <1>6 DEF TypeInv, TypeOK
    <2>3. Delivery!Retire(S)
      BY <1>2, <1>4, <2>1, <2>2 DEF Delivery!Retire
    <2> QED
      BY <2>3
  <1> QED
    BY <1>5, <1>6

LEMMA RefinePurge ==
  ASSUME TypeInv, NEW S \in SUBSET Orders, Purge(S) PROVE Delivery!Forget(S)
  <1>1. /\ \A o \in S : row[o].status \in Settled \cup Resendable
        /\ row' = [o \in Orders |-> IF o \in S THEN NoRow("PURGED") ELSE row[o]]
        /\ UNCHANGED <<cycle, confirmed, handed, claim>>
    BY DEF Purge, PurgeDue, tryVars
  <1>2. \A o \in S : phaseBar[o] \in {"delivered", "undelivered", "doubtful", "ended"}
    BY <1>1, PhaseFacts DEF phaseBar, Settled, Resendable
  <1>3. phaseBar' = [o \in Orders |-> IF o \in S THEN "forgotten" ELSE phaseBar[o]]
    <2>1. NoRow("PURGED").status = "PURGED"
      BY DEF NoRow
    <2>2. \A o \in Orders :
            phaseOf(row'[o].status) = IF o \in S THEN "forgotten" ELSE phaseBar[o]
      BY <1>1, <2>1, PhaseFacts DEF phaseBar
    <2> QED
      BY <2>2 DEF phaseBar
  <1> QED
    BY <1>1, <1>2, <1>3, PendingSame, TakenSame DEF Delivery!Forget

(* The steps the promise does not see.                                      *)
LEMMA RefineQuiet ==
  ASSUME TypeInv,
         \/ \E w \in Workers : \/ StartRun(w) \/ ClearExpired(w)
                               \/ FetchCandidates(w) \/ Lose(w) \/ EndRun(w)
                               \/ Address(w)
         \/ \E p \in Processes : Turn(p) \/ Anonymize(p)
         \/ Tick
         \/ UNCHANGED vars
  PROVE  UNCHANGED Delivery!vars
  <1>1. UNCHANGED <<cycle, confirmed, handed, claim>>
    BY DEF StartRun, ClearExpired, FetchCandidates, Lose, EndRun, Address, Turn,
           Anonymize, Tick, vars, orderVars, tryVars
  <1>2. \A o \in Orders : row'[o].status = row[o].status
    <2>1. CASE \E w \in Workers : ClearExpired(w)
      <3>1. PICK w \in Workers :
              row' = [o \in Orders |->
                IF expired(o, now[w])
                THEN [row[o] EXCEPT !.content = FALSE, !.updatedAt = clock]
                ELSE row[o]]
        BY <2>1 DEF ClearExpired
      <3>2. \A o \in Orders : row[o] \in RowType
        BY DEF TypeInv, TypeOK
      <3> QED
        BY <3>1, <3>2 DEF RowType
    <2>2. CASE UNCHANGED row
      BY <2>2
    <2> QED
      BY <2>1, <2>2 DEF StartRun, FetchCandidates, Lose, EndRun, Address, Turn,
                        Anonymize, Tick, vars, orderVars
  <1> QED
    BY <1>1, <1>2, PhaseSame, PendingSame, TakenSame DEF Delivery!vars

LEMMA RefineInit == Init => Delivery!Init
  <1> SUFFICES ASSUME Init PROVE Delivery!Init
    OBVIOUS
  <1>1. phaseBar = [o \in Orders |-> "none"]
    <2>1. \A o \in Orders : row[o].status = "ABSENT"
      BY DEF Init, NoRow
    <2> QED
      BY <2>1, PhaseFacts DEF phaseBar
  <1>2. pendingBar = {} /\ takenBar = {}
    BY DEF Init, pendingBar, takenBar
  <1> QED
    BY <1>1, <1>2 DEF Init, Delivery!Init

LEMMA RefineStep ==
  ASSUME DeliveryInv, [Next]_vars PROVE [Delivery!Next]_(Delivery!vars)
  <1> SUFFICES Delivery!Next \/ UNCHANGED Delivery!vars
    OBVIOUS
  <1>1. TypeInv /\ RoundInv
    BY DEF DeliveryInv
  <1>2. CASE \E o \in Orders : Enqueue(o)
    BY <1>1, <1>2, RefineEnqueue DEF Delivery!Next
  <1>3. CASE ResendStep
    <2>1. PICK p \in Processes, confirm \in BOOLEAN :
            \E S \in SUBSET {o \in Orders : ProcessOf[o] = p} :
              \E first \in S : Resend(S, first, confirm)
      BY <1>3 DEF ResendStep
    <2>2. PICK S \in SUBSET Orders : \E first \in S : Resend(S, first, confirm)
      BY <2>1
    <2>3. PICK first \in Orders : Resend(S, first, confirm)
      BY <2>2
    <2>4. Delivery!Resubmit(S, confirm) \/ Delivery!Retire(S)
      BY <1>1, <2>3, RefineResend
    <2> QED
      BY <2>4 DEF Delivery!Next
  <1>4. CASE \E S \in SUBSET Orders : Purge(S)
    BY <1>1, <1>4, RefinePurge DEF Delivery!Next
  <1>5. ASSUME NEW w \in Workers, Claim(w) \/ Skip(w) PROVE Delivery!Next
    BY <1>1, <1>5, RefineClaim, RefineSkip DEF Delivery!Next
  <1>6. ASSUME NEW w \in Workers, EscalateOne(w) \/ SendNext(w) \/ Crash(w)
        PROVE  Delivery!Next \/ UNCHANGED Delivery!vars
    BY <1>1, <1>6, RefineEscalateOne, RefineSendNext, RefineCrash DEF Delivery!Next
  <1>7. ASSUME NEW w \in Workers, Persist(w) PROVE Delivery!Next
    BY <1>1, <1>7, RefinePersist DEF Delivery!Next
  <1>8. CASE \/ \E w \in Workers : \/ StartRun(w) \/ ClearExpired(w)
                                   \/ FetchCandidates(w) \/ Lose(w) \/ EndRun(w)
                                   \/ Address(w)
             \/ \E p \in Processes : Turn(p) \/ Anonymize(p)
             \/ Tick
             \/ UNCHANGED vars
    BY <1>1, <1>8, RefineQuiet
  <1> QED
    BY <1>2, <1>3, <1>4, <1>5, <1>6, <1>7, <1>8 DEF Next, Work, Scan, Deliver

(* The job with its races, crashes and late answers, the resend and the     *)
(* purge do to an order only what MailDelivery allows.                      *)
THEOREM DeliveryRefined == Spec => ImplementsDelivery
  <1>1. DeliveryInv /\ [Next]_vars => [Delivery!Next]_(Delivery!vars)
    BY RefineStep
  <1> QED
    BY <1>1, RefineInit, DeliveryAlways, PTL
    DEF Spec, ImplementsDelivery, Delivery!Spec
===============================================================================
