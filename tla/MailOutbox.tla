------------------------------ MODULE MailOutbox ------------------------------
(***************************************************************************)
(* The mail outbox: delivery orders written in the business commit, the    *)
(* worker job that delivers them, the staff's manual resend and the yearly *)
(* purge of finished orders.                                               *)
(*                                                                         *)
(*   apps/worker/src/jobs/mail-outbox.ts       the job's state machine     *)
(*   packages/mail/src/dispatch.ts             the hand-over to SMTP       *)
(*   packages/mail/src/outbox.ts               creation of an order        *)
(*   apps/web/src/server/mail/resend.ts        "Erneut senden"             *)
(*   app.mail_outbox_resend, app.mail_outbox_purge_terminal     (SQL)      *)
(*                                                                         *)
(* One step is one database transaction or one external call.  Workers     *)
(* are independent runs of the job: two processes, or a BullMQ job that is *)
(* run again while its stalled first run still lives.                      *)
(***************************************************************************)
EXTENDS Integers, FiniteSets

CONSTANTS
  Orders,           \* rows of mail_outbox
  Workers,          \* concurrent runs of the job
  Processes,        \* business resources (an invoice, an appointment, ...)
  ProcessOf,        \* the resource an order belongs to
  Contacts,         \* orders of kind CLIENT_CONTACTS; the others are DIRECT
  Tcms,             \* orders of resource type tcms_nachricht
  Expiring,         \* orders whose relevance ends at a date
  NoOrder,
  MaxOrders,        \* bound: orders in the table at a time
  MaxRecipients,    \* most recipients of a CLIENT_CONTACTS order
  MaxAttempts,      \* MAIL_OUTBOX_MAX_ATTEMPTS
  RetryDelay,       \* retryDelayMs, by attempt number
  InFlightTimeout,  \* MAIL_OUTBOX_IN_FLIGHT_TIMEOUT_MS
  ResendWindow,     \* MAIL_OUTBOX_RESEND_WINDOW_DAYS
  Retention,        \* MAIL_OUTBOX_RETENTION_YEARS
  ValidFor,         \* life of an expiring order's announcement
  BatchSize,        \* rows a run reads at most
  MaxCycles,        \* bound: delivery cycles of an order (1 + resends)
  MaxCrashes        \* bound: runs that die

ASSUME OrdersAssumption ==
  /\ NoOrder \notin Orders
  /\ ProcessOf \in [Orders -> Processes]
  /\ Contacts \subseteq Orders
  /\ Expiring \subseteq Orders
  /\ Tcms \subseteq Expiring

ASSUME NumbersAssumption ==
  /\ MaxRecipients \in Nat /\ BatchSize \in Nat \ {0}
  /\ MaxCycles \in Nat \ {0} /\ MaxCrashes \in Nat /\ MaxOrders \in Nat
  /\ MaxAttempts \in Nat \ {0}

ASSUME TimesAssumption ==
  /\ RetryDelay \in [1 .. MaxAttempts -> Nat]
  /\ InFlightTimeout \in Nat \ {0}
  /\ ResendWindow \in Nat /\ Retention \in Nat /\ ValidFor \in Nat

VARIABLES
  row,         \* mail_outbox, by order
  clock,
  wanted,      \* which resources still want their mail
  anonymized,  \* resources whose client has been anonymised
  pc, now, stranded, batch, claim, tally,  \* locals of each run of the job
  crashes,
  \* observers: nothing in the program reads them
  cycle,       \* current delivery cycle of an order; a resend starts a new one
  confirmed,   \* <<order, cycle>> started with the "may be a duplicate" box
  handed,      \* <<order, cycle, attempt>> of which the provider took a mail
  notices      \* SYSTEM_MAIL_FAILED notifications written for an order

orderVars == <<row, cycle, confirmed, handed, notices>>
envVars == <<wanted, anonymized>>
scanVars == <<now, stranded, batch>>
tryVars == <<claim, tally>>
vars == <<orderVars, clock, envVars, pc, scanVars, tryVars, crashes>>

-----------------------------------------------------------------------------
(* Rows *)

NoTime == -1

Waiting == {"QUEUED", "RETRY_PENDING"}
Resendable == {"FAILED", "UNKNOWN"}
Settled == {"PROVIDER_ACCEPTED", "PARTIAL_FAILURE", "NO_RECIPIENT", "SKIPPED"}
Escalated == {"FAILED", "UNKNOWN", "PARTIAL_FAILURE"}
Status == Waiting \cup {"SENDING"} \cup Resendable \cup Settled
Gone == {"ABSENT", "PURGED"}

Time == Nat \cup {NoTime}
Count == Nat \cup {NoTime}

RowType ==
  [status : Status \cup Gone, attempts : Nat, nextAt : Time, lastAt : Time,
   escalatedAt : Time, updatedAt : Time, validUntil : Time, content : BOOLEAN,
   attempted : Count, accepted : Count]

NoRow(status) ==
  [status |-> status, attempts |-> 0, nextAt |-> NoTime, lastAt |-> NoTime,
   escalatedAt |-> NoTime, updatedAt |-> NoTime, validUntil |-> NoTime,
   content |-> FALSE, attempted |-> NoTime, accepted |-> NoTime]

(* What a run keeps of a claimed order; the cycle is an observer's note. *)
Claims ==
  [id : Orders, attemptNo : 1 .. MaxAttempts, attemptAt : Nat,
   cycle : 1 .. MaxCycles]
NoClaim == [id |-> NoOrder, attemptNo |-> 0, attemptAt |-> 0, cycle |-> 0]

(* One external send: recipients addressed, still to do, surely accepted,  *)
(* and whether some answer was inconclusive.                               *)
NoTally == [of |-> 0, left |-> 0, ok |-> 0, unsure |-> FALSE]

(* A definition whose name adds words to the one it precedes (terminal-    *)
(* ContentAlsoPartial) is a variant with a likely bug: the properties are  *)
(* tried on it, and at least one must fail.                                *)
terminalContentAlsoPartial(o, status) == status \in Escalated /\ o \notin Tcms

(* The order keeps the content of FAILED and UNKNOWN for a resend, but   *)
(* never that of a TCMS message.                                           *)
terminalContent(o, status) == status \in Resendable /\ o \notin Tcms

(* checkMailOutboxRelevanceTx, at the date it is given. *)
Relevant(o, at) ==
  /\ ProcessOf[o] \in wanted
  /\ ProcessOf[o] \notin anonymized
  /\ row[o].validUntil = NoTime \/ at < row[o].validUntil

(* "ORDER BY date ASC LIMIT n": the sets such a query may return. *)
OldestFirst(S, n, date(_)) ==
  {T \in SUBSET S :
     /\ Cardinality(T) <= n
     /\ Cardinality(T) < n => T = S
     /\ \A a \in T, b \in S \ T : date(a) <= date(b)}

-----------------------------------------------------------------------------
Init ==
  /\ row = [o \in Orders |-> NoRow("ABSENT")]
  /\ clock = 0
  /\ wanted = Processes
  /\ anonymized = {}
  /\ pc = [w \in Workers |-> "idle"]
  /\ now = [w \in Workers |-> 0]
  /\ stranded = [w \in Workers |-> {}]
  /\ batch = [w \in Workers |-> {}]
  /\ claim = [w \in Workers |-> NoClaim]
  /\ tally = [w \in Workers |-> NoTally]
  /\ crashes = 0
  /\ cycle = [o \in Orders |-> 1]
  /\ confirmed = {}
  /\ handed = {}
  /\ notices = [o \in Orders |-> 0]

-----------------------------------------------------------------------------
(* The business side *)

(* enqueueDirectMailTx, enqueueClientContactsMailTx, in the commit of the  *)
(* process.                                                                *)
Enqueue(o) ==
  /\ row[o].status = "ABSENT"
  /\ Cardinality({q \in Orders : row[q].status # "ABSENT"}) < MaxOrders
  /\ ProcessOf[o] \in wanted \ anonymized
  /\ row' = [row EXCEPT ![o] =
       [NoRow("QUEUED") EXCEPT
          !.nextAt = clock, !.updatedAt = clock, !.content = TRUE,
          !.validUntil = IF o \in Expiring THEN clock + ValidFor ELSE NoTime]]
  /\ UNCHANGED <<cycle, confirmed, handed, notices, clock, envVars, pc,
                 scanVars, tryVars, crashes>>

(* The process is done, withdrawn or cancelled, or taken up again. *)
Turn(p) ==
  /\ wanted' = IF p \in wanted THEN wanted \ {p} ELSE wanted \cup {p}
  /\ UNCHANGED <<orderVars, clock, anonymized, pc, scanVars, tryVars, crashes>>

Anonymize(p) ==
  /\ p \notin anonymized
  /\ anonymized' = anonymized \cup {p}
  /\ UNCHANGED <<orderVars, clock, wanted, pc, scanVars, tryVars, crashes>>

(* The staff's box "may already have been delivered".                      *)
confirmedIfUnclear(S, confirm) ==
  (\E o \in S : row[o].status = "UNKNOWN") => confirm

(* The function's "payload <> '{}'", for every row or none.                *)
contentOfAll(S) == \A o \in S : row[o].content

requeued(o) ==
  [row[o] EXCEPT
     !.status = "QUEUED", !.attempts = 0, !.nextAt = clock, !.attempted = NoTime,
     !.accepted = NoTime, !.escalatedAt = NoTime, !.updatedAt = clock]

skipped(o) ==
  [row[o] EXCEPT !.status = "SKIPPED", !.content = FALSE, !.nextAt = NoTime,
                 !.updatedAt = clock]

(* resendMailOutboxTx with app.mail_outbox_resend: the orders of one       *)
(* status line, all or none.  Only the first row read is checked.          *)
Resend(S, first, confirm) ==
  LET valid == Relevant(first, clock)
  IN /\ S \cap Tcms = {}
     /\ \A o \in S : row[o].status \in Resendable
     /\ confirmedIfUnclear(S, confirm)
     /\ valid => contentOfAll(S)
     /\ \A o \in S : cycle[o] < MaxCycles
     /\ row' = [o \in Orders |->
          IF o \notin S THEN row[o]
          ELSE IF valid THEN requeued(o) ELSE skipped(o)]
     /\ cycle' = [o \in Orders |->
          IF o \in S /\ valid THEN cycle[o] + 1 ELSE cycle[o]]
     /\ confirmed' = confirmed \cup
          {<<o, cycle[o] + 1>> : o \in {s \in S : valid /\ confirm}}
     /\ UNCHANGED <<handed, notices, clock, envVars, pc, scanVars, tryVars,
                    crashes>>

(* app.mail_outbox_purge_terminal: rows a concurrent transaction holds are *)
(* skipped, so any part of the due rows may go.                            *)
PurgeDue(o) ==
  \/ row[o].status \in Settled /\ row[o].updatedAt < clock - Retention
  \/ /\ row[o].status \in Resendable
     /\ (IF row[o].escalatedAt # NoTime
         THEN row[o].escalatedAt ELSE row[o].updatedAt) < clock - Retention

Purge(S) ==
  /\ S # {} /\ \A o \in S : PurgeDue(o)
  /\ row' = [o \in Orders |-> IF o \in S THEN NoRow("PURGED") ELSE row[o]]
  /\ UNCHANGED <<cycle, confirmed, handed, notices, clock, envVars, pc,
                 scanVars, tryVars, crashes>>

-----------------------------------------------------------------------------
(* One run of the job: processMailOutbox *)

hanging == {o \in Orders :
              /\ row[o].status = "SENDING"
              /\ row[o].lastAt <= clock - InFlightTimeout}

StartRun(w) ==
  /\ pc[w] = "idle"
  /\ \E S \in OldestFirst(hanging, BatchSize, LAMBDA o : row[o].lastAt) :
       stranded' = [stranded EXCEPT ![w] =
                      {[id |-> o, lastAt |-> row[o].lastAt] : o \in S}]
  /\ now' = [now EXCEPT ![w] = clock]
  /\ pc' = [pc EXCEPT ![w] = "escalating"]
  /\ UNCHANGED <<orderVars, clock, envVars, batch, tryVars, crashes>>

stillSending(s) == row[s.id].status = "SENDING"

(* The compare-and-swap condition of escalateStrandedSending.              *)
stillStranded(s) == row[s.id].status = "SENDING" /\ row[s.id].lastAt = s.lastAt

unclear(o, at) ==
  [row[o] EXCEPT
     !.status = "UNKNOWN", !.escalatedAt = at, !.nextAt = NoTime,
     !.updatedAt = clock, !.content = @ /\ terminalContent(o, "UNKNOWN")]

(* escalateStrandedSending, one row: a transaction that sets UNKNOWN and   *)
(* writes the notification.                                                *)
EscalateOne(w) ==
  /\ pc[w] = "escalating"
  /\ \E s \in stranded[w] :
       /\ stranded' = [stranded EXCEPT ![w] = @ \ {s}]
       /\ IF stillStranded(s)
          THEN /\ row' = [row EXCEPT ![s.id] = unclear(s.id, now[w])]
               /\ notices' = [notices EXCEPT ![s.id] = @ + 1]
          ELSE UNCHANGED <<row, notices>>
  /\ UNCHANGED <<cycle, confirmed, handed, clock, envVars, pc, now, batch,
                 tryVars, crashes>>

expiredIfFailed(o, at) ==
  /\ row[o].status = "FAILED" /\ row[o].content
  /\ row[o].escalatedAt # NoTime
  /\ row[o].escalatedAt <= at - ResendWindow

(* The rows whose content was kept for a resend long enough.               *)
expired(o, at) ==
  /\ row[o].status \in Resendable /\ row[o].content
  /\ \/ ProcessOf[o] \in anonymized
     \/ /\ row[o].escalatedAt # NoTime
        /\ row[o].escalatedAt <= at - ResendWindow

(* clearExpiredResendContent: one update over all rows. *)
ClearExpired(w) ==
  /\ pc[w] = "escalating" /\ stranded[w] = {}
  /\ row' = [o \in Orders |->
       IF expired(o, now[w])
       THEN [row[o] EXCEPT !.content = FALSE, !.updatedAt = clock]
       ELSE row[o]]
  /\ pc' = [pc EXCEPT ![w] = "fetching"]
  /\ UNCHANGED <<cycle, confirmed, handed, notices, clock, envVars,
                 scanVars, tryVars, crashes>>

dueIfQueued(at) == {o \in Orders : row[o].status = "QUEUED" /\ row[o].nextAt <= at}

due(at) == {o \in Orders : row[o].status \in Waiting /\ row[o].nextAt <= at}

(* The candidates, as they were when they were read. *)
FetchCandidates(w) ==
  /\ pc[w] = "fetching"
  /\ \E S \in OldestFirst(due(now[w]), BatchSize, LAMBDA o : row[o].nextAt) :
       batch' = [batch EXCEPT ![w] =
         {[id |-> o, status |-> row[o].status, attempts |-> row[o].attempts] :
            o \in S}]
  /\ pc' = [pc EXCEPT ![w] = "working"]
  /\ UNCHANGED <<orderVars, clock, envVars, now, stranded, tryVars, crashes>>

(* The compare-and-swap condition of claimOrSkip. *)
unchanged(c) ==
  row[c.id].status = c.status /\ row[c.id].attempts = c.attempts

started(o) ==
  [row[o] EXCEPT !.status = "SENDING", !.attempts = @ + 1, !.lastAt = clock,
                 !.nextAt = NoTime, !.updatedAt = clock]

(* claimOrSkip, claimed: SENDING before any external call. *)
Claim(w) ==
  /\ pc[w] = "working"
  /\ \E c \in batch[w] :
       /\ Relevant(c.id, now[w])
       /\ unchanged(c)
       /\ row' = [row EXCEPT ![c.id] = started(c.id)]
       /\ claim' = [claim EXCEPT ![w] =
            [id |-> c.id, attemptNo |-> c.attempts + 1, attemptAt |-> clock,
             cycle |-> cycle[c.id]]]
       /\ batch' = [batch EXCEPT ![w] = @ \ {c}]
  /\ pc' = [pc EXCEPT ![w] = "preparing"]
  /\ UNCHANGED <<cycle, confirmed, handed, notices, clock, envVars, now,
                 stranded, tally, crashes>>

(* claimOrSkip, no longer wanted: the order ends without SMTP contact. *)
Skip(w) ==
  /\ pc[w] = "working"
  /\ \E c \in batch[w] :
       /\ ~ Relevant(c.id, now[w])
       /\ unchanged(c)
       /\ row' = [row EXCEPT ![c.id] = skipped(c.id)]
       /\ batch' = [batch EXCEPT ![w] = @ \ {c}]
  /\ UNCHANGED <<cycle, confirmed, handed, notices, clock, envVars, pc, now,
                 stranded, tryVars, crashes>>

(* claimOrSkip, lost: somebody else changed the row since it was read. *)
Lose(w) ==
  /\ pc[w] = "working"
  /\ \E c \in batch[w] :
       /\ ~ unchanged(c)
       /\ batch' = [batch EXCEPT ![w] = @ \ {c}]
  /\ UNCHANGED <<orderVars, clock, envVars, pc, now, stranded, tryVars, crashes>>

EndRun(w) ==
  /\ pc[w] = "working" /\ batch[w] = {}
  /\ pc' = [pc EXCEPT ![w] = "idle"]
  /\ now' = [now EXCEPT ![w] = 0]
  /\ UNCHANGED <<orderVars, clock, envVars, stranded, batch, tryVars, crashes>>

-----------------------------------------------------------------------------
(* Delivery of a claimed order: deliver, sendTemplateMail,                 *)
(* notifyClientContacts                                                    *)

(* The recipients are resolved now: one address, or the contacts the       *)
(* client has at this moment.                                              *)
Address(w) ==
  /\ pc[w] = "preparing"
  /\ \E n \in IF claim[w].id \in Contacts THEN 0 .. MaxRecipients ELSE {1} :
       tally' = [tally EXCEPT ![w] = [NoTally EXCEPT !.of = n, !.left = n]]
  /\ pc' = [pc EXCEPT ![w] = "sending"]
  /\ UNCHANGED <<orderVars, clock, envVars, scanVars, claim, crashes>>

Attempt(w) == <<claim[w].id, claim[w].cycle, claim[w].attemptNo>>

counted(t, taken, conclusive) ==
  [of |-> t.of, left |-> t.left - 1,
   ok |-> IF taken /\ conclusive THEN t.ok + 1 ELSE t.ok,
   unsure |-> t.unsure \/ ~ conclusive]

(* One recipient.  The provider takes the mail or not; the worker learns   *)
(* it took it, learns it did not (an SMTP 4xx/5xx, a configuration that    *)
(* could not be read, no text to send), or learns nothing (socket, timeout).*)
SendNext(w) ==
  /\ pc[w] = "sending" /\ tally[w].left > 0
  /\ \E taken \in BOOLEAN, conclusive \in BOOLEAN :
       /\ handed' = IF taken THEN handed \cup {Attempt(w)} ELSE handed
       /\ tally' = [tally EXCEPT ![w] = counted(@, taken, conclusive)]
  /\ UNCHANGED <<row, cycle, confirmed, notices, clock, envVars, pc, scanVars,
                 claim, crashes>>

-----------------------------------------------------------------------------
(* The result, written only over the run's own claim *)

ownClaimInAnyStatus(w) ==
  row[claim[w].id].attempts = claim[w].attemptNo
  /\ row[claim[w].id].lastAt = claim[w].attemptAt
ownClaimByNumber(w) ==
  row[claim[w].id].status = "SENDING"
  /\ row[claim[w].id].attempts = claim[w].attemptNo

ownClaim(w) ==
  LET c == claim[w]
  IN /\ row[c.id].status = "SENDING"
     /\ row[c.id].attempts = c.attemptNo
     /\ row[c.id].lastAt = c.attemptAt

(* The run goes on with its batch, whether or not the update hit a row. *)
Record(w, r, tell) ==
  LET o == claim[w].id
  IN /\ row' = IF ownClaim(w) THEN [row EXCEPT ![o] = r] ELSE row
     /\ notices' = IF ownClaim(w) /\ tell
                   THEN [notices EXCEPT ![o] = @ + 1] ELSE notices
     /\ pc' = [pc EXCEPT ![w] = "working"]
     /\ claim' = [claim EXCEPT ![w] = NoClaim]
     /\ tally' = [tally EXCEPT ![w] = NoTally]
     /\ UNCHANGED <<cycle, confirmed, handed, clock, envVars, scanVars, crashes>>

(* persistTerminal; `counts` are the recipients attempted and accepted,    *)
(* left as they were where the caller does not know them.                  *)
persistTerminal(w, status, counts) ==
  LET o == claim[w].id
      tell == status \in Escalated
  IN Record(w,
       [row[o] EXCEPT
          !.status = status, !.nextAt = NoTime, !.updatedAt = clock,
          !.escalatedAt = IF tell THEN claim[w].attemptAt ELSE NoTime,
          !.content = @ /\ terminalContent(o, status),
          !.attempted = counts[1], !.accepted = counts[2]],
       tell)

answered(w) == pc[w] = "sending" /\ tally[w].left = 0
told(w) == <<tally[w].of, tally[w].ok>>
untold(w) == <<row[claim[w].id].attempted, row[claim[w].id].accepted>>

PersistNoRecipient(w) ==
  /\ answered(w) /\ tally[w].of = 0
  /\ persistTerminal(w, "NO_RECIPIENT", told(w))

PersistAccepted(w) ==
  /\ answered(w) /\ tally[w].of > 0
  /\ ~ tally[w].unsure /\ tally[w].ok = tally[w].of
  /\ persistTerminal(w, "PROVIDER_ACCEPTED", told(w))

PersistUncertainAsPartial(w) ==
  /\ answered(w) /\ tally[w].unsure
  /\ persistTerminal(w, "PARTIAL_FAILURE", told(w))

PersistUncertain(w) ==
  /\ answered(w) /\ tally[w].unsure
  /\ persistTerminal(w, "UNKNOWN", told(w))

persistDefiniteFailureOnceMore(w, counts) ==
  LET c == claim[w]
  IN IF c.attemptNo > MaxAttempts
     THEN persistTerminal(w, "FAILED", counts)
     ELSE Record(w,
            [row[c.id] EXCEPT
               !.status = "RETRY_PENDING", !.updatedAt = clock, !.nextAt = clock,
               !.attempted = counts[1], !.accepted = counts[2]],
            FALSE)

(* persistDefiniteFailure: surely nothing was accepted.                    *)
persistDefiniteFailure(w, counts) ==
  LET c == claim[w]
  IN IF c.attemptNo >= MaxAttempts
     THEN persistTerminal(w, "FAILED", counts)
     ELSE Record(w,
            [row[c.id] EXCEPT
               !.status = "RETRY_PENDING", !.updatedAt = clock,
               !.nextAt = c.attemptAt + RetryDelay[c.attemptNo],
               !.attempted = counts[1], !.accepted = counts[2]],
            FALSE)

(* Payload, secret or attachment cannot be read: no SMTP contact.          *)
PersistUnprepared(w) ==
  /\ pc[w] = "preparing"
  /\ persistDefiniteFailure(w, untold(w))

PersistPartialAsFailure(w) ==
  /\ answered(w) /\ ~ tally[w].unsure
  /\ 0 < tally[w].ok /\ tally[w].ok < tally[w].of
  /\ persistDefiniteFailure(w, told(w))

PersistPartial(w) ==
  /\ answered(w) /\ ~ tally[w].unsure
  /\ 0 < tally[w].ok /\ tally[w].ok < tally[w].of
  /\ persistTerminal(w, "PARTIAL_FAILURE", told(w))

PersistThrownAsFailure(w) ==
  /\ pc[w] = "sending"
  /\ persistDefiniteFailure(w, untold(w))

(* The send threw between or after the recipients, e.g. while the n8n      *)
(* event was emitted: what was taken so far is not reported.               *)
PersistThrown(w) ==
  /\ pc[w] = "sending"
  /\ persistTerminal(w, "UNKNOWN", untold(w))

PersistRejected(w) ==
  /\ answered(w) /\ tally[w].of > 0
  /\ ~ tally[w].unsure /\ tally[w].ok = 0
  /\ persistDefiniteFailure(w, told(w))

(* The process dies, or a transaction of the run fails and the job throws: *)
(* what it held in memory is gone, what it committed stays.                *)
Crash(w) ==
  /\ pc[w] # "idle" /\ crashes < MaxCrashes
  /\ crashes' = crashes + 1
  /\ pc' = [pc EXCEPT ![w] = "idle"]
  /\ now' = [now EXCEPT ![w] = 0]
  /\ stranded' = [stranded EXCEPT ![w] = {}]
  /\ batch' = [batch EXCEPT ![w] = {}]
  /\ claim' = [claim EXCEPT ![w] = NoClaim]
  /\ tally' = [tally EXCEPT ![w] = NoTally]
  /\ UNCHANGED <<orderVars, clock, envVars>>

-----------------------------------------------------------------------------
(* A date some row still waits for.  Time that passes while there is none  *)
(* changes no comparison the code makes, so the clock need not move then;  *)
(* this keeps it finite without a bound of its own.                        *)
TimerRuns ==
  \E o \in Orders :
    LET r == row[o]
    IN \/ r.status \in Waiting /\ r.nextAt > clock
       \/ r.status \notin Settled \cup Gone /\ r.validUntil > clock
       \/ r.status = "SENDING" /\ r.lastAt + InFlightTimeout > clock
       \/ /\ r.status \in Resendable /\ r.content
          /\ r.escalatedAt + ResendWindow > clock
       \/ r.status \in Settled /\ r.updatedAt + Retention >= clock
       \/ r.status \in Resendable /\ r.escalatedAt + Retention >= clock

Tick ==
  /\ TimerRuns
  /\ clock' = clock + 1
  /\ UNCHANGED <<orderVars, envVars, pc, scanVars, tryVars, crashes>>

Persist(w) ==
  \/ PersistUnprepared(w) \/ PersistThrown(w) \/ PersistNoRecipient(w)
  \/ PersistAccepted(w) \/ PersistPartial(w) \/ PersistUncertain(w)
  \/ PersistRejected(w)

Scan(w) ==
  \/ StartRun(w) \/ EscalateOne(w) \/ ClearExpired(w) \/ FetchCandidates(w)
  \/ Claim(w) \/ Skip(w) \/ Lose(w) \/ EndRun(w)

Deliver(w) == Address(w) \/ SendNext(w) \/ Persist(w)

Work(w) == Scan(w) \/ Deliver(w)

ResendStep ==
  \E p \in Processes, confirm \in BOOLEAN :
    \E S \in SUBSET {o \in Orders : ProcessOf[o] = p} :
      \E first \in S : Resend(S, first, confirm)

Next ==
  \/ \E o \in Orders : Enqueue(o)
  \/ \E p \in Processes : Turn(p) \/ Anonymize(p)
  \/ ResendStep
  \/ \E S \in SUBSET Orders : Purge(S)
  \/ \E w \in Workers : Work(w) \/ Crash(w)
  \/ Tick

(* The scheduler starts the job every minute, BullMQ runs it again after a *)
(* crash, and every external call returns or times out; nobody must resend.*)
Fairness ==
  /\ \A w \in Workers : WF_vars(Work(w))
  /\ WF_vars(Tick)

Spec == Init /\ [][Next]_vars
LiveSpec == Spec /\ Fairness

-----------------------------------------------------------------------------
(* Properties *)

(* Every variable keeps its type; no order is tried more often than        *)
(* MAIL_OUTBOX_MAX_ATTEMPTS allows between two resends.                    *)
TypeOK ==
  /\ row \in [Orders -> RowType]
  /\ clock \in Nat
  /\ wanted \in SUBSET Processes /\ anonymized \in SUBSET Processes
  /\ pc \in [Workers -> {"idle", "escalating", "fetching", "working",
                         "preparing", "sending"}]
  /\ now \in [Workers -> Nat]
  /\ stranded \in [Workers -> SUBSET [id : Orders, lastAt : Time]]
  /\ batch \in [Workers -> SUBSET [id : Orders, status : Waiting,
                                   attempts : 0 .. MaxAttempts - 1]]
  /\ claim \in [Workers -> Claims \cup {NoClaim}]
  /\ tally \in [Workers -> [of : Nat, left : Nat, ok : Nat, unsure : BOOLEAN]]
  /\ crashes \in Nat
  /\ cycle \in [Orders -> 1 .. MaxCycles]
  /\ confirmed \in SUBSET (Orders \X (1 .. MaxCycles))
  /\ handed \in SUBSET (Orders \X (1 .. MaxCycles) \X (1 .. MaxAttempts))
  /\ notices \in [Orders -> Nat]

(* The worker never sends a mail again by itself once the provider may     *)
(* have it: of all attempts between two resends the provider takes a mail  *)
(* in at most one, whatever runs race, hang, die or are rerun.             *)
NoAutomaticDuplicate ==
  \A g, h \in handed : g[1] = h[1] /\ g[2] = h[2] => g[3] = h[3]

(* A mail that reached the provider is sent once more only after a member  *)
(* of staff confirmed that it may be a duplicate; this includes the answer *)
(* that comes while the order already lies there as UNKNOWN or is on its   *)
(* next round.                                                             *)
DuplicateOnlyConfirmed ==
  \A h \in handed : h[2] < cycle[h[1]] => <<h[1], h[2] + 1>> \in confirmed

(* What the status says of the current round is so: nothing reached the    *)
(* provider for an order that waits, failed or had no recipient, and       *)
(* something did, in its last attempt, for one reported as accepted.       *)
StatusIsTrue ==
  \A o \in Orders :
    LET r == row[o]
        sent == {h \in handed : h[1] = o /\ h[2] = cycle[o]}
    IN /\ r.status \in Waiting \cup {"FAILED", "NO_RECIPIENT"} => sent = {}
       /\ r.status \in {"PROVIDER_ACCEPTED", "PARTIAL_FAILURE"} =>
            <<o, cycle[o], r.attempts>> \in handed

(* A claim's token (status, number and time of the attempt) is never met   *)
(* by a later attempt: a run that was given up cannot write its result     *)
(* over a row that has been resent and claimed anew.                       *)
OwnClaimIsCurrent ==
  \A w \in Workers :
    claim[w] # NoClaim /\ ownClaim(w) =>
      /\ claim[w].cycle = cycle[claim[w].id]
      /\ \A v \in Workers \ {w} :
           claim[v].id = claim[w].id => ~ ownClaim(v)

(* The staff are told of every order that failed, went through in part or  *)
(* is unclear, exactly once per round, however many runs notice it.        *)
ToldOnce ==
  \A o \in Orders :
    LET r == row[o]
    IN /\ r.status \in Escalated => r.escalatedAt # NoTime
       /\ r.status # "PURGED" =>
            notices[o] = (cycle[o] - 1)
                           + (IF r.escalatedAt = NoTime THEN 0 ELSE 1)

(* mail_outbox_schedule_check, _recipients_check, _secret_check and        *)
(* _tcms_content_check: no transaction of the job or of a resend is        *)
(* refused by the table, which would leave the order SENDING; what can     *)
(* still be sent has its content, and content outlives a final status only *)
(* where a resend may need it.                                             *)
TableChecks ==
  \A o \in Orders :
    LET r == row[o]
    IN /\ (r.status \in Waiting) = (r.nextAt # NoTime)
       /\ r.status \in Waiting \cup {"SENDING"} => r.content
       /\ r.attempted # NoTime /\ r.accepted # NoTime => r.accepted <= r.attempted
       /\ r.content => r.status \in Waiting \cup {"SENDING"} \cup Resendable
       /\ r.content /\ o \in Tcms => r.status \in Waiting \cup {"SENDING"}

(* A claimed order leaves SENDING by the hand of the run that claimed it,  *)
(* or after the in-flight timeout of this very attempt has passed: a scan  *)
(* that is late never gives up an attempt begun after it.                  *)
NotGivenUpEarly ==
  [][\A o \in Orders :
       row[o].status = "SENDING" /\ row'[o].status # "SENDING" =>
         \/ \E w \in Workers :
              claim[w].id = o /\ ownClaim(w) /\ claim'[w] = NoClaim
         \/ row[o].lastAt + InFlightTimeout <= clock]_vars

(* Every order comes to an end or into the hands of the staff.             *)
EveryOrderEnds ==
  \A o \in Orders :
    row[o].status \in Waiting \cup {"SENDING"} ~>
      row[o].status \notin Waiting \cup {"SENDING"}

(* The content of an anonymised client's orders goes, and stays away,      *)
(* whatever state the orders were in.                                      *)
AnonymizedIsErased ==
  \A o \in Orders : ProcessOf[o] \in anonymized ~> []~ row[o].content
=============================================================================
