---------------------------- MODULE StorageJournal ----------------------------
(***************************************************************************)
(* The storage journal: an upload writes down what it is about to store,   *)
(* stores the object, and commits the document that refers to it; a job    *)
(* later removes the objects no document refers to.                        *)
(*                                                                         *)
(*   apps/web/src/server/documents/journaled-upload.ts   the upload        *)
(*   apps/web/src/server/documents/storage-intent.ts     its journal       *)
(*   apps/web/src/server/documents/storage-compensation.ts                 *)
(*   app.settle_storage_intent (SQL)                                       *)
(*   packages/storage/src/service.ts                     the object store  *)
(*   apps/worker/src/jobs/storage-orphan-cleanup.ts      the job           *)
(*                                                                         *)
(* One step is one database transaction or one call of the object store.   *)
(* Every upload has a key of its own, under which at most one version is   *)
(* ever written (conditional PUT).                                         *)
(***************************************************************************)
EXTENDS Integers

CONSTANTS
  Uploads,     \* uploads, and the keys of their objects
  Cleaners,    \* concurrent runs of the cleanup job
  Locked,      \* uploads under object lock
  Prompt,      \* uploads that are over before the grace period is
  Grace,       \* RECONCILIATION_GRACE_MS
  ClaimStale,  \* CLAIM_STALE_MS
  Retention,   \* retention of a locked object
  NoJob,
  MaxFaults,   \* bound: failing calls, deaths and stalls of cleanup runs
  MaxClock     \* bound: time

ASSUME UploadsAssumption == Locked \subseteq Uploads /\ Prompt \subseteq Uploads

ASSUME DatesAssumption ==
  /\ Grace \in Nat \ {0} /\ ClaimStale \in Nat \ {0} /\ Retention \in Nat
  /\ MaxFaults \in Nat /\ MaxClock \in Nat

VARIABLES
  row,         \* storage_orphan: the intent of an upload, and a later row
  stored,      \* keys under which the store has an object
  referenced,  \* keys a document version refers to
  up, put,     \* each upload, and its PUT
  clock,
  pc, now, batch, job,  \* locals of each cleanup run
  faults

cleanVars == <<pc, now, batch, job, faults>>
uploadVars == <<up, put>>
vars == <<row, stored, referenced, uploadVars, clock, cleanVars>>

-----------------------------------------------------------------------------
NoTime == -1
Time == Nat \cup {NoTime}

(* The rows of a key: the journalled intent, and the row a compensation    *)
(* adds when that intent is closed under no version.                       *)
Ids == Uploads \X {"intent", "orphan"}
Intent(u) == <<u, "intent">>
Orphan(u) == <<u, "orphan">>

Resolution == {"REFERENCED", "DELETED", "ABSENT"}

(* bound: the row names the version of the object.                         *)
RowType ==
  [state : {"none", "open"} \cup Resolution, bound : BOOLEAN,
   claimedAt : Time, createdAt : Time]
NoRow == [state |-> "none", bound |-> FALSE, claimedAt |-> NoTime,
          createdAt |-> NoTime]

Jobs == [id : Ids, bound : BOOLEAN, at : Nat]
ASSUME NoJobAssumption == NoJob \notin Jobs

opened(bound) == [state |-> "open", bound |-> bound, claimedAt |-> NoTime,
                  createdAt |-> clock]
closedKeepsClaim(r, resolution) == [r EXCEPT !.state = resolution]

(* Closing a row, and adding or reopening one, ends its claim.             *)
closed(r, resolution) == [r EXCEPT !.state = resolution, !.claimedAt = NoTime]

retentionUntil(u) == row[Intent(u)].createdAt + Retention

Init ==
  /\ row = [id \in Ids |-> NoRow]
  /\ stored = {} /\ referenced = {}
  /\ up = [u \in Uploads |-> "new"]
  /\ put = [u \in Uploads |-> "none"]
  /\ clock = 0
  /\ pc = [c \in Cleaners |-> "idle"]
  /\ now = [c \in Cleaners |-> 0]
  /\ batch = [c \in Cleaners |-> {}]
  /\ job = [c \in Cleaners |-> NoJob]
  /\ faults = 0

-----------------------------------------------------------------------------
(* The upload: runJournaledUpload *)

Goto(u, state) == up' = [up EXCEPT ![u] = state]

(* journalStorageIntents, after the checks, the scan and the hash.         *)
Journal(u) ==
  /\ up[u] = "new"
  /\ row' = [row EXCEPT ![Intent(u)] = opened(FALSE)]
  /\ Goto(u, "journaled")
  /\ UNCHANGED <<stored, referenced, put, clock, cleanVars>>

(* storeStorageIntent, commitPreparedBytes: the PUT is sent ...            *)
Send(u) ==
  /\ up[u] = "journaled"
  /\ put' = [put EXCEPT ![u] = "flying"]
  /\ Goto(u, "putting")
  /\ UNCHANGED <<row, stored, referenced, clock, cleanVars>>

(* ... and arrives, whether or not somebody waits for it, or is lost.      *)
Land(u) ==
  /\ put[u] = "flying"
  /\ put' = [put EXCEPT ![u] = "landed"]
  /\ stored' = stored \cup {u}
  /\ UNCHANGED <<row, referenced, up, clock, cleanVars>>

Drop(u) ==
  /\ put[u] = "flying"
  /\ put' = [put EXCEPT ![u] = "lost"]
  /\ UNCHANGED <<row, stored, referenced, up, clock, cleanVars>>

Answer(u) ==
  /\ up[u] = "putting" /\ put[u] = "landed"
  /\ Goto(u, "stored")
  /\ UNCHANGED <<row, stored, referenced, put, clock, cleanVars>>

(* The call fails or times out: the key is looked up.                      *)
NoAnswer(u) ==
  /\ up[u] = "putting"
  /\ Goto(u, "looking")
  /\ UNCHANGED <<row, stored, referenced, put, clock, cleanVars>>

(* recoverPreparedBytesCommit, in the upload: go on with what is there, or *)
(* give up and leave the intent open.                                      *)
LookUp(u) ==
  /\ up[u] = "looking"
  /\ Goto(u, IF u \in stored THEN "stored" ELSE "over")
  /\ UNCHANGED <<row, stored, referenced, put, clock, cleanVars>>

(* What app.settle_storage_intent demands of the intent.                   *)
settleable(u) ==
  row[Intent(u)].state = "open" /\ row[Intent(u)].claimedAt = NoTime

(* The business commit: the document version and the end of its intent.    *)
(* The answer of the database may get lost.                                *)
Commit(u) ==
  /\ up[u] = "stored" /\ settleable(u)
  /\ referenced' = referenced \cup {u}
  /\ row' = [row EXCEPT ![Intent(u)] =
       [closed(@, "REFERENCED") EXCEPT !.bound = TRUE]]
  /\ \E next \in {"over", "releasing"} : Goto(u, next)
  /\ UNCHANGED <<stored, put, clock, cleanVars>>

(* It rolls back: the intent is not open, the second check refuses, or the *)
(* database fails.                                                         *)
RollBack(u) ==
  /\ up[u] = "stored"
  /\ Goto(u, "releasing")
  /\ UNCHANGED <<row, stored, referenced, put, clock, cleanVars>>

(* releaseStorageIntent: an open intent is bound to the version stored.    *)
Release(u) ==
  /\ up[u] = "releasing"
  /\ IF row[Intent(u)].state = "open"
     THEN row' = [row EXCEPT ![Intent(u)].bound = TRUE] /\ Goto(u, "over")
     ELSE Goto(u, "compensating") /\ UNCHANGED row
  /\ UNCHANGED <<stored, referenced, put, clock, cleanVars>>

(* compensateStorageCommit: an upsert by key and version reopens the row   *)
(* of this version, or adds one.                                           *)
Compensate(u) ==
  /\ up[u] = "compensating"
  /\ row' =
       IF row[Intent(u)].bound
       THEN [row EXCEPT ![Intent(u)].state = "open",
                        ![Intent(u)].claimedAt = NoTime]
       ELSE [row EXCEPT ![Orphan(u)] = opened(TRUE)]
  /\ Goto(u, "over")
  /\ UNCHANGED <<stored, referenced, put, clock, cleanVars>>

(* The process dies, or one of its own calls fails without a way back.     *)
Perish(u) ==
  /\ up[u] \notin {"new", "over"}
  /\ Goto(u, "over")
  /\ UNCHANGED <<row, stored, referenced, put, clock, cleanVars>>

-----------------------------------------------------------------------------
(* The cleanup job: runStorageOrphanCleanup *)

dueAnytime(id, at) == row[id].state = "open" /\ row[id].claimedAt = NoTime

dueIfUnclaimed(id, at) ==
  /\ row[id].state = "open"
  /\ row[id].createdAt <= at - Grace
  /\ row[id].claimedAt = NoTime
  /\ id[1] \in Locked => retentionUntil(id[1]) <= at

(* dueWhere *)
due(id, at) ==
  /\ row[id].state = "open"
  /\ row[id].createdAt <= at - Grace
  /\ row[id].claimedAt = NoTime \/ row[id].claimedAt <= at - ClaimStale
  /\ id[1] \in Locked => retentionUntil(id[1]) <= at

StartRun(c) ==
  /\ pc[c] = "idle"
  /\ now' = [now EXCEPT ![c] = clock]
  /\ \E id \in Ids : due(id, clock)
  /\ batch' = [batch EXCEPT ![c] =
       {[id |-> id, bound |-> row[id].bound] : id \in {i \in Ids : due(i, clock)}}]
  /\ pc' = [pc EXCEPT ![c] = "working"]
  /\ UNCHANGED <<row, stored, referenced, uploadVars, clock, job, faults>>

(* processCandidate: the claim, if the row is still due.                   *)
ClaimNext(c) ==
  /\ pc[c] = "working"
  /\ \E k \in batch[c] :
       /\ batch' = [batch EXCEPT ![c] = @ \ {k}]
       /\ IF due(k.id, now[c])
          THEN /\ row' = [row EXCEPT ![k.id].claimedAt = clock]
               /\ job' = [job EXCEPT ![c] =
                    [id |-> k.id, bound |-> k.bound, at |-> clock]]
               /\ pc' = [pc EXCEPT ![c] = "claimed"]
          ELSE UNCHANGED <<row, job, pc>>
  /\ UNCHANGED <<stored, referenced, uploadVars, clock, now, faults>>

EndRun(c) ==
  /\ pc[c] = "working" /\ batch[c] = {}
  /\ pc' = [pc EXCEPT ![c] = "idle"]
  /\ now' = [now EXCEPT ![c] = 0]
  /\ UNCHANGED <<row, stored, referenced, uploadVars, clock, batch, job, faults>>

key(c) == job[c].id[1]

Step(c, from, to) ==
  /\ pc[c] = from
  /\ pc' = [pc EXCEPT ![c] = to]

(* findPersistedReference, and where its answer leads.                     *)
CheckReference(c) ==
  /\ Step(c, "claimed", IF key(c) \in referenced THEN "referenced"
                        ELSE IF job[c].bound THEN "deleting" ELSE "recovering")
  /\ UNCHANGED <<row, stored, referenced, uploadVars, clock, now, batch, job,
                 faults>>

(* recoverPreparedBytesCommit, in the job: the key is looked up.           *)
RecoverVersion(c) ==
  /\ Step(c, "recovering", IF key(c) \in stored THEN "binding" ELSE "absent")
  /\ UNCHANGED <<row, stored, referenced, uploadVars, clock, now, batch, job,
                 faults>>

(* The row is still open under the claim of this run.                      *)
own(c) == row[job[c].id].state = "open" /\ row[job[c].id].claimedAt = job[c].at

released(r) == [r EXCEPT !.claimedAt = NoTime]

(* An update that hits the run's own claim or nothing; the next candidate. *)
Record(c, r) ==
  /\ row' = IF own(c) THEN [row EXCEPT ![job[c].id] = r] ELSE row
  /\ pc' = [pc EXCEPT ![c] = "working"]
  /\ job' = [job EXCEPT ![c] = NoJob]
  /\ UNCHANGED <<stored, referenced, uploadVars, clock, now, batch>>

Bind(c) ==
  /\ Step(c, "binding", "rechecking")
  /\ own(c) /\ ~ row[job[c].id].bound
  /\ row' = [row EXCEPT ![job[c].id].bound = TRUE]
  /\ UNCHANGED <<stored, referenced, uploadVars, clock, now, batch, job, faults>>

(* Somebody else took or bound the row: the error releases the claim.      *)
BindConflict(c) ==
  /\ pc[c] = "binding"
  /\ ~ own(c) \/ row[job[c].id].bound
  /\ Record(c, released(row[job[c].id]))
  /\ UNCHANGED faults

Recheck(c) ==
  /\ Step(c, "rechecking",
          IF key(c) \in referenced THEN "referenced" ELSE "deleting")
  /\ UNCHANGED <<row, stored, referenced, uploadVars, clock, now, batch, job,
                 faults>>

(* deleteObjectVersion; the next step reports success or a failed call.    *)
Delete(c) ==
  /\ Step(c, "deleting", "deleted")
  /\ stored' = stored \ {key(c)}
  /\ UNCHANGED <<row, referenced, uploadVars, clock, now, batch, job, faults>>

SettleReferenced(c) ==
  /\ pc[c] = "referenced"
  /\ Record(c, closed(row[job[c].id], "REFERENCED"))
  /\ UNCHANGED faults

SettleDeleted(c) ==
  /\ pc[c] = "deleted"
  /\ Record(c, closed(row[job[c].id], "DELETED"))
  /\ UNCHANGED faults

settleAbsentAnyway(r) == closed(r, "ABSENT")

absent(r) == IF r.bound THEN r ELSE closed(r, "ABSENT")

(* settleAbsentIntent: never written, unless a version got bound meanwhile.*)
SettleAbsent(c) ==
  /\ pc[c] = "absent"
  /\ Record(c, absent(row[job[c].id]))
  /\ UNCHANGED faults

InTry == {"claimed", "recovering", "binding", "rechecking", "deleting",
          "deleted", "referenced", "absent"}

(* A call fails, with or without its effect: the claim is released.        *)
Fail(c) ==
  /\ pc[c] \in InTry /\ faults < MaxFaults
  /\ faults' = faults + 1
  /\ Record(c, released(row[job[c].id]))

(* The process dies; its claim stays until it is stale.                    *)
Die(c) ==
  /\ pc[c] # "idle" /\ faults < MaxFaults
  /\ faults' = faults + 1
  /\ pc' = [pc EXCEPT ![c] = "idle"]
  /\ now' = [now EXCEPT ![c] = 0]
  /\ batch' = [batch EXCEPT ![c] = {}]
  /\ job' = [job EXCEPT ![c] = NoJob]
  /\ UNCHANGED <<row, stored, referenced, uploadVars, clock>>

-----------------------------------------------------------------------------
(* Time passes while a row waits for it, and not past the grace period of  *)
(* an upload that is prompt and still busy.                                *)
TimerRuns ==
  \E id \in Ids :
    /\ row[id].state = "open"
    /\ \/ row[id].createdAt + Grace > clock
       \/ row[id].claimedAt # NoTime /\ row[id].claimedAt + ClaimStale > clock
       \/ id[1] \in Locked /\ retentionUntil(id[1]) > clock

Busy(u) == up[u] \notin {"new", "over"} \/ put[u] = "flying"

(* A run is so slow that its claim grows stale in its hands: bounded like   *)
(* the other faults.                                                       *)
Stalls ==
  \E c \in Cleaners :
    pc[c] \in InTry /\ own(c) /\ job[c].at = clock + 1 - ClaimStale

Tick ==
  /\ TimerRuns /\ clock < MaxClock
  /\ \A u \in Prompt : Busy(u) => clock + 1 < row[Intent(u)].createdAt + Grace
  /\ IF Stalls THEN faults < MaxFaults /\ faults' = faults + 1
               ELSE UNCHANGED faults
  /\ clock' = clock + 1
  /\ UNCHANGED <<row, stored, referenced, uploadVars, pc, now, batch, job>>

Upload(u) ==
  \/ Send(u) \/ Answer(u) \/ NoAnswer(u) \/ LookUp(u)
  \/ Commit(u) \/ RollBack(u) \/ Release(u) \/ Compensate(u)

Clean(c) ==
  \/ StartRun(c) \/ ClaimNext(c) \/ EndRun(c) \/ CheckReference(c)
  \/ RecoverVersion(c) \/ Bind(c) \/ BindConflict(c) \/ Recheck(c) \/ Delete(c)
  \/ SettleReferenced(c) \/ SettleDeleted(c) \/ SettleAbsent(c)

Next ==
  \/ \E u \in Uploads :
       Journal(u) \/ Upload(u) \/ Land(u) \/ Drop(u) \/ Perish(u)
  \/ \E c \in Cleaners : Clean(c) \/ Fail(c) \/ Die(c)
  \/ Tick

(* The job is scheduled again and again; requests arrive or are lost.      *)
Fairness ==
  /\ \A u \in Uploads : WF_vars(Upload(u)) /\ WF_vars(Land(u) \/ Drop(u))
  /\ \A c \in Cleaners : WF_vars(Clean(c))
  /\ WF_vars(Tick)

Spec == Init /\ [][Next]_vars
LiveSpec == Spec /\ Fairness

-----------------------------------------------------------------------------
(* Properties *)

(* Every variable keeps its type; only an open row is claimed, and a run   *)
(* has a job in hand while it works on a row.                              *)
TypeOK ==
  /\ row \in [Ids -> RowType]
  /\ \A id \in Ids : row[id].claimedAt # NoTime => row[id].state = "open"
  /\ stored \in SUBSET Uploads /\ referenced \in SUBSET Uploads
  /\ up \in [Uploads -> {"new", "journaled", "putting", "looking", "stored",
                         "releasing", "compensating", "over"}]
  /\ put \in [Uploads -> {"none", "flying", "landed", "lost"}]
  /\ clock \in Nat
  /\ pc \in [Cleaners -> {"idle", "working"} \cup InTry]
  /\ now \in [Cleaners -> Nat]
  /\ batch \in [Cleaners -> SUBSET [id : Ids, bound : BOOLEAN]]
  /\ job \in [Cleaners -> Jobs \cup {NoJob}]
  /\ \A c \in Cleaners : pc[c] \in InTry <=> job[c] # NoJob
  /\ faults \in Nat

(* What a document refers to is there: neither does the job delete an      *)
(* object a document refers to, nor does a commit refer to one the job     *)
(* has deleted.                                                            *)
ReferencedIsStored == referenced \subseteq stored

(* No object is forgotten: one without a document has an open row in the   *)
(* journal, or the upload that stored it is still at work.                 *)
NothingForgotten ==
  \A u \in stored \ referenced :
    \/ up[u] # "over"
    \/ \E id \in {Intent(u), Orphan(u)} : row[id].state = "open"

(* A closed row says the truth: a document refers to the object, or there  *)
(* is none and never will be; absent is only what no version is known of,  *)
(* as the constraint storage_orphan_absent_intent_check has it.            *)
ClosedIsTrue ==
  \A id \in Ids :
    /\ row[id].state = "REFERENCED" => id[1] \in referenced
    /\ row[id].state \in {"DELETED", "ABSENT"} =>
         id[1] \notin stored \cup referenced /\ put[id[1]] # "flying"
    /\ row[id].state = "ABSENT" => ~ row[id].bound

(* The journal can be relied on: what lies in the store is in use or will   *)
(* be looked at, and what is closed need not be.                            *)
JournalIsTrue == NothingForgotten /\ ClosedIsTrue

(* Every row is closed in the end; since a closed row says the truth and   *)
(* no object is without an open one, what no document refers to goes.      *)
EveryRowCloses ==
  \A id \in Ids : row[id].state = "open" ~> row[id].state # "open"
=============================================================================
