------------------------------ MODULE PortalInbox ------------------------------
(***************************************************************************)
(* The attachments of one upload batch of the portal inbox, from the       *)
(* contact's upload to the staff's decision (apps/web/src/server/inbox)    *)
(* and to the clean-up of what is left (apps/worker/src/jobs/              *)
(* portal-inbox-cleanup.ts).  The bytes of an attachment lie under a       *)
(* staging key of their own; an accepted one is copied to the archive key  *)
(* of a document.  Every PUT is conditional (IfNoneMatch '*'), and a key   *)
(* is used once, so that an object is either stored or not.                *)
(*                                                                         *)
(* A transaction under the row lock of the batch or of the attachment is   *)
(* one step, but for the acceptance, which holds the lock of the           *)
(* attachment over the PUT to the archive.  Of storage_orphan the module   *)
(* has the rows of these keys; StorageJournal models its worker in full.   *)
(***************************************************************************)
EXTENDS Naturals, FiniteSets

CONSTANTS Attachments,  \* files of the batch; its limit is their number
          Uploads,      \* requests of the contact that upload, at a time
          Staff,        \* requests of staff that accept, at a time
          MaxFaults     \* bound of timeouts, failed statements and deaths

ASSUME BoundAssumption == MaxFaults \in Nat

VARIABLES
  batch,           \* status of the portal_inbox_upload_batch
  due,             \* its 24 hours are over
  row,             \* portal_inbox_attachment
  document,        \* the document an attachment's acceptance has made
  staged,          \* staging keys with an object
  archive,         \* archive keys with an object
  journal,         \* storage_orphan of the staging keys ...
  archiveJournal,  \* ... and of the archive keys
  late,            \* staging keys with a PUT under way that nobody waits for ...
  lateArchive,     \* ... and archive keys
  upload,
  staff,
  discarding,      \* attachments the request that discards has yet to journal
  worker,          \* the run of the clean-up
  faults

keys == <<staged, archive, journal, archiveJournal, late, lateArchive>>
vars == <<batch, due, row, document, keys, upload, staff, discarding, worker, faults>>

NoRow == [scan |-> "none", bound |-> FALSE, decision |-> "PENDING_REVIEW",
          old |-> FALSE]

Idle == [pc |-> "idle", a |-> {}, fresh |-> FALSE]

(* todo: the candidates still to be worked on; pending: those that were      *)
(* PENDING when they were read; missing: the one found without an object    *)
Resting == [todo |-> {}, pending |-> {}, missing |-> {}]

Init ==
  /\ batch = "OPEN" /\ due = FALSE
  /\ row = [a \in Attachments |-> NoRow]
  /\ document = [a \in Attachments |-> "none"]
  /\ staged = {} /\ archive = {}
  /\ journal = [a \in Attachments |-> "none"]
  /\ archiveJournal = [a \in Attachments |-> "none"]
  /\ late = {} /\ lateArchive = {}
  /\ upload = [u \in Uploads |-> Idle]
  /\ staff = [s \in Staff |-> Idle]
  /\ discarding = {}
  /\ worker = Resting
  /\ faults = 0

Fault == faults < MaxFaults /\ faults' = faults + 1

-----------------------------------------------------------------------------
\* Variants of definitions, each with a bug that code could have, stand before
\* them, are named after them and take no part in the specification.

Usable == batch = "OPEN" /\ ~ due

Pending(a) == row[a].scan = "PENDING"

Undecided(a) == row[a].scan = "CLEAN" /\ row[a].decision = "PENDING_REVIEW"

(* compensateStorageCommit: journals the key, or opens its entry again       *)
Journaled(a) == journal' = [journal EXCEPT ![a] = "open"]

-----------------------------------------------------------------------------
\* The upload: journalNewIntent or loadResumeIntent, then recover, PUT, finalize.

Begins(u, a) ==
  /\ upload[u].pc = "idle" /\ Usable
  /\ upload' = [upload EXCEPT ![u] = [Idle EXCEPT !.pc = "recover", !.a = {a}]]
  /\ UNCHANGED <<batch, due, document, keys, staff, discarding, worker, faults>>

UploadNew(u, a) ==
  /\ row[a].scan = "none"
  /\ Begins(u, a)
  /\ row' = [row EXCEPT ![a].scan = "PENDING"]

UploadResume(u, a) == Pending(a) /\ Begins(u, a) /\ UNCHANGED row

UploadGoes(u, a, pc) ==
  /\ upload[u].a = {a}
  /\ upload' = [upload EXCEPT ![u] = IF pc = "idle" THEN Idle ELSE [@ EXCEPT !.pc = pc]]
  /\ UNCHANGED <<batch, due, document, archive, archiveJournal, lateArchive,
                 staff, discarding, worker>>

(* recoverPreparedBytesCommit                                               *)
Recover(u, a) ==
  /\ upload[u].pc = "recover"
  /\ UploadGoes(u, a, IF a \in staged THEN "finalize" ELSE "put")
  /\ UNCHANGED <<row, staged, journal, late, faults>>

(* commitPreparedBytes: a refused or repeated PUT recovers what is there     *)
Put(u, a) ==
  /\ upload[u].pc = "put"
  /\ staged' = staged \union {a}
  /\ UploadGoes(u, a, "finalize")
  /\ UNCHANGED <<row, journal, late, faults>>

(* The PUT times out, and nothing is there yet                               *)
PutTimesOut(u, a) ==
  /\ upload[u].pc = "put" /\ a \notin staged
  /\ late' = late \union {a}
  /\ UploadGoes(u, a, "idle") /\ Fault
  /\ UNCHANGED <<row, staged, journal>>

Finalizable(a) == Usable /\ Pending(a) /\ row[a].decision = "PENDING_REVIEW"

AlreadyCleanIfUsable(a) == Undecided(a) /\ Usable
AlreadyClean(a) == Undecided(a)

(* finalizeIntent                                                            *)
FinalizeUpload(u, a) ==
  /\ upload[u].pc = "finalize"
  /\ row' = IF Finalizable(a) THEN [row EXCEPT ![a].scan = "CLEAN"] ELSE row
  /\ UploadGoes(u, a, IF Finalizable(a) \/ AlreadyClean(a) THEN "idle" ELSE "compensate")
  /\ UNCHANGED <<staged, journal, late, faults>>

FinalizeFails(u, a) ==
  /\ upload[u].pc = "finalize"
  /\ UploadGoes(u, a, "idle") /\ Fault
  /\ UNCHANGED <<row, staged, journal, late>>

CompensateUpload(u, a) ==
  /\ upload[u].pc = "compensate"
  /\ Journaled(a)
  /\ UploadGoes(u, a, "idle")
  /\ UNCHANGED <<row, staged, late, faults>>

(* The web process dies, or the journal fails as well (LOG_ONLY)             *)
UploadDies(u, a) ==
  /\ upload[u].pc # "idle"
  /\ \/ /\ upload[u].pc = "put" /\ a \notin staged
        /\ late' = late \union {a}
     \/ UNCHANGED late
  /\ UploadGoes(u, a, "idle") /\ Fault
  /\ UNCHANGED <<row, staged, journal>>

-----------------------------------------------------------------------------
\* The contact submits or discards the batch.

Rows == {a \in Attachments : row[a].scan \in {"PENDING", "CLEAN"}}

Submittable == Rows # {} /\ \A a \in Rows : Undecided(a)

(* createPortalInboxThreadTx, createPortalInboxMessageTx with a batch        *)
Submit ==
  /\ Usable /\ Submittable
  /\ row' = [a \in Attachments |->
               IF a \in Rows /\ Undecided(a) THEN [row[a] EXCEPT !.bound = TRUE] ELSE row[a]]
  /\ batch' = "CONSUMED"
  /\ UNCHANGED <<due, document, keys, upload, staff, discarding, worker, faults>>

DiscardableAlways == batch = "OPEN"
Discardable == batch = "OPEN" /\ ~ \E a \in Rows : Pending(a)

(* discardPortalInboxUploadBatchTx                                           *)
Discard ==
  /\ Discardable
  /\ batch' = "DISCARDED"
  /\ discarding' = Rows
  /\ UNCHANGED <<due, row, document, keys, upload, staff, worker, faults>>

(* discardInboxUploadBatchAction, after the transaction                      *)
DiscardJournals(a) ==
  /\ a \in discarding
  /\ Journaled(a)
  /\ discarding' = discarding \ {a}
  /\ UNCHANGED <<batch, due, row, document, staged, archive, archiveJournal, late, lateArchive,
                 upload, staff, worker, faults>>

DiscardDies ==
  /\ discarding # {} /\ discarding' = {} /\ Fault
  /\ UNCHANGED <<batch, due, row, document, keys, upload, staff, worker>>

-----------------------------------------------------------------------------
\* The staff accept: load, read the bytes, reserve a document, store under the
\* attachment's lock, decide; an acceptance broken off is resumed.

Open(a) == row[a].bound /\ Undecided(a)

Locked(a) == \E s \in Staff : staff[s].a = {a} /\ staff[s].pc \in {"storing", "deciding"}

StaffGoes(s, a, pc) ==
  /\ staff[s].a = {a}
  /\ staff' = [staff EXCEPT ![s] = IF pc = "idle" THEN Idle ELSE [@ EXCEPT !.pc = pc]]
  /\ UNCHANGED <<batch, due, staged, archiveJournal, late, upload, discarding, worker>>

(* loadAcceptanceSource                                                      *)
AcceptLoads(s, a) ==
  /\ staff[s].pc = "idle" /\ Open(a) /\ ~ Locked(a)
  /\ staff' = [staff EXCEPT ![s] = [pc |-> IF document[a] = "none" THEN "reading" ELSE "resuming",
                                    a |-> {a}, fresh |-> document[a] = "none"]]
  /\ UNCHANGED <<batch, due, row, document, keys, upload, discarding, worker, faults>>

(* readStagedAttachmentBytes; without the bytes the acceptance ends          *)
AcceptReads(s, a) ==
  /\ staff[s].pc = "reading"
  /\ StaffGoes(s, a, IF a \in staged THEN "reserving" ELSE "idle")
  /\ UNCHANGED <<row, document, archive, journal, lateArchive, faults>>

(* guardMutationTx; active is the document this acceptance knows of          *)
Guard(a, active) == Open(a) /\ document[a] = active

(* createPendingDocumentWithVersion and recordPendingTx, one transaction     *)
AcceptReserves(s, a) ==
  /\ staff[s].pc = "reserving" /\ ~ Locked(a)
  /\ StaffGoes(s, a, IF Guard(a, "none") THEN "ready" ELSE "idle")
  /\ document' = IF Guard(a, "none") THEN [document EXCEPT ![a] = "reserved"] ELSE document
  /\ UNCHANGED <<row, archive, journal, lateArchive, faults>>

(* loadResumableUpload                                                       *)
AcceptResumes(s, a) ==
  /\ staff[s].pc = "resuming" /\ ~ Locked(a)
  /\ StaffGoes(s, a, IF Guard(a, "reserved") THEN "ready" ELSE "idle")
  /\ UNCHANGED <<row, document, archive, journal, lateArchive, faults>>

(* commitAndFinalize: takes the lock of the attachment and checks again      *)
AcceptLocks(s, a) ==
  /\ staff[s].pc = "ready" /\ ~ Locked(a)
  /\ StaffGoes(s, a, IF Guard(a, "reserved") THEN "storing" ELSE "idle")
  /\ UNCHANGED <<row, document, archive, journal, lateArchive, faults>>

(* recoverOrCommit: a resumed acceptance without an object reads them again  *)
HasBytes(s, a) == staff[s].fresh \/ a \in archive \/ a \in staged

AcceptStores(s, a) ==
  /\ staff[s].pc = "storing"
  /\ archive' = IF HasBytes(s, a) THEN archive \union {a} ELSE archive
  /\ StaffGoes(s, a, IF HasBytes(s, a) THEN "deciding" ELSE "idle")
  /\ UNCHANGED <<row, document, journal, lateArchive, faults>>

(* The PUT, or the 15 s of the transaction, time out: the transaction is     *)
(* rolled back and its lock released while the PUT is still under way        *)
AcceptTimesOut(s, a) ==
  /\ staff[s].pc = "storing" /\ a \notin archive
  /\ lateArchive' = lateArchive \union {a}
  /\ StaffGoes(s, a, "idle") /\ Fault
  /\ UNCHANGED <<row, document, archive, journal>>

(* finalizePendingDocumentVersion and recordCompleteTx                       *)
AcceptDecides(s, a) ==
  /\ staff[s].pc = "deciding"
  /\ document' = [document EXCEPT ![a] = "shared"]
  /\ row' = [row EXCEPT ![a].decision = "ACCEPTED"]
  /\ StaffGoes(s, a, "compensating")
  /\ UNCHANGED <<archive, journal, lateArchive, faults>>

(* acceptInboxAttachmentAction, after the transaction                        *)
AcceptCompensates(s, a) ==
  /\ staff[s].pc = "compensating"
  /\ Journaled(a)
  /\ StaffGoes(s, a, "idle")
  /\ UNCHANGED <<row, document, archive, lateArchive, faults>>

(* The process dies or a statement fails; a transaction goes with its lock   *)
AcceptDies(s, a) ==
  /\ staff[s].pc # "idle"
  /\ StaffGoes(s, a, "idle") /\ Fault
  /\ UNCHANGED <<row, document, archive, journal, lateArchive>>

ReservationJournaledNot(a) == archiveJournal
ReservationJournaled(a) ==
  IF document[a] = "reserved" THEN [archiveJournal EXCEPT ![a] = "open"] ELSE archiveJournal

(* rejectInboxAttachmentTx, app.reject_pending_portal_inbox_attachment       *)
Reject(a) ==
  /\ Open(a) /\ ~ Locked(a)
  /\ row' = [row EXCEPT ![a].decision = "REJECTED"]
  /\ archiveJournal' = ReservationJournaled(a)
  /\ document' = [document EXCEPT ![a] = "none"]
  /\ UNCHANGED <<batch, due, staged, archive, journal, late, lateArchive,
                 upload, staff, discarding, worker, faults>>

-----------------------------------------------------------------------------
\* The clean-up: runPortalInboxCleanup, one tenant.

(* loadTenantCandidates: what may go, for each reason                        *)
DraftLeft(a, status) ==
  /\ Pending(a) \/ Undecided(a)
  /\ ~ row[a].bound /\ row[a].old /\ status \in {"DISCARDED", "EXPIRED"}

QuarantineOver(a) == row[a].decision = "REJECTED" /\ row[a].old

Replaced(a) == row[a].decision = "ACCEPTED"

CandidateDraft(a, status) == DraftLeft(a, status) \/ QuarantineOver(a)
Candidate(a, status) == DraftLeft(a, status) \/ QuarantineOver(a) \/ Replaced(a)

CleanupStarts ==
  /\ worker = Resting
  /\ batch' = IF batch = "OPEN" /\ due THEN "EXPIRED" ELSE batch
  /\ LET todo == {a \in Attachments : Candidate(a, batch') /\ journal[a] = "none"}
     IN worker' = [Resting EXCEPT !.todo = todo, !.pending = {a \in todo : Pending(a)}]
  /\ UNCHANGED <<due, row, document, keys, upload, staff, discarding, faults>>

Done(a) == [todo |-> worker.todo \ {a}, pending |-> worker.pending \ {a}, missing |-> {}]

(* journalCandidate: an entry that is there stays as it is                   *)
CleanupJournals(a) ==
  /\ a \in worker.todo /\ worker.missing = {}
  /\ a \in worker.pending => a \in staged
  /\ journal' = [journal EXCEPT ![a] = IF @ = "none" THEN "open" ELSE @]
  /\ worker' = Done(a)
  /\ UNCHANGED <<batch, due, row, document, staged, archive, archiveJournal, late, lateArchive,
                 upload, staff, discarding, faults>>

(* recoverPendingIntent finds no object                                      *)
CleanupMisses(a) ==
  /\ a \in worker.todo \intersect worker.pending /\ worker.missing = {}
  /\ a \notin staged
  /\ worker' = [worker EXCEPT !.missing = {a}]
  /\ UNCHANGED <<batch, due, row, document, keys, upload, staff, discarding, faults>>

Removable(a) == Pending(a) /\ row[a].old /\ batch \in {"DISCARDED", "EXPIRED"}

(* removeMissingIntent                                                       *)
CleanupRemoves(a) ==
  /\ worker.missing = {a}
  /\ row' = IF Removable(a) THEN [row EXCEPT ![a].scan = "removed"] ELSE row
  /\ worker' = Done(a)
  /\ UNCHANGED <<batch, due, document, keys, upload, staff, discarding, faults>>

(* One candidate fails and is passed over                                    *)
CleanupFails(a) ==
  /\ a \in worker.todo /\ worker' = Done(a) /\ Fault
  /\ UNCHANGED <<batch, due, row, document, keys, upload, staff, discarding>>

CleanupDies ==
  /\ worker # Resting /\ worker' = Resting /\ Fault
  /\ UNCHANGED <<batch, due, row, document, keys, upload, staff, discarding>>

-----------------------------------------------------------------------------
\* The store, its journal's worker, and time.

(* RECONCILIATION_GRACE_MS: a PUT begun before the entry was made is over    *)
(* when the worker of the journal looks at it 30 minutes later              *)
PutOver(a) == a \notin late /\ ~ \E u \in Uploads : upload[u].a = {a} /\ upload[u].pc \in {"recover", "put"}

ArchivePutOver(a) == a \notin lateArchive /\ ~ Locked(a)

(* processCandidate: no document refers to a staging key                     *)
DeleteStaged(a) ==
  /\ journal[a] = "open" /\ PutOver(a)
  /\ staged' = staged \ {a} /\ journal' = [journal EXCEPT ![a] = "closed"]
  /\ UNCHANGED <<batch, due, row, document, archive, archiveJournal, late, lateArchive,
                 upload, staff, discarding, worker, faults>>

(* An entry without a version waits for an object and a missing reference    *)
DeleteArchived(a) ==
  /\ archiveJournal[a] = "open" /\ ArchivePutOver(a)
  /\ a \in archive /\ document[a] = "none"
  /\ archive' = archive \ {a} /\ archiveJournal' = [archiveJournal EXCEPT ![a] = "closed"]
  /\ UNCHANGED <<batch, due, row, document, staged, journal, late, lateArchive,
                 upload, staff, discarding, worker, faults>>

LatePut(a) ==
  /\ a \in late /\ late' = late \ {a}
  /\ staged' \in {staged, staged \union {a}}
  /\ UNCHANGED <<batch, due, row, document, archive, journal, archiveJournal, lateArchive,
                 upload, staff, discarding, worker, faults>>

LateArchivePut(a) ==
  /\ a \in lateArchive /\ lateArchive' = lateArchive \ {a}
  /\ archive' \in {archive, archive \union {a}}
  /\ UNCHANGED <<batch, due, row, document, staged, journal, archiveJournal, late,
                 upload, staff, discarding, worker, faults>>

(* expires_at and the 24 hours of the batch, of no account once consumed     *)
BatchDue ==
  /\ ~ due /\ batch # "CONSUMED" /\ due' = TRUE
  /\ UNCHANGED <<batch, row, document, keys, upload, staff, discarding, worker, faults>>

(* The 24 hours of an attachment that no message has, which end after those  *)
(* of its batch, or the seven days of a rejected one                         *)
Ages(a) ==
  /\ a \in Rows /\ ~ row[a].old
  /\ due \/ row[a].decision = "REJECTED"
  /\ row' = [row EXCEPT ![a].old = TRUE]
  /\ UNCHANGED <<batch, due, document, keys, upload, staff, discarding, worker, faults>>

-----------------------------------------------------------------------------
UploadStep(u) ==
  \E a \in Attachments : Recover(u, a) \/ Put(u, a) \/ FinalizeUpload(u, a) \/ CompensateUpload(u, a)

StaffStep(s) ==
  \E a \in Attachments :
    \/ AcceptReads(s, a) \/ AcceptReserves(s, a) \/ AcceptResumes(s, a) \/ AcceptLocks(s, a)
    \/ AcceptStores(s, a) \/ AcceptDecides(s, a) \/ AcceptCompensates(s, a)

CleanupStep ==
  \E a \in Attachments : CleanupJournals(a) \/ CleanupMisses(a) \/ CleanupRemoves(a)

Requests ==
  \/ \E u \in Uploads, a \in Attachments : UploadNew(u, a) \/ UploadResume(u, a)
  \/ \E s \in Staff, a \in Attachments : AcceptLoads(s, a)
  \/ \E a \in Attachments : Reject(a)
  \/ Submit \/ Discard

Faults ==
  \/ \E u \in Uploads, a \in Attachments :
       PutTimesOut(u, a) \/ FinalizeFails(u, a) \/ UploadDies(u, a)
  \/ \E s \in Staff, a \in Attachments : AcceptTimesOut(s, a) \/ AcceptDies(s, a)
  \/ \E a \in Attachments : CleanupFails(a)
  \/ DiscardDies \/ CleanupDies

Next ==
  \/ Requests \/ Faults
  \/ \E u \in Uploads : UploadStep(u)
  \/ \E s \in Staff : StaffStep(s)
  \/ CleanupStarts \/ CleanupStep
  \/ BatchDue
  \/ \E a \in Attachments :
       \/ DiscardJournals(a) \/ DeleteStaged(a) \/ DeleteArchived(a)
       \/ LatePut(a) \/ LateArchivePut(a) \/ Ages(a)

Spec == Init /\ [][Next]_vars

(* Requests that run go on, the jobs run again and again, time passes.       *)
Fairness ==
  /\ \A u \in Uploads : WF_vars(UploadStep(u))
  /\ \A s \in Staff : WF_vars(StaffStep(s))
  /\ WF_vars(CleanupStarts) /\ WF_vars(CleanupStep)
  /\ WF_vars(BatchDue)
  /\ \A a \in Attachments :
       /\ WF_vars(DiscardJournals(a)) /\ WF_vars(DeleteStaged(a)) /\ WF_vars(DeleteArchived(a))
       /\ WF_vars(LatePut(a)) /\ WF_vars(LateArchivePut(a)) /\ WF_vars(Ages(a))

FairSpec == Spec /\ Fairness

-----------------------------------------------------------------------------
(* Type invariant: an attachment is bound only when its bytes are clean, and *)
(* a discarded batch has none whose upload is not over.                      *)
TypeOK ==
  /\ batch \in {"OPEN", "CONSUMED", "DISCARDED", "EXPIRED"} /\ due \in BOOLEAN
  /\ \A a \in Attachments :
       /\ row[a] \in [scan : {"none", "PENDING", "CLEAN", "removed"}, bound : BOOLEAN,
                      decision : {"PENDING_REVIEW", "ACCEPTED", "REJECTED"},
                      old : BOOLEAN]
       /\ row[a].bound => row[a].scan = "CLEAN" /\ batch = "CONSUMED"
       /\ row[a].decision # "PENDING_REVIEW" => row[a].bound
  /\ document \in [Attachments -> {"none", "reserved", "shared"}]
  /\ \A S \in {staged, archive, late, lateArchive, worker.todo} : S \subseteq Attachments
  /\ journal \in [Attachments -> {"none", "open", "closed"}]
  /\ archiveJournal \in [Attachments -> {"none", "open", "closed"}]
  /\ \A a \in discarding : row[a].scan = "CLEAN" /\ batch = "DISCARDED"
  /\ \A a \in Attachments :
       Cardinality({s \in Staff : staff[s].a = {a} /\ staff[s].pc \in {"storing", "deciding"}}) <= 1
  /\ faults \in 0 .. MaxFaults

(* What may still be reviewed is there: a submitted batch consists of clean  *)
(* attachments bound to its message, and until the staff have decided, the   *)
(* bytes are stored and no journal entry lets them be deleted (finalizeIntent *)
(* of parallel uploads, and the clean-up, staging-upload.ts and              *)
(* portal-inbox-cleanup.ts).                                                 *)
ReviewableIsKept ==
  /\ batch = "CONSUMED" => \A a \in Attachments : row[a].scan # "none" => row[a].bound
  /\ \A a \in Attachments :
       Undecided(a) /\ batch \in {"OPEN", "CONSUMED"} => a \in staged /\ journal[a] = "none"

(* A decision and what it stands for agree, whatever was broken off on the   *)
(* way: an accepted attachment has its shared, stored document and no other  *)
(* one has; and an object in the archive belongs to a document or is open in *)
(* the journal (accept-attachment.ts and the rejection of a reservation).    *)
DecisionsHold ==
  \A a \in Attachments :
    /\ row[a].decision = "ACCEPTED" <=> document[a] = "shared"
    /\ document[a] = "shared" => a \in archive /\ archiveJournal[a] = "none"
    /\ document[a] = "reserved" => Open(a)
    /\ a \in archive => document[a] # "none" \/ archiveJournal[a] = "open"

(* Nobody needs these staged bytes any more.                                 *)
LeftOver(a) ==
  /\ a \in staged
  /\ row[a].decision # "PENDING_REVIEW" \/ (due /\ batch # "CONSUMED")

(* Bytes without a row and without an entry in the journal, whose request is *)
(* over: removeMissingIntent acts on an earlier look at the store.           *)
Forgotten(a) ==
  /\ row[a].scan = "removed" /\ journal[a] = "none"
  /\ ~ \E u \in Uploads : upload[u].a = {a}

(* Staged bytes go, once they are accepted, rejected, discarded or expired,  *)
(* though any of the requests and jobs that should see to it may die; all    *)
(* that can be left is what a failed upload stored after its row was removed *)
(* for want of bytes (portal-inbox-cleanup.ts).                              *)
StagingGoes ==
  \A a \in Attachments : LeftOver(a) ~> (a \notin staged \/ (Forgotten(a) /\ faults > 0))
=============================================================================
