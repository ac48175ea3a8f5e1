# Verification project for KanzleiKonsole (TaxTronik)

TLA+ models of the parts of KanzleiKonsole in which the order of events decides
whether the system is right, model-checked with TLC, and theorems about them
checked with TLAPS. All definitions are translated from the source; paths below
are relative to the repository.

## 1. The system

KanzleiKonsole is an on-premises practice system for German tax advisers: a Next.js
application (`apps/web`) with a staff area and a client portal, a BullMQ worker
(`apps/worker`) that runs some forty scheduled jobs, and libraries (`packages/*`).
State lives in PostgreSQL with row level security (`packages/db`); Redis holds
BullMQ's queues; documents lie in an S3 store with object lock; outside are an SMTP
provider, a time stamp authority, n8n and, optionally, the Tax-CMS.

Web and worker share nothing but the database and the queues. The pattern is
always the same: a business transaction commits an order, a job picks it up,
claims it with a compare-and-swap, calls the outside world *outside* any
transaction, and writes the result with another compare-and-swap. What is hard is
what happens between these steps.

| Component | State | Operations | Hard behaviour | What makes it correct |
|---|---|---|---|---|
| **Mail outbox** (`jobs/mail-outbox*.ts`, `server/mail/resend.ts`, `packages/mail/src/outbox.ts`, SQL functions) | table `mail_outbox` | enqueue, escalate, clear content, claim, skip, send, store result, resend, purge | two runs of the job, crash around the SMTP call, late answers, resend during a hanging attempt | no unconfirmed second mail; a status says only what is known; everything ends or reaches the staff; content goes |
| **Mail dispatch** (`packages/mail/src/dispatch.ts`, `outbox-relevance.ts`) | none | send to one or all contacts; is the mail still wanted? | inconclusive answers, exceptions after acceptance | three-valued result |
| **Storage upload journal** (`server/documents/storage-intent.ts`, `journaled-upload.ts`, `jobs/storage-orphan-cleanup.ts`) | `storage_orphan`, objects, `document_version` | journal, put, commit and settle, release, reconcile, delete | crash between put and commit, cleanup racing a late commit | a referenced object is never deleted; an unreferenced one goes |
| **External anchor of the audit chain** (`packages/evidence/src/anchor*.ts`, `service.ts`, `jobs/audit-anchor.ts`) | `audit_anchor`, `audit_anchor_lease`, status in `tenant_setting` | find due tenants, claim, ask the time stamp authority, insert, settle, release | lease takeover during the request, stale predecessor, statuses out of order | one chain without branch or gap; a truthful status |
| **Audit chain verification** (`packages/evidence/src/verify-checkpoint.ts`, `jobs/audit-verify-check.ts`) | `audit_verify_checkpoint`: rows INCREMENTAL, FULL, FULL_TARGET | walk segments, store progress, conflict, full verification, discard | runs that overlap, death between segments, a chain that grows meanwhile | an altered row is found; an intact chain raises no alarm |
| **TCMS messages** (`jobs/tcms-nachrichten.ts`, `tcms/systemakteur.ts`) | `tcms_nachricht_zustellung`, `tcms_systemakteur` | fetch, verify the recipient, plan, take over the order's end, report, tidy up | lost answers, redelivery, two runs | one order per message, one unchanging true report |
| **TCMS portal reports** (`server/tcms/portal/meldevorgang.ts`, `meldung.ts`) | `tcms_portal_report`, `tcms_document_reference` | begin, store files, send, repeat, conclude, clear up, assign, release, delete | lost answers, lost leases, double submission, the staff at the same time | one event per report; no document of an event released; content goes |
| **n8n delivery** (`jobs/n8n-deliver.ts`, `packages/n8n-shared`, `server/n8n-settings/deliveries.ts`) | `n8n_outbox`, `n8n_delivery`, BullMQ jobs | plan, claim with lease, deliver, retry, reconcile, administrators' decisions | stalled job and rerun, job lost by the queue, two conclusions at once | every delivery ends; the aggregate adds up |
| **Portal inbox** (`server/inbox/*`, `documents/resumable-upload.ts`, `jobs/portal-inbox-cleanup.ts`, triggers) | upload batches, attachments, staged objects | upload, resume, submit, discard, accept, reject, clean up | parallel uploads, an acceptance broken off against a rejection, clean-up against uploads | what may be reviewed is there; decision, document and object agree; staged bytes go |
| Mail delivery status (`lib/mail-delivery-status.ts`) | none | several orders to one status line | rule order | the worst state wins |
| Evidence seal (`jobs/evidence-seal.ts`) | `audit_seal` | seal every missed day | two runs on one day | unique key, insert without effect |
| Tax deadline notification (`jobs/tax-deadline-notification.ts`) | notification columns of `tax_deadline` | claim, send, escalate | as for the mail outbox | as for the mail outbox |
| GwG object lock (`jobs/gwg-object-lock-extend.ts`) | retention dates in row and store | extend | store and row disagree after a crash | a lock never shortens |
| Risk LOS, invoicing archive, workflows, payroll | one aggregate each | draw, archive, reconcile, revise | double submission | once per period; revisions in order |
| Login, FIDO metadata, backup, exports, reminders, PoA, screening, RSS, ELSTER, tax calculation, UI | little or none | | | reached by the repository's tests |
| **Worker infrastructure** (`worker-factory.ts`, `run-budget.ts`, `job-queues.ts`) | BullMQ | schedule, retry, stall, rerun | a stalled job is run again while its first run lives | appears as racing runs and as fairness |

Components in bold are modelled, wholly or in part. The components meet at few
places. A TCMS message to a contact becomes an order of the mail outbox, which
`TcmsNachrichten` sees as an environment that ends every order (`MailOutbox` shows
that it does, and that a TCMS order is never resent). The job of the TCMS messages
also deletes old portal reports; that statement is in `Meldevorgang`. Attachments of
a report go through the upload journal, and so does what the portal inbox leaves over;
`PortalInbox` has the rows of its own keys and takes from `StorageJournal` that an open
entry is worked off. Anchors and seals are what a verification
finds added to the chain.

`PROJECT.json` lists every component with what is modelled of it, and the hazards
with their source lines and the properties aimed at them.

## 2. Modules

| Module | What it is |
|---|---|
| `MailOutbox` | the mail outbox as it is coded: rows, runs of the job, staff, purge; its properties |
| `MailDelivery` | what the outbox promises, without rows, clocks or runs |
| `MailOutboxRefinement` | the mapping under which `MailOutbox` implements `MailDelivery` |
| `MailOutboxInvariant` | the inductive invariants `DeliveryInv` and `TableInv` |
| `MailOutboxProofs` | type correctness, the table's checks, one notification per round, the safety of delivery, the refinement |
| `StorageJournal` | uploads, the object store and the cleanup job over one journal; its properties |
| `StorageJournalProofs` | type correctness, that nothing referenced is deleted, and that closed rows are true |
| `AuditAnchor` | the runs of the anchor job on one tenant: lease, request, insert, status |
| `AnchorChain` | what the anchors promise: a log that grows, and a chain over it without branch or gap |
| `AuditAnchorInvariant`, `AuditAnchorProofs` | the inductive invariant `AnchorInv`; the refinement, the status, the lease |
| `VerifyCheckpoint` | the runs of the verification over stored checkpoints and a growing chain |
| `VerifyCheckpointInvariant`, `VerifyCheckpointProofs` | the inductive invariants `VerifyInv`, `PairInv` and `FineInv`; what a stored cursor says is so, and which checks can be wrong |
| `TcmsNachrichten` | the delivery of the Tax-CMS's messages for one tenant |
| `TcmsNachrichtenInvariant`, `TcmsNachrichtenProofs` | the inductive invariant `ZustellungInv`; one order and one true report per message |
| `Meldevorgang` | the reports of events from the portal under one form's key |
| `MeldevorgangInvariant`, `MeldevorgangProofs` | the inductive invariants `MeldeInv` and `SentInv`; events and locks |
| `N8nDelivery` | the deliveries of one event to n8n |
| `N8nDeliveryInvariant`, `N8nDeliveryProofs` | the inductive invariants `DeliveryInv`, `DecisionInv` and `HoldInv`; the aggregate, what is final, the one caller |
| `PortalInbox` | the attachments of one upload batch, from the contact's upload to the staff's decision and the clean-up |
| `PortalInboxInvariant`, `PortalInboxProofs` | the inductive invariant `InboxInv`; what is kept, what was decided |
| `MC...`, `*.cfg` | instances for TLC |

Each family stands alone. Definitions whose name adds words to the one they precede
(`dueAnytime` before `due`, `OffenMitLease` before `Offen`) are variants with a likely
bug and are used nowhere: they stand there so that each property can be tried on code
that breaks it.

### MailOutbox and the code

One step is one database transaction or one external call, since between two of
them anything may happen and within one nothing does (every update of the job
is a compare-and-swap in a tenant transaction).

| Model | Code |
|---|---|
| `row[o]` | a row of `mail_outbox`: status, attempt count, the four dates, the recipient counts; `content` stands for payload, attachments and encrypted variables, which are always written and cleared together |
| `Enqueue` | `enqueueDirectMailTx`, `enqueueClientContactsMailTx` in the commit of the business process |
| `Turn`, `Anonymize` | what the relevance check reads: the process is still wanted, the client not anonymised |
| `Resend` | `resendMailOutboxTx` and `app.mail_outbox_resend`: all rows of a status line or none, the first row's relevance, the confirmation for UNKNOWN |
| `Purge` | `app.mail_outbox_purge_terminal`, any part of the due rows since locked rows are skipped |
| `StartRun`, `EscalateOne`, `ClearExpired`, `FetchCandidates` | `processMailOutbox` up to its loop |
| `Claim`, `Skip`, `Lose` | the outcomes of `claimOrSkip` |
| `Address`, `SendNext` | recipients resolved, then one SMTP hand-over at a time; the provider takes the mail or not, and independently the worker learns which, or nothing |
| `Persist...` | `persistTerminal` and `persistDefiniteFailure` in each of their uses |
| `Crash` | the process dies, or a transaction fails and the job throws |
| `Tick` | time |
| `now[w]`, `stranded[w]`, `batch[w]`, `claim[w]`, `tally[w]` | locals of a run, as stale as in the code |
| `cycle`, `confirmed`, `handed`, `notices` | observers: rounds of an order, the staff's confirmations, what the provider took in which attempt, notifications written |

What is abstracted:

- A *worker* is one run of the job. Two workers are two processes or a stalled
  BullMQ job and its rerun. The loop over up to eight full batches is further runs.
- Rows of one batch are processed in any order (a superset of the code's).
- `attemptAt` is read when the claim commits; the code reads it just before that
  transaction. One clock stands for those of the database and the processes.
- The relevance check and the claim are one transaction; a process that turns while
  it runs is a process that turns right after it.
- The check's many rules are one flag per process, plus a date for orders that
  expire (TCMS codes, GwG invitations, appointments).
- An explicit SMTP rejection (4xx, 5xx) and an unreadable SMTP configuration mean
  that the provider did not take *this* mail; an inconclusive answer leaves both
  possibilities open. This is what `failedTemplateMailResult` takes for
  granted, and it cannot be checked from here.
- An exception between or after the sends is `PersistThrown`; a transaction of the
  run that fails is `Crash`, since the job throws and what it held is lost.
- The page shows the latest batch of a status line, so rows resent together belong
  to one process and one confirmation covers them.
- `acceptedAt`, `lastError` and the tenant are left out: no guard reads the first
  two, and every query carries the third.
- Time passes only while some row still waits for a date (`TimerRuns`); otherwise
  its passage changes no comparison, and the clock stays finite without a bound.

### StorageJournal and the code

| Model | Code |
|---|---|
| `row[<<u, "intent">>]` | the row of `storage_orphan` journalled before the PUT: `cleaned_at` and `resolution` are `state`, `storage_version_id <> ''` is `bound` |
| `row[<<u, "orphan">>]` | the row `compensateStorageCommit` adds when that intent is closed under no version |
| `stored`, `put[u]` | the object under the key of upload `u`, and its PUT: under way, landed or lost, whoever still waits for it |
| `referenced` | keys some `document_version` or risk analysis refers to |
| `Journal` ... `Compensate` | `runJournaledUpload` step by step: `journalStorageIntents`, `commitPreparedBytes` and its lookup after a failed PUT, the business commit with `app.settle_storage_intent`, `releaseStorageIntent`, `compensateStorageCommit` |
| `RollBack` | the business transaction fails, or the process did not take the object (`referenced()` is false) |
| `Perish` | the web process dies, or a call without a way back fails (the journal unreachable during the release) |
| `StartRun`, `ClaimNext`, `EndRun` | `findDueCandidates`, the claim in `processCandidate`, the end of the run |
| `CheckReference` ... `SettleAbsent` | `settleClaimedCandidate`: each query, call and update is a step |
| `BindConflict`, `Record` | an update that misses its own claim throws or does nothing; either way only the run's own claim is released |
| `Fail` | any call in the `try` fails, before or after its effect; the `catch` releases the claim |
| `Die` | the process dies, the `catch` itself fails, or the time budget ends the run |

What is abstracted:

- One intent per upload. The invoice archive journals PDF and XML in one transaction;
  each then goes its own way.
- Rows closed as `INTEGRITY_INCIDENT` (key or reference of another tenant), failure
  notes, and the number of attempts, which only orders the queue.
- A run is one batch with all that is due, taken in any order.
- A key gets at most one version: its name is random and the PUT is conditional
  (`If-None-Match: *`), so that a version is a Boolean.
- The retention of a locked object ends a fixed time after its journal entry.
- The inbox paths, which journal objects afterwards with `compensateStorageCommit`
  alone.

### AuditAnchor and the code

| Model | Code |
|---|---|
| `rows`, `urgent` | committed rows of `audit_log`, and those that make an anchor due at once |
| `anchors[i]` | `audit_anchor` in order of id: range and predecessor; the place of the predecessor stands for the hash of its token |
| `lease` | `audit_anchor_lease`: holder, and the time left |
| `status`, `retryIn` | the stored status of the tenant, and the time until its next retry |
| `Pick`, `Begin`, `ReadStatus` | `tenantsDueForAnchoring`, `anchorTenant` up to the port |
| `Claim` ... `Release` | `claimAnchorLease`, `EvidenceService.anchorLatest` await by await, `persistStatus`, `release` |
| `Evaluate`, `Unique`, `Write` | the conditional insert: its `NOT EXISTS` is evaluated under a snapshot, the unique key when it is written |
| `Refuse`, `DbError`, `Crash` | the authority refuses or times out; a statement fails; the run dies |

Waiting times are kept as the time left; `now` orders attempts and stops at `MaxTime`.
With `MaxTime = 0` all attempts have one date, and statuses are stored in any order: a
superset of the code's. `Prompt` says that no run waits longer than `Timeout` between
two confirmations of its lease. `Leaseless` runs are those of a release that knows no
lease. The loop over tenants is left out; with fifty tenants whose time stamp
configuration throws in every tick, later ones would wait, as such an attempt gets no
backoff (`anchor-schedule.ts:103`).

### VerifyCheckpoint and the code

| Model | Code |
|---|---|
| `rows`, `seals`, `anchors`, `altered` | the chain; a seal and an anchor are the row they cover; altered rows no longer reproduce their hash |
| `inc`, `full`, `target` | the three rows of `audit_verify_checkpoint` |
| `incBy`, `fullBy` | the runs whose copy is still the stored row: the compare-and-set on the MAC succeeds for them |
| `run[r].cur`, `.bound`, `.held`, `.goal` | cursor, bounds read at the start, the row last read or written, the frozen target |
| `Load`, `Orphans`, `DiscardAll` | `loadIncrementalOrDiscard` |
| `Walk`, `Conclude...`, `Restart` | a segment: rows in one read, seals and anchors in later ones, then the store |
| `CompleteLine`, `ResolveConflict` | the end of the line; a compare-and-set that failed |
| `ReadFull`, `PairProblem` ... `StartSweep` | `runFullVerificationIfDue`: FULL and FULL_TARGET by two SELECTs (`:684-687`) |
| `SweepConclude`, `Clash`, `ClashFull`, `Settle` | `continueSweep`; `classifySweepConflict` with INCREMENTAL and FULL by two SELECTs (`:983-986`), `settleSweepConflict` |
| `Finish`, `ResetAll` | `completeSweep` with both outcomes (`changed` or not), `failAndReset` |

No transaction of the job has a stronger isolation level than READ COMMITTED, so two
statements of one transaction see what others commit between them; only
`hasVerifyCheckpoints` (`Orphans`) looks at both kinds in one query. `alarms` keeps the
first alarm only, as what follows upon it (a row deleted by the reset) is its consequence.

Left out: checks that only look for an older checkpoint being played back (nobody
does so here, and every write is strictly later); the comparison of `startedAt` and
`sweepId` at the end of a sweep (`:911-921`), which cannot fail, as a sweep is begun after the
last completion was recorded and only one of the id held is carried on; findings as
data, the result row and the notifications of the job. Ids are taken to be in commit order.

### TcmsNachrichten and the code

| Model | Code |
|---|---|
| `cms[m]` | what the Tax-CMS knows of a message: open, discarded, or what it was told |
| `zeile[m]` | a row of `tcms_nachricht_zustellung`; `frist` and `alt` are its age |
| `auftrag[m]` | the status of its mail order, with the outbox's note |
| `lease`, `lauf[r]` | `tcms_systemakteur`; a run, with the list it fetched |
| `Beanspruche` ... `Freigeben` | `beanspruche`, `planeAbgerufeneEin`, `fuehreOffeneNach`, `bereinige` |
| `UebernimmAuftrag`, `PruefeErneut`, `LegeAn` ... | `planeTcmsNachrichtEin` on a row, on a row put off, and without a row |
| `Melde`, `Vermerke` | `melde`: the call, and the mark in the row after it |

What is abstracted:

- The check of the recipient is one verdict per message that may change; of each kind
  of report there is one reason.
- Messages are ordered by age in the fetch and in the follow-up.
- No run lasts 30 days (`Monat` passes only while all runs rest; a year, after which the
  outbox purges the order, passes with it). The window of a message to a contact is
  over before its limit of 7 days.
- A 404 or 409 on a report means that it is done. The Tax-CMS accepts a report for a
  message that was discarded after it was fetched, as `zustellung.ts:36-41` describes.
- Admins are told once for each row that is put off. A row put off and not checked for
  30 days is deleted, and the message, fetched again, makes a new one.

### Meldevorgang and the code

| Model | Code |
|---|---|
| `zeile` | the row of `tcms_portal_report` under one key; `v` its id, `token` and `lease` its owner and whether the lease still runs |
| `alter[v]` | time since `sentAt`: below 23 h, below 23 h + 10 min, more |
| `anlage[r]` | `tcms_document_reference` of the file request `r` brought |
| `anfrage[r]`, `post[r]` | a request of the contact; its call to the Tax-CMS or the answer |
| `inhalt`, `kennt`, `ereignisse` | the Tax-CMS: content sent, the key it keeps, events made |
| `Sende`, `Zaehle`, `Beginne`, `LoeseAuf`, `Wiederhole` | `meldevorgangBeanspruchen` and `neuBeginnenTx`, statement by statement |
| `Klaere`, `Uebernimm` | `faelligeBeanspruchen`, from `offeneMeldungenKlaeren` |
| `LegeAb`, `AblageScheitert`, `Gesendet`, `Raeume` | `meldungsAnlagenAblegen`, `meldevorgangGesendet`, `freigeben` |
| `Rufe`, `Erfahre`, `Zeitlimit`, `Schliesse` | the call, its meaning (`erstesSenden`, `meldevorgangWiederholen`), `meldevorgangAbschliessen` |
| `Pruefe`, `Frage`, `GibFrei`, `Zuordne` | the actions of the staff on an unresolved attachment |
| `Bereinige` | `meldevorgaengeBereinigen`, in the worker |

What is abstracted:

- One key of one contact, each request with at most one file. That the content is the
  same is that its attachments are the same.
- A transaction runs at READ COMMITTED: its statements are steps where another
  transaction can come in between, and one step where the row's lock keeps it out.
- A lease may end at any time. No transaction lasts ten minutes (their limit is 15 s), and no
  call claimed within the window of 23 h is under way ten minutes after it.
- The Tax-CMS keeps a key for at least 24 h, so that it can forget it only when the report is
  older than 23 h + 10 min and none of its calls is under way.
- The worker deletes a row that was never sent 24 h after it was created, whether or not its
  lease runs; the age of such a row is not kept, so `Bereinige` may delete it at any time.
- Discarding an event, which releases its attachments, is not modelled.

### N8nDelivery and the code

| Model | Code |
|---|---|
| `row[d]`, `outbox` | rows of `n8n_delivery`, and the status of their `n8n_outbox` |
| `tx[a]`, `lock` | an open transaction that concludes deliveries, and the lock of the outbox row under which it reads them all |
| `job[d][k]` | BullMQ's jobs of a delivery by key: the first, the recovery, one per click |
| `Take` ... `Commit` | `n8n-deliver`: claim, compare the route, call, conclude, release, give up |
| `LeaseEnds`, `Stalled`, `Forget`, `Reconcile` | time, BullMQ, and the reconciliation of lost jobs |
| `RetryClick` ... `SkipEvent` | the settings page: `deliveries.ts` |

What is abstracted:

- The adds after planning are part of planning; one that fails is a fault.
- `SkipEvent` sets the event's status; the SKIPPED delivery without a target that records the
  decision is left out (no guard reads it, and it has no job). So are jobs of the old format
  (`{ outboxId }`, `ensureLegacyDelivery`).
- Changing rows, locking the outbox row and reading all deliveries is one step, the
  commit another.
- One recovery key per delivery at a time; the first job's key matters only while the
  delivery waits; the cutoff of five minutes on `createdAt` is left out.
- A lease that runs out under a live worker counts as a fault.
- The receiver may get a delivery more than once (ADR-0013). What it does is not modelled.
- A retry whose web process dies before the job is added waits until the failed job's
  key is forgotten, which takes up to seven days.

### PortalInbox and the code

| Model | Code |
|---|---|
| `batch`, `due` | `portal_inbox_upload_batch`: its status, and whether its 24 hours are over |
| `row[a]` | `portal_inbox_attachment`: scan status, whether a message has it, decision; `old` says that its draft's 24 hours or its quarantine of seven days are over |
| `document[a]` | the document `accepted_document_id` names: reserved (PENDING) or shared |
| `staged`, `archive`, `journal`, `archiveJournal` | objects under the two keys of an attachment, and their rows in `storage_orphan` |
| `late`, `lateArchive` | a PUT somebody gave up waiting for; it may still land |
| `UploadNew` ... `CompensateUpload` | `stageInboxAttachment`: intent, recovery, conditional PUT, `finalizeIntent`, compensation |
| `Submit`, `Discard`, `DiscardJournals` | `consumeUploadBatchTx`; `discardPortalInboxUploadBatchTx` and the action after it |
| `AcceptLoads` ... `AcceptCompensates` | `acceptInboxAttachment` over `persistResumableDocumentUpload`; the lock of the attachment is held from `AcceptLocks` to `AcceptDecides` |
| `Reject` | `rejectInboxAttachmentTx` with `app.reject_pending_portal_inbox_attachment` |
| `CleanupStarts` ... `CleanupDies` | `runPortalInboxCleanup` on one tenant: candidates, look at the store, removal or journal entry, each in a transaction of its own |

What is abstracted:

- A transaction under a row lock is one step: the triggers take the batch's lock on every
  change of an attachment, so that changes of one batch come one after the other.
- A staging key and an archive key are used once and every PUT is conditional, so that an
  object is stored or not.
- A PUT that began before a journal entry is over when the entry is worked off 30 minutes
  later (`PutOver`, `ArchivePutOver`), as `RECONCILIATION_GRACE_MS` means it.
- The lock on archived objects, which lets `DeleteArchived` wait longer.

## 3. What TLC checks

Two runs, workers or requests are enough for every race the code knows: a claim is
lost to *one* other run, and a third repeats what the second does. The one case known where
it does not, three requests of one form in `Meldevorgang`, has its own run. Two
attempts reach both sides of the attempt limit, two rounds (one resend) are the least
in which an answer can arrive in the wrong round, and times of one and two ticks order
any two dates in every way the comparisons distinguish.

| Run | Instance | Question and answer |
|---|---|---|
| `mail_race` | 1 order, 2 runs, 2 attempts, 2 rounds | Two runs hang, are given up and answer late while the staff resend: no unconfirmed second mail over rounds (`DuplicateOnlyConfirmed`), no false status (`StatusIsTrue`), one notification per round (`ToldOnce`), no attempt given up before its own timeout (`NotGivenUpEarly`); each step is a step of `MailDelivery` or none (`ImplementsDelivery`). Holds. |
| `mail_contacts` | 1 order at a time, to up to 2 contacts or a TCMS message that expires, 1 run, 1 crash | Partial and unclear deliveries and a death at any point: the table's CHECKs refuse no transaction (`TableChecks`), one mail per round (`NoAutomaticDuplicate`), every order ends or reaches the staff, the content of an anonymised client goes and stays away. Holds. |
| `storage_live` | 1 locked upload within its grace period, 2 cleanup runs, 3 faults | Nothing referenced is deleted, nothing stored is forgotten and no closed row lies (`JournalIsTrue`); every row is closed and every orphan goes. Holds. |
| `storage_released` | 1 late upload, 1 cleanup run, 1 fault | Is a late commit still refused if a cleanup call fails? **Violated**, see below. |
| `anchor_runs` | 2 runs, 2 rows, 2 faults | One request per tip, a status that claims no anchor the chain lacks and blames the authority for no more than its refusals, refinement of `AnchorChain`, every row anchored in the end. Holds. |
| `verify_runs` | 2 overlapping runs, 2 rows, 1 alteration | `OverlapIsHarmless`: no checkpoint covers a row that was not hashed as it is (`CheckedRowsWereIntact`), and on an intact chain no check against the chain, no takeover of INCREMENTAL and no end of a sweep is the first to raise an alarm (`TakeoversAreTrusted`). Says nothing of the comparisons of two rows read one after the other, see below. Holds. |
| `verify_line` | 1 run after another, 2 rows, 1 late seal, 2 anchors, 1 crash, 1 sweep given up | Every seal counted once and nothing skipped, no false alarm, an altered row found in the end. Holds. |
| `tcms` | 2 runs, a message to a contact ahead of one to the staff, 1 message per fetch, 1 fault, 1 change of a recipient | Planned once, told one true thing of, and settled in the end, also behind the limit of the fetch. Holds. |
| `portal` | 2 requests, 2 rows under the key, 1 fault | `DocumentsFollowEvents`: where no report begins over attachments an earlier one has sent, one event per report, and the locks of documents follow the events that bear them (with the exception named below); the content goes. Holds. |
| `portal_three` | 3 requests, 3 rows under the key, no fault | Does `EventsAndLocksAgree` hold without that condition? **Violated**, see below. |
| `n8n` | 2 deliveries, 2 executions, 1 administrator with 1 decision, 1 fault | The event's status adds up, one execution calls at a time, nothing but the commit of a retry's reset takes a delivery from its live holder or back from its end (`ConclusionsHold`), every delivery ends. Holds. `OneSender` needs the single administrator, see below. |
| `inbox` | 1 attachment, 2 uploading and 2 accepting requests, 3 faults | Until the staff decide, the bytes are there and no entry lets them go (`ReviewableIsKept`); an accepted attachment has its one stored document, and an object in the archive has a document or an open entry (`DecisionsHold`); staged bytes go in the end, with the exception named below (`StagingGoes`). Holds. |

Instances beyond these were checked once and add nothing that the bounds hide:
`anchor_runs` with one of the runs leaseless (the chain, the status and the liveness hold
without the lease as well; the lease saves requests), and `PortalInbox` with two attachments,
two uploading requests, one accepting and one fault: a batch one of whose files is unfinished
is neither submitted nor discarded. `N8nDelivery` with two administrators, three decisions, two
faults, one execution and one delivery keeps `ConclusionsHold`, which is proved for any number of them.
Two instances beyond the runs are violated, by what the code does, and are named among the
findings: `OneSender` with two administrators, and an anchor status that must not lose a success.

Bounds: `MaxCycles` caps resends, `MaxCrashes`, `MaxFaults`, `MaxStoerungen`,
`MaxAbstuerze` and `MaxStalls` deaths and failures, `MaxClicks` and `MaxAenderungen`
decisions and changes from outside, `MaxRows`, `MaxSeals`, `MaxAnchors` and
`MaxAltered` the chain, `MaxVorgaenge` the rows inserted under a key, `MaxTime` and
`MaxClock` dates. Time in `MailOutbox` needs no bound, as it passes only while some row
waits for it, and `storage_live` does not reach its own (20).

Deadlock is not checked where the system really stops: when all uploads are over and all
rows closed (storage), when the event is settled and the decisions are made (`n8n`), when all
requests have ended, nothing is left to clear up and the keys are forgotten (`portal`).

### Fairness

`MailOutbox`: `WF_vars(Work(w))`, since the scheduler starts the job every minute,
BullMQ reruns a job whose process died (`worker-factory.ts`), and every external call
returns or times out; and `WF_vars(Tick)`. Nothing makes the staff resend, the purge
run or a process turn. `WF_vars(Work(w))` demands some step, not a particular
outcome: the provider may refuse or stay silent each time.

`StorageJournal`: `WF_vars(Clean(c))` for the scheduled job, `WF_vars(Upload(u))` as a
request ends (calls of the store and transactions have timeouts), and a PUT under way
lands or is lost. Uploads need not begin. A claim that goes stale under a run still at
work (`Stalls`) counts as a fault: two runs that are each slower than `CLAIM_STALE_MS` on
one row could take it from each other for ever.

`AuditAnchor`: the scheduler's tick, the steps of a live run, time; refusals are bounded.

`VerifyCheckpoint`: the daily start, the steps of a run, and strong fairness on
`FallsDue`: the interval of a full verification passes again and again, though runs in
between may find it not due.

`TcmsNachrichten`: weak fairness on *some* run's step (a run that waits for the lease is
no step), on the lease running out, on the outbox ending each order, and on days passing.
Nothing makes a recipient valid.

`Meldevorgang`: requests and messages under way end, the worker's job runs, time passes.
Nobody need open the page again.

`PortalInbox`: requests that were begun go on, the clean-up and the journal's worker run again
and again, PUTs end, time passes. No contact or member of staff need do anything; deaths and
failures are bounded by `MaxFaults`.

`N8nDelivery`: some execution goes on, some administrator's request that was begun ends,
leases end, BullMQ looks for stalled jobs and forgets finished ones, the reconciliation runs.

### Findings

Shown by a run:

- **`storage_released`** (`jobs/storage-orphan-cleanup.ts:325`). If the object is
  deleted and a later call of the same run fails, the claim is released and the intent
  stays open, as if nothing had happened. A commit that is later than the grace period
  (30 minutes) is then accepted by `app.settle_storage_intent` and refers to an object
  that is gone; the migration that introduced the journal says such a commit fails.
  Leaving the claim in place after `deleteObjectVersion` was called would close the gap.
- **`portal_three`** (`meldevorgang.ts:247`). A new row must not begin while attachments of an
  earlier one are open (`meldevorgang.ts:65-67`, `:231-240`), but the code counts them (`:247`)
  and inserts the row in two statements at READ COMMITTED. With three requests of one form
  TLC finds: the first, without a file, is accepted and its row is gone; the second
  counts no open attachment; the third begins, binds its file, sends, gets
  `IDEMPOTENZ_ABWEICHUNG` (the Tax-CMS knows the first report) and loses its row, its file
  still bound; then the second begins over it, and when it is answered with the first's
  event, the third's file is assigned to an event that does not bear it. No lease ends and
  nothing fails, but all of the third's steps must fit between two statements of the
  second, in a transaction of at most 15 s. Two requests cannot get there. Counting again
  after the insert would close the gap.

Met while modelling, without a run of their own:

- **Status of the anchor** (`jobs/audit-anchor.ts:209`). The stored status is read before the
  lease is taken. A run that reads while another is at the authority, then gets the
  lease and is refused, writes the old `lastSuccessAt` and `lastAnchoredAuditId` over
  the success recorded meanwhile; the comparison of attempt dates (`:88-91`), whose purpose is
  that "an old failure" shall not "overwrite a newer success" (`:66-68`), lets it through, as its
  attempt is the later one. TLC finds it in `AuditAnchor` with two runs, one fault and two dates
  (`MaxTime = 1`), as a step that takes a success out of the status. The chain itself is not
  touched. Reading the status under the lease would close the gap.
- **Expiry of a mail** (`jobs/mail-outbox.ts:308`). A run judges the relevance of every
  order of its batch at the time the run began, while the attempt begins at
  `attemptAt`, many slow sends later. An order whose code expires in between is
  claimed and sent, although the fachkatalog says the check sees the state
  immediately before the attempt. The length of one run bounds the delay.
- **Verification** (`verify-checkpoint.ts:688`, `:348-361`, `:983-986`). Rows that one
  transaction writes together are read by several statements, and an overlapping run may commit
  between two of them. Then an intact chain gets a "Manipulationsverdacht" and a reset, although
  overlapping runs are said to be handled (`verify-checkpoint.ts:970-972`,
  `audit-verify-check.ts:623-624`). There are four origins, each of which TLC reaches with two runs:
  FULL and FULL_TARGET do not fit the INCREMENTAL read earlier, or each other, when a full
  verification is begun, ended or given up in between (`:684-688`); a sweep's rows are found
  without an INCREMENTAL that was missing a statement earlier (`:348-361`); and where a
  compare-and-set on FULL failed, INCREMENTAL is unchanged when it is read, but by the next
  statement FULL is gone, or is of another sweep (`:1006-1014`). That a first false alarm has
  no other origin is part of the invariant below (`OnlySplitReadsErr`).
- **n8n** (`server/n8n-settings/deliveries.ts:146`). `resetFailedN8nDeliveryTx` reads that
  a delivery is FAILED and then updates it by its id alone. With two administrators, or two
  requests of one, the second update opens again what the first retry delivered, or what was
  acknowledged meanwhile, or resets a delivery that an execution has just claimed, so that two
  call the webhook (`OneSender` is violated with `Admins = {a1, a2}` and `MaxClicks = 2`).
  `ConclusionsHold` excepts this commit (`RetryCommits`) and shows that nothing else does the
  same. `updateMany` with the status in its condition would close the gap.
- **Portal reports** (`meldevorgang.ts:797-819`, `tcms-nachrichten.ts:1118`).
  1. The block that keeps the staff from releasing an attachment for 23 h + 10 min stands in the
     row, and the worker deletes the row at 23 h, whether or not a lease runs. A repetition
     claimed just before may create the event after the staff released its attachment. The
     same holds after `IDEMPOTENZ_ABWEICHUNG`, with a call still under way.
     `StaffReleaseIsFree` excepts these reports (`frueh`) and shows there are no others.
  2. A report without attachments whose row is gone leaves nothing that uses its key
     up: submitted again after 24 h it makes a second event. `OneEventPerReport`
     therefore speaks of each row, not of the key.
  3. A request that lost its lease may bind its file after a new row began under the
     key; an acceptance then assigns it to an event that does not bear it, which the comment
     at `meldevorgang.ts:231-240` takes to be excluded. `AssignedIsBorne` is about
     files that were sent.

- **Portal inbox**.
  1. The transaction that holds the attachment's lock over the PUT to the archive has
     Prisma's limit of 15 s (`packages/db/src/tenant-context.ts:113`), a PUT may take longer.
     Then the lock is gone while the PUT is under way, and a rejection may come in between,
     although `accept-attachment.ts:331-334` says that it wins wholly before the PUT or sees the
     accepted state. No bytes are lost track of: `DecisionsHold` shows that the rejection's
     journal entry stays open for what appears later.
  2. The clean-up finds no object and removes the row in a later transaction
     (`portal-inbox-cleanup.ts:262-264`). An upload that stores in between and then dies, or a
     PUT that lands late, leaves an object with neither row nor entry. `Forgotten` excepts
     these, and only after a fault.
  3. A slow parallel upload that finalises after a rejection journals the bytes at once
     (`staging-upload.ts:331`), before the quarantine of seven days is over.

## 4. What TLAPS proves

All theorems hold for any number of orders, uploads, messages, requests, deliveries,
attachments, of runs and of faults, and for any durations. They assume what the modules'
named assumptions say of the constants: numbers are natural, timeouts, limits and the grace
period positive, sets are as their comments say, and a value that stands for "nobody" is
none of them (`OrdersAssumption`, `NumbersAssumption`, `TimesAssumption`; `UploadsAssumption`,
`DatesAssumption`, `NoJobAssumption`; `AnchorAssumption`, `NoRunIsNobody`;
`NachrichtenAssumption`, `LimitAssumption`; `NAssumption`, `DeliveriesAssumption`,
`ActorsAssumption`; `AnfragenAssumption`; `BoundAssumption`, `BoundsAssumption`;
`RunsAssumption`, `LimitsAssumption` and the `BoundsAssumption` of `VerifyCheckpoint`: any
chain, any size of a segment). TLC evaluates them in every run. Where a theorem has a hypothesis of its own, the table names it.

| Theorem | Says |
|---|---|
| `MailOutboxProofs!TypeCorrect` | `TypeOK`: also no attempt beyond the limit |
| `MailOutboxProofs!StaffAreToldOnce` | `ToldOnce`: one notification per round of an order |
| `MailOutboxProofs!RowsPassTheChecks` | `TableChecks`: the CHECKs of the table refuse no transaction |
| `MailOutboxProofs!NeverSentTwice` | in one round at most one attempt is taken by the provider |
| `MailOutboxProofs!DuplicatesAreConfirmed` | a round after a delivered one was confirmed by the staff |
| `MailOutboxProofs!StatusesAreTrue` | what a status says about the round is so |
| `MailOutboxProofs!ClaimsAreExclusive` | only the run of the latest attempt can write its result |
| `MailOutboxProofs!AttemptsKeepTheirTime` | nobody gives up an attempt before its own timeout |
| `MailOutboxProofs!DeliveryRefined` | `MailOutbox` implements `MailDelivery` |
| `StorageJournalProofs!TypeCorrect` | `TypeOK`: also only open rows are claimed |
| `StorageJournalProofs!NothingReferencedIsDeleted` | if all uploads are over within the grace period (`Prompt = Uploads`), nothing referenced is deleted |
| `StorageJournalProofs!JournalCanBeReliedOn` | under the same hypothesis nothing stored is forgotten and no closed row lies (`JournalIsTrue`) |
| `AuditAnchorProofs!TypeCorrect` | `TypeOK` |
| `AuditAnchorProofs!ChainRefined` | `AuditAnchor` implements `AnchorChain`: one chain without branch or gap, with or without leases |
| `AuditAnchorProofs!StatusIsTrue` | the stored status claims no anchor the chain lacks, and blames the authority for no more than its refusals |
| `AuditAnchorProofs!RequestsTakeTurns` | if runs are prompt and the timeout of a request is below the lease's (10 s and 30 s in the code), one request per tip is under way |
| `TcmsNachrichtenProofs!TypeCorrect` | `TypeOK` |
| `TcmsNachrichtenProofs!NothingPlannedTwice` | one order per message, over all redeliveries |
| `TcmsNachrichtenProofs!ReportsAreTrue` | the Tax-CMS is told one thing of a message, and it is so |
| `N8nDeliveryProofs!TypeCorrect` | `TypeOK` |
| `N8nDeliveryProofs!EventStatusAddsUp` | the status of an event is the aggregate of its deliveries, whoever concludes them at once |
| `N8nDeliveryProofs!DoubleCallNeedsStaleReset` | one execution calls the webhook at a time, as long as each retry meets what it read (`ResetsAreFresh`) |
| `N8nDeliveryProofs!HandsAreRespected` | with any number of administrators: nothing but the commit of a retry's reset takes a delivery from its live holder or back from its end |
| `PortalInboxProofs!TypeCorrect` | `TypeOK` |
| `PortalInboxProofs!BytesAwaitTheReview` | until the staff decide, the bytes are there and no entry lets them go |
| `PortalInboxProofs!DecisionsAgree` | decision, document and archived object agree |
| `MeldevorgangProofs!TypeCorrect` | `TypeOK` |
| `MeldevorgangProofs!ReportsMakeOneEvent` | each report makes one event, and what the staff release is in none, save for reports whose row went early |
| `MeldevorgangProofs!LocksFollowEvents` | `DocumentsFollowEvents`: where no row ever begins over attachments an earlier one has sent (`UnsentOwnsNothingSent`), all of `EventsAndLocksAgree` holds for good |
| `VerifyCheckpointProofs!TypeCorrect` | `TypeOK` |
| `VerifyCheckpointProofs!NothingIsSkipped` | a stored cursor has counted each seal up to its row once; a run that completes has met all that was there when it began |
| `VerifyCheckpointProofs!OverlapsAreHarmless` | runs that overlap hide no alteration from each other, and on an intact chain no check against the chain, no takeover of INCREMENTAL and no end of a sweep is the first to raise an alarm |
| `VerifyCheckpointProofs!SingleRunsAreTrusted` | if runs do not overlap (`Runs = {v}`), however many die, no check is wrong about an intact chain |

Each proof has the same form: an invariant that every step preserves and that implies
the property, with a lemma per action, and lemmas for the few ways in which rows are
written. Each invariant was checked by TLC on the instance of a run before it was proved.
What the invariants add to the properties says why the code is right:

**Mail.** `NoAutomaticDuplicate` is not inductive: it says nothing about the attempt
under way. `DeliveryInv` adds, besides types, that what a run read lies in the past
(`ScanIsPast`), and in `RoundInv`: a claim of the current round still owns the row, or
was given up at a later time than it began (`CurrentClaim`); a claim of a former round
is older than any later attempt, and its round's successor was confirmed
(`FormerClaim`); one claim per round; what a round handed over, its claim handed over
(`HandedByClaim`), and the row remembers that something may be out (`HandedState`); a
run knows at least that something may be out (`TallyIsTrue`). The crux is the claim's
token: status, number *and time* of the attempt. A row is given up only strictly after
its attempt began (`InFlightTimeout > 0`), so the next attempt has a later time
and the late answer of the former one meets another token. The refinement goes step by
step under this invariant: a claim is a `Try`, a mail the provider takes a `Take`, a resend a
`Resubmit`, and what moves only clocks and locals stutters. `TableInv` is separate: it
says of each row what its dates and its escalation mark owe to the status.

**Storage.** `JournalInv` adds to `ReferencedIsStored`: an upload at work is within the
grace period of its intent and has no second row (`UploadsInTime`), so what is due
belongs to an upload that is over (`DueIsOver`); runs hold rows of such uploads only and
delete only what they found unreferenced (`RunsComeAfter`), which nobody can refer to
any more; an upload that will commit has its object (`UploadsStored`). The claim plays
no part in this argument: it is what protects uploads that are late, and it does not
always do so, as `storage_released` shows. `CloseInv` adds what closed rows rest on: no
PUT is under way once the grace period is over (`InFlight`), nobody but the upload's own
commit closes its intent until it is over (`IntentLasts`), and what a run has found out
about an object stays so (`Judges`).

**Anchors.** The chain needs neither the lease nor the clock. A run cites an anchor
that is in the chain, though others may follow by now (`ReadIsPast`); the unique key of
the predecessor then lets at most one successor in, and `NOT EXISTS` sees it. For the
status, `Heeds` says that what a run read was true when it read it, and truths about the chain
stay true: that is why a status may be outdated (see the findings) but not false.
`AsksUnderLease` is the arithmetic of lease and request.

**TCMS messages.** `ZustellungInv` binds, for each message, the row, the mail order and
what the Tax-CMS holds. The hard part is the message without a row: either nothing
has happened yet, or all is said and no run remembers it (`OhneZeile`), since rows are cleared
away only a month after the report.

**n8n.** `LockInv`: one transaction at a time holds the outbox row, and the aggregate it has
computed still is that of its commit. `DecisionInv` says of an administrator's open
transaction, unless it is a retry's, that the rows it rewrites have failed or wait, until it
commits; so nothing but a retry can rewrite one that somebody works on. `HoldInv` says that a
delivery is taken from who works on it only when the lease ran out; it is preserved only as long
as retries are fresh (`ResetsAreFresh`). With two administrators they need not be (see the
findings), so `DoubleCallNeedsStaleReset` names this as the only way to a double call.

**Portal inbox.** `BatchInv` binds rows to their batch, `KeepInv` says that whoever
journals the bytes of an attachment knows that nobody will review it, and `DecideInv`
that an acceptance finishes on the reservation it found under the lock.

**Portal reports.** `MeldeInv` holds without hypothesis. Its crux is `EreignisInv` with
`RufInv`: a message that may still be accepted is one whose key the Tax-CMS cannot have
forgotten (the window of 23 h against its 24 h), so that a repetition meets the key and makes no second
event; and `ErsterInv`: a rejection settles a report only if the call that it answers
is the only one ever made. `SentInv` says whose attachment an open one is. It is
preserved by every step but the beginning of a row over attachments an earlier one has
sent, which two requests cannot do and three can (`portal_three`). The
hypothesis within `DocumentsFollowEvents` is that sentence of the code's own comment, so that
nothing but this race breaks the property.

**Verification.** `VerifyInv` says that every cursor, stored or held, is `Sound`, whoever
advanced it last: its seals are counted and no row that was altered when its line left genesis
lies below it. A run adds what it has read and not yet stored (`HasWalked`). It reads
seals and anchors up to the bounds it began with, so that the chain may grow meanwhile; the
seals it adds are disjoint from those counted before, late ones below the cursor
included, and together they are all up to the new row (`SealsCount`). The compare-and-set
gives `MayOwn`: only a run whose copy is the stored row may write it. This is all
that `NothingIsSkipped` needs, and half of `OverlapsAreHarmless`. The other half is about
an intact chain. `PairInv` binds the rows that one transaction writes and several statements
read: the row INCREMENTAL names the sweep of FULL and FULL_TARGET, a run whose copy of FULL is
the stored one knows where the sweep stands, and FULL_TARGET, when it is of the sweep a run is
about, is where that run takes it to. `FineInv` says that as long as no row is altered and
nothing was suspected, the target of a sweep covers what its seals and anchors bind,
the sweep stays within its target, what a run has read of FULL is a cursor the chain bears out
even if FULL has moved on, and a bounded walk meets every row it will look for, so
that each check finds what it expects, but for the four comparisons of rows read one after the
other (`Suspects`). With a single run nothing happens in between (`Alone`), whence
`SingleRunsAreTrusted`.

Only model-checked:

- Liveness under fairness and `ENABLED`, which are out of this prover's reach:
  `EveryOrderEnds`, `EveryRowCloses`, `EventuallyAnchored`, `AlteredRowIsFound`,
  `EveryDeliveryEnds`, `EveryMessageSettled`, `ContentGoes`, `StagingGoes`. So is
  `AnonymizedIsErased`.

## 5. What is not modelled, and the plan

Every invariant, action property and refinement that a passing run checks is the subject of a
theorem above, some under the hypothesis that the table names. What is left is liveness, and
beyond that the components listed here.

Not modelled, though they have state of their own:

- Tax deadline notifications, whose claim, send and escalation follow the pattern of
  the mail outbox on fewer states; the threads and read marks of the portal inbox; the
  extension of the GwG object lock; workflow reconciliation (one SQL function under a
  row lock); the invoice archive, payroll revisions and Risk LOS (one transaction each).
- The loops over tenants, and fairness among them.

Left out for good: pages, forms, rendering and PDF, tax and ELSTER calculations, RSS,
FIDO metadata, backups (no interleaving a test would not reach, or pure input and output);
row level security, which is one predicate on every query; the queue's own
implementation, of which only what a job may rely on enters, as fairness and as
runs that race. These are most of the repository's lines.
