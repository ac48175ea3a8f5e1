------------------------- MODULE PortalInboxInvariant -------------------------
(***************************************************************************)
(* The inductive invariant of PortalInbox: what binds the rows to their    *)
(* batch, what keeps the bytes of an attachment while it may be reviewed,  *)
(* and what binds a decision to its document.                              *)
(***************************************************************************)
EXTENDS PortalInbox

RowTyp    == [scan : {"none", "PENDING", "CLEAN", "removed"}, bound : BOOLEAN,
              decision : {"PENDING_REVIEW", "ACCEPTED", "REJECTED"}, old : BOOLEAN]
Files     == {{a} : a \in Attachments}
UploadTyp == [pc : {"recover", "put", "finalize", "compensate"}, a : Files, fresh : BOOLEAN]
AcceptTyp == [pc : {"reading", "resuming", "reserving", "ready", "storing", "deciding",
                    "compensating"}, a : Files, fresh : BOOLEAN]

TypeInv ==
  /\ batch \in {"OPEN", "CONSUMED", "DISCARDED", "EXPIRED"} /\ due \in BOOLEAN
  /\ row \in [Attachments -> RowTyp]
  /\ document \in [Attachments -> {"none", "reserved", "shared"}]
  /\ journal \in [Attachments -> {"none", "open", "closed"}]
  /\ archiveJournal \in [Attachments -> {"none", "open", "closed"}]
  /\ staged \subseteq Attachments /\ archive \subseteq Attachments
  /\ late \subseteq Attachments /\ lateArchive \subseteq Attachments
  /\ discarding \subseteq Attachments
  /\ upload \in [Uploads -> {Idle} \cup UploadTyp]
  /\ staff \in [Staff -> {Idle} \cup AcceptTyp]
  /\ worker \in [todo : SUBSET Attachments, pending : SUBSET Attachments,
                 missing : SUBSET Attachments]
  /\ worker.missing \subseteq worker.todo
  /\ faults \in 0 .. MaxFaults

Uploading(u, a, pc) == upload[u].a = {a} /\ upload[u].pc = pc
Accepting(s, a, pc) == staff[s].a = {a} /\ staff[s].pc = pc

\* A batch is submitted as a whole, and only then does anybody decide.
BatchInv ==
  \A a \in Attachments :
    /\ row[a].bound => row[a].scan = "CLEAN" /\ batch = "CONSUMED"
    /\ row[a].decision # "PENDING_REVIEW" => row[a].bound
    /\ batch = "CONSUMED" /\ row[a].scan # "none" => row[a].bound
    /\ batch = "OPEN" => row[a].scan # "removed"
    /\ a \in discarding => row[a].scan = "CLEAN" /\ batch = "DISCARDED"

\* Who journals the bytes of an attachment knows that nobody will review it.
Kept(a) ==
  /\ Undecided(a) /\ batch \in {"OPEN", "CONSUMED"} => a \in staged /\ journal[a] = "none"
  /\ Usable /\ Pending(a) => journal[a] = "none"
  /\ row[a].scan = "none" => journal[a] = "none"
  /\ a \in worker.todo =>
       /\ row[a].scan # "none"
       /\ batch \in {"DISCARDED", "EXPIRED"} \/ row[a].decision # "PENDING_REVIEW"
  /\ \A u \in Uploads :
       /\ upload[u].a = {a} => row[a].scan # "none"
       /\ Uploading(u, a, "finalize") => a \in staged \/ journal[a] # "none"
       /\ Uploading(u, a, "compensate") => ~ Undecided(a) /\ ~ (Usable /\ Pending(a))

KeepInv == \A a \in Attachments : Kept(a)

\* An acceptance works under the lock of its attachment, on the reservation that
\* it found; only a rejection takes the reservation away, and journals it.
DecideInv ==
  \A a \in Attachments :
    /\ row[a].decision = "ACCEPTED" <=> document[a] = "shared"
    /\ document[a] = "reserved" => Open(a)
    /\ document[a] = "shared" => a \in archive
    /\ archiveJournal[a] # "none" => row[a].decision = "REJECTED"
    /\ a \in archive \cup lateArchive => document[a] # "none" \/ archiveJournal[a] = "open"
    /\ \A s \in Staff :
         /\ Accepting(s, a, "storing") => document[a] = "reserved"
         /\ Accepting(s, a, "deciding") => document[a] = "reserved" /\ a \in archive
         /\ Accepting(s, a, "compensating") => row[a].decision = "ACCEPTED"

Holds(s, a) == staff[s].a = {a} /\ staff[s].pc \in {"storing", "deciding"}

LockInv == \A a \in Attachments, s, t \in Staff : Holds(s, a) /\ Holds(t, a) => s = t

InboxInv == TypeInv /\ BatchInv /\ KeepInv /\ DecideInv /\ LockInv
===============================================================================
