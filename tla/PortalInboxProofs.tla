--------------------------- MODULE PortalInboxProofs ---------------------------
(***************************************************************************)
(* Proof that InboxInv is inductive, and with it the safety properties of  *)
(* PortalInbox, for any number of attachments, uploading requests, members *)
(* of staff and faults.                                                    *)
(***************************************************************************)
EXTENDS PortalInboxInvariant, FiniteSetTheorems, TLAPS

(* The records                                                              *)

LEMMA IdleFacts == Idle.pc = "idle" /\ Idle.a = {} /\ Idle.fresh = FALSE
  BY DEF Idle

LEMMA FileFacts ==
  /\ \A a \in Attachments : {a} \in Files /\ {a} # {}
  /\ \A a, b \in Attachments : {a} = {b} => a = b
  /\ \A x \in Files : \E a \in Attachments : x = {a}
  BY DEF Files

LEMMA RowFacts ==
  ASSUME TypeInv, NEW a \in Attachments
  PROVE  /\ row[a] \in RowTyp
         /\ row[a].scan \in {"none", "PENDING", "CLEAN", "removed"}
         /\ row[a].bound \in BOOLEAN /\ row[a].old \in BOOLEAN
         /\ row[a].decision \in {"PENDING_REVIEW", "ACCEPTED", "REJECTED"}
  BY DEF TypeInv, RowTyp

(* A row is rewritten.                                                      *)
LEMMA RowWritten ==
  ASSUME TypeInv, NEW a \in Attachments, NEW x \in RowTyp, row' = [row EXCEPT ![a] = x]
  PROVE  /\ row' \in [Attachments -> RowTyp] /\ row'[a] = x
         /\ \A b \in Attachments \ {a} : row'[b] = row[b]
  BY DEF TypeInv

LEMMA ScanWritten ==
  ASSUME TypeInv, NEW a \in Attachments,
         NEW scan \in {"none", "PENDING", "CLEAN", "removed"},
         row' = [row EXCEPT ![a].scan = scan]
  PROVE  /\ row' \in [Attachments -> RowTyp]
         /\ row'[a].scan = scan /\ row'[a].bound = row[a].bound
         /\ row'[a].decision = row[a].decision
         /\ \A b \in Attachments \ {a} : row'[b] = row[b]
  <1> DEFINE x == [row[a] EXCEPT !.scan = scan]
  <1>1. /\ x \in RowTyp /\ x.scan = scan /\ x.bound = row[a].bound
        /\ x.decision = row[a].decision
    BY RowFacts DEF RowTyp
  <1>2. row' = [row EXCEPT ![a] = x]
    BY RowFacts DEF RowTyp, TypeInv
  <1> HIDE DEF x
  <1> QED
    BY <1>1, <1>2, RowWritten

LEMMA DecisionWritten ==
  ASSUME TypeInv, NEW a \in Attachments, NEW decision \in {"ACCEPTED", "REJECTED"},
         row' = [row EXCEPT ![a].decision = decision]
  PROVE  /\ row' \in [Attachments -> RowTyp]
         /\ row'[a].decision = decision /\ row'[a].bound = row[a].bound
         /\ row'[a].scan = row[a].scan
         /\ \A b \in Attachments \ {a} : row'[b] = row[b]
  <1> DEFINE x == [row[a] EXCEPT !.decision = decision]
  <1>1. /\ x \in RowTyp /\ x.decision = decision /\ x.bound = row[a].bound
        /\ x.scan = row[a].scan
    BY RowFacts DEF RowTyp
  <1>2. row' = [row EXCEPT ![a] = x]
    BY RowFacts DEF RowTyp, TypeInv
  <1> HIDE DEF x
  <1> QED
    BY <1>1, <1>2, RowWritten

LEMMA Faulty == ASSUME TypeInv, Fault PROVE faults' \in 0 .. MaxFaults
  BY BoundAssumption DEF Fault, TypeInv

LEMMA JournalWritten ==
  ASSUME TypeInv, NEW a \in Attachments, Journaled(a)
  PROVE  /\ journal' \in [Attachments -> {"none", "open", "closed"}] /\ journal'[a] = "open"
         /\ \A b \in Attachments \ {a} : journal'[b] = journal[b]
  BY DEF TypeInv, Journaled

-----------------------------------------------------------------------------
(* Uploads                                                                  *)

(* What a request that uploads may leave behind, and who else works on it.  *)
LEMMA UploadGoing ==
  ASSUME TypeInv, NEW u \in Uploads, NEW a \in Attachments,
         NEW pc \in {"idle", "put", "finalize", "compensate"}, UploadGoes(u, a, pc)
  PROVE  /\ upload' \in [Uploads -> {Idle} \cup UploadTyp]
         /\ \A v \in Uploads, b \in Attachments :
              /\ upload'[v].a = {b} => upload[v].a = {b}
              /\ \A p \in {"finalize", "compensate"} :
                   Uploading(v, b, p)' => Uploading(v, b, p) \/ (b = a /\ p = pc)
  <1>1. upload[u] \in UploadTyp
    BY IdleFacts, FileFacts DEF TypeInv, UploadGoes
  <1> DEFINE x == IF pc = "idle" THEN Idle ELSE [upload[u] EXCEPT !.pc = pc]
  <1>2. /\ x \in {Idle} \cup UploadTyp
        /\ x = Idle \/ (x.pc = pc /\ x.a = {a})
    BY <1>1 DEF UploadTyp, UploadGoes
  <1>3. upload' = [upload EXCEPT ![u] = x]
    BY DEF UploadGoes
  <1> HIDE DEF x
  <1>4. /\ upload' \in [Uploads -> {Idle} \cup UploadTyp] /\ upload'[u] = x
        /\ \A v \in Uploads \ {u} : upload'[v] = upload[v]
    BY <1>2, <1>3 DEF TypeInv
  <1>5. upload[u].a = {a}
    BY DEF UploadGoes
  <1>6. ASSUME NEW v \in Uploads, NEW b \in Attachments, upload'[v].a = {b}
        PROVE  /\ upload[v].a = {b}
               /\ v = u => b = a /\ upload'[v].pc = pc
               /\ v # u => upload'[v] = upload[v]
    <2>1. CASE v = u
      <3>1. x # Idle
        BY <1>4, <1>6, <2>1, IdleFacts, FileFacts
      <3> QED
        BY <1>2, <1>4, <1>5, <1>6, <2>1, <3>1, FileFacts
    <2>2. CASE v # u
      BY <1>4, <1>6, <2>2
    <2> QED
      BY <2>1, <2>2
  <1> QED
    BY <1>4, <1>6 DEF Uploading

LEMMA UploadBegins ==
  ASSUME TypeInv, NEW u \in Uploads, NEW a \in Attachments, Begins(u, a)
  PROVE  /\ upload' \in [Uploads -> {Idle} \cup UploadTyp]
         /\ \A v \in Uploads, b \in Attachments :
              /\ upload'[v].a = {b} => upload[v].a = {b} \/ b = a
              /\ \A p \in {"finalize", "compensate"} :
                   Uploading(v, b, p)' => Uploading(v, b, p)
  <1> DEFINE x == [Idle EXCEPT !.pc = "recover", !.a = {a}]
  <1>1. x \in UploadTyp /\ x.pc = "recover" /\ x.a = {a}
    BY FileFacts DEF Idle, UploadTyp
  <1>2. upload' = [upload EXCEPT ![u] = x]
    BY DEF Begins
  <1> HIDE DEF x
  <1>3. /\ upload' \in [Uploads -> {Idle} \cup UploadTyp] /\ upload'[u] = x
        /\ \A v \in Uploads \ {u} : upload'[v] = upload[v]
    BY <1>1, <1>2 DEF TypeInv
  <1>4. ASSUME NEW v \in Uploads, NEW b \in Attachments
        PROVE  /\ upload'[v].a = {b} => upload[v].a = {b} \/ b = a
               /\ \A p \in {"finalize", "compensate"} :
                    Uploading(v, b, p)' => Uploading(v, b, p)
    <2>1. CASE v = u
      BY <1>1, <1>3, <2>1, FileFacts DEF Uploading
    <2>2. CASE v # u
      BY <1>3, <2>2 DEF Uploading
    <2> QED
      BY <2>1, <2>2
  <1> QED
    BY <1>3, <1>4

(* The decisions are untouched where a row keeps its own and stays open.    *)
LEMMA DecideKept ==
  ASSUME DecideInv, LockInv,
         UNCHANGED <<document, archive, archiveJournal, lateArchive, staff>>,
         \A a \in Attachments : /\ row'[a].decision = row[a].decision
                                /\ Open(a) => Open(a)'
  PROVE  DecideInv' /\ LockInv'
  <1>1. DecideInv'
    BY DEF DecideInv, Accepting
  <1>2. LockInv'
    BY DEF LockInv, Holds
  <1> QED
    BY <1>1, <1>2

(* Steps of uploads, and PUTs that land, that change no row and no journal. *)
LEMMA UploadQuiet ==
  ASSUME InboxInv,
         UNCHANGED <<batch, due, row, document, archive, journal, archiveJournal, lateArchive,
                     staff, discarding, worker>>,
         staged \subseteq staged', staged' \subseteq Attachments, late' \subseteq Attachments,
         faults' \in 0 .. MaxFaults, upload' \in [Uploads -> {Idle} \cup UploadTyp],
         \A v \in Uploads, b \in Attachments :
           /\ upload'[v].a = {b} => row[b].scan # "none"
           /\ Uploading(v, b, "finalize")' => b \in staged' \/ journal[b] # "none"
           /\ Uploading(v, b, "compensate")' => Uploading(v, b, "compensate")
  PROVE  InboxInv'
  <1>1. TypeInv'
    BY DEF InboxInv, TypeInv
  <1>2. BatchInv'
    BY DEF InboxInv, BatchInv
  <1>3. KeepInv'
    <2> SUFFICES ASSUME NEW a \in Attachments
                 PROVE  /\ Undecided(a) /\ batch \in {"OPEN", "CONSUMED"} =>
                             a \in staged' /\ journal[a] = "none"
                        /\ Usable /\ Pending(a) => journal[a] = "none"
                        /\ row[a].scan = "none" => journal[a] = "none"
                        /\ a \in worker.todo =>
                             /\ row[a].scan # "none"
                             /\ \/ batch \in {"DISCARDED", "EXPIRED"}
                                \/ row[a].decision # "PENDING_REVIEW"
                        /\ \A u \in Uploads :
                             /\ upload'[u].a = {a} => row[a].scan # "none"
                             /\ Uploading(u, a, "finalize")' => a \in staged' \/ journal[a] # "none"
                             /\ Uploading(u, a, "compensate")' =>
                                  ~ Undecided(a) /\ ~ (Usable /\ Pending(a))
      BY DEF KeepInv, Kept, Undecided, Usable, Pending
    <2> QED
      BY DEF InboxInv, KeepInv, Kept
  <1>4. DecideInv' /\ LockInv'
    BY DecideKept DEF InboxInv, Open, Undecided
  <1> QED
    BY <1>1, <1>2, <1>3, <1>4 DEF InboxInv

(* An upload goes on by one step that changes no row and no journal.        *)
LEMMA UploadMoves ==
  ASSUME InboxInv, NEW u \in Uploads, NEW a \in Attachments,
         NEW pc \in {"idle", "put", "finalize"}, UploadGoes(u, a, pc),
         UNCHANGED <<row, journal>>, pc = "finalize" => a \in staged',
         staged \subseteq staged', staged' \subseteq Attachments, late' \subseteq Attachments,
         faults' \in 0 .. MaxFaults
  PROVE  InboxInv'
  <1>1. /\ upload' \in [Uploads -> {Idle} \cup UploadTyp]
        /\ \A v \in Uploads, b \in Attachments :
             /\ upload'[v].a = {b} => upload[v].a = {b}
             /\ \A p \in {"finalize", "compensate"} :
                  Uploading(v, b, p)' => Uploading(v, b, p) \/ (b = a /\ p = pc)
    BY UploadGoing DEF InboxInv
  <1>2. \A v \in Uploads, b \in Attachments :
          /\ upload'[v].a = {b} => row[b].scan # "none"
          /\ Uploading(v, b, "finalize")' => b \in staged' \/ journal[b] # "none"
          /\ Uploading(v, b, "compensate")' => Uploading(v, b, "compensate")
    BY <1>1 DEF InboxInv, KeepInv, Kept
  <1>3. UNCHANGED <<batch, due, row, document, archive, journal, archiveJournal, lateArchive,
                    staff, discarding, worker>>
    BY DEF UploadGoes
  <1> QED
    BY <1>1, <1>2, <1>3, UploadQuiet

LEMMA StoreTyped ==
  ASSUME InboxInv
  PROVE  /\ staged \subseteq Attachments /\ late \subseteq Attachments
         /\ archive \subseteq Attachments /\ lateArchive \subseteq Attachments
         /\ faults \in 0 .. MaxFaults
  BY DEF InboxInv, TypeInv

LEMMA UploadGoesOn ==
  ASSUME InboxInv, NEW u \in Uploads, NEW a \in Attachments,
         \/ Recover(u, a) \/ Put(u, a) \/ PutTimesOut(u, a) \/ FinalizeFails(u, a)
         \/ UploadDies(u, a)
  PROVE  InboxInv'
  <1>1. CASE Recover(u, a)
    <2>1. CASE a \in staged
      BY <1>1, <2>1, UploadMoves, StoreTyped DEF Recover
    <2>2. CASE a \notin staged
      BY <1>1, <2>2, UploadMoves, StoreTyped DEF Recover
    <2> QED
      BY <2>1, <2>2
  <1>2. CASE Put(u, a)
    BY <1>2, UploadMoves, StoreTyped DEF Put
  <1>3. CASE PutTimesOut(u, a)
    BY <1>3, UploadMoves, StoreTyped, Faulty DEF PutTimesOut, InboxInv
  <1>4. CASE FinalizeFails(u, a)
    BY <1>4, UploadMoves, StoreTyped, Faulty DEF FinalizeFails, InboxInv
  <1>5. CASE UploadDies(u, a)
    BY <1>5, UploadMoves, StoreTyped, Faulty DEF UploadDies, InboxInv
  <1> QED
    BY <1>1, <1>2, <1>3, <1>4, <1>5

LEMMA LatePutLands ==
  ASSUME InboxInv, NEW a \in Attachments, LatePut(a)
  PROVE  InboxInv'
  <1>1. /\ staged \subseteq staged' /\ staged' \subseteq Attachments /\ late' \subseteq Attachments
        /\ faults' \in 0 .. MaxFaults /\ upload' = upload
    BY StoreTyped DEF LatePut
  <1>2. \A v \in Uploads, b \in Attachments :
          /\ upload'[v].a = {b} => row[b].scan # "none"
          /\ Uploading(v, b, "finalize")' => b \in staged' \/ journal[b] # "none"
          /\ Uploading(v, b, "compensate")' => Uploading(v, b, "compensate")
    BY <1>1 DEF InboxInv, KeepInv, Kept, Uploading
  <1>3. UNCHANGED <<batch, due, row, document, archive, journal, archiveJournal, lateArchive,
                    staff, discarding, worker>>
    BY DEF LatePut
  <1>4. upload' \in [Uploads -> {Idle} \cup UploadTyp]
    BY <1>1 DEF InboxInv, TypeInv
  <1> QED
    BY <1>1, <1>2, <1>3, <1>4, UploadQuiet

LEMMA UploadResumed ==
  ASSUME InboxInv, NEW u \in Uploads, NEW a \in Attachments, UploadResume(u, a)
  PROVE  InboxInv'
  <1>1. Begins(u, a) /\ row[a].scan = "PENDING" /\ row' = row
    BY DEF UploadResume, Pending
  <1>2. /\ upload' \in [Uploads -> {Idle} \cup UploadTyp]
        /\ \A v \in Uploads, b \in Attachments :
             /\ upload'[v].a = {b} => upload[v].a = {b} \/ b = a
             /\ \A p \in {"finalize", "compensate"} :
                  Uploading(v, b, p)' => Uploading(v, b, p)
    BY <1>1, UploadBegins DEF InboxInv
  <1>3. UNCHANGED <<batch, due, document, staged, archive, journal, archiveJournal, late,
                    lateArchive, staff, discarding, worker, faults>>
    BY <1>1 DEF Begins, keys
  <1>4. \A v \in Uploads, b \in Attachments :
          /\ upload'[v].a = {b} => row[b].scan # "none"
          /\ Uploading(v, b, "finalize")' => b \in staged' \/ journal[b] # "none"
          /\ Uploading(v, b, "compensate")' => Uploading(v, b, "compensate")
    BY <1>1, <1>2, <1>3 DEF InboxInv, KeepInv, Kept
  <1> QED
    BY <1>1, <1>2, <1>3, <1>4, UploadQuiet, StoreTyped

LEMMA UploadIsNew ==
  ASSUME InboxInv, NEW u \in Uploads, NEW a \in Attachments, UploadNew(u, a)
  PROVE  InboxInv'
  <1>1. Begins(u, a) /\ row[a].scan = "none" /\ Usable /\ batch = "OPEN"
    BY DEF UploadNew, Begins, Usable
  <1>2. /\ row' \in [Attachments -> RowTyp]
        /\ row'[a].scan = "PENDING" /\ row'[a].bound = row[a].bound
        /\ row'[a].decision = row[a].decision
        /\ \A b \in Attachments \ {a} : row'[b] = row[b]
    BY ScanWritten DEF UploadNew, InboxInv
  <1>3. /\ upload' \in [Uploads -> {Idle} \cup UploadTyp]
        /\ \A v \in Uploads, b \in Attachments :
             /\ upload'[v].a = {b} => upload[v].a = {b} \/ b = a
             /\ \A p \in {"finalize", "compensate"} :
                  Uploading(v, b, p)' => Uploading(v, b, p)
    BY <1>1, UploadBegins DEF InboxInv
  <1>4. UNCHANGED <<batch, due, document, staged, archive, journal, archiveJournal, late,
                    lateArchive, staff, discarding, worker, faults>>
    BY <1>1 DEF Begins, keys
  <1>5. TypeInv'
    BY <1>2, <1>3, <1>4 DEF InboxInv, TypeInv
  <1>6. BatchInv'
    BY <1>1, <1>2, <1>4 DEF InboxInv, BatchInv
  <1>7. ASSUME NEW b \in Attachments
        PROVE  Kept(b)'
    <2>1. CASE b = a
      <3>1. \A v \in Uploads, p \in {"finalize", "compensate"} : ~ Uploading(v, a, p)'
        BY <1>1, <1>3 DEF InboxInv, KeepInv, Kept, Uploading
      <3>2. a \notin worker.todo /\ journal[a] = "none"
        BY <1>1 DEF InboxInv, KeepInv, Kept
      <3> QED
        BY <1>2, <1>4, <2>1, <3>1, <3>2 DEF Kept, Undecided
    <2>2. CASE b # a
      BY <1>2, <1>3, <1>4, <2>2
      DEF InboxInv, KeepInv, Kept, Undecided, Usable, Pending
    <2> QED
      BY <2>1, <2>2
  <1>8. DecideInv' /\ LockInv'
    <2>1. \A b \in Attachments : /\ row'[b].decision = row[b].decision
                                 /\ Open(b) => Open(b)'
      BY <1>1, <1>2 DEF Open, Undecided
    <2> QED
      BY <1>4, <2>1, DecideKept DEF InboxInv
  <1> QED
    BY <1>5, <1>6, <1>7, <1>8 DEF InboxInv, KeepInv

(* An upload is finalised only while its batch is open, and then the bytes  *)
(* it has found are still there.                                            *)
LEMMA UploadFinalized ==
  ASSUME InboxInv, NEW u \in Uploads, NEW a \in Attachments, FinalizeUpload(u, a)
  PROVE  InboxInv'
  <1> DEFINE pc == IF Finalizable(a) \/ AlreadyClean(a) THEN "idle" ELSE "compensate"
  <1>1. Uploading(u, a, "finalize") /\ UploadGoes(u, a, pc)
    BY DEF FinalizeUpload, UploadGoes, Uploading
  <1>2. PICK p \in {"idle", "compensate"} : p = pc
    OBVIOUS
  <1>3. /\ upload' \in [Uploads -> {Idle} \cup UploadTyp]
        /\ \A v \in Uploads, b \in Attachments :
             /\ upload'[v].a = {b} => upload[v].a = {b}
             /\ \A q \in {"finalize", "compensate"} :
                  Uploading(v, b, q)' => Uploading(v, b, q) \/ (b = a /\ q = p)
    BY <1>1, <1>2, UploadGoing DEF InboxInv
  <1>4. UNCHANGED <<batch, due, document, staged, archive, journal, archiveJournal, late,
                    lateArchive, staff, discarding, worker, faults>>
    BY DEF FinalizeUpload, UploadGoes
  <1>5. row[a].decision # "PENDING_REVIEW" => row[a].scan = "CLEAN"
    BY DEF InboxInv, BatchInv
  <1>6. CASE Finalizable(a)
    <2>1. p = "idle" /\ batch = "OPEN" /\ row[a].scan = "PENDING" /\ row[a].bound = FALSE
          /\ Usable /\ a \in staged /\ journal[a] = "none"
      BY <1>1, <1>2, <1>6, RowFacts
      DEF Finalizable, Usable, Pending, InboxInv, BatchInv, KeepInv, Kept
    <2>2. /\ row' \in [Attachments -> RowTyp]
          /\ row'[a].scan = "CLEAN" /\ row'[a].bound = row[a].bound
          /\ row'[a].decision = row[a].decision
          /\ \A b \in Attachments \ {a} : row'[b] = row[b]
      BY <1>6, ScanWritten DEF FinalizeUpload, InboxInv
    <2>3. TypeInv'
      BY <1>3, <1>4, <2>2 DEF InboxInv, TypeInv
    <2>4. BatchInv'
      BY <1>4, <2>1, <2>2 DEF InboxInv, BatchInv
    <2>5. ASSUME NEW b \in Attachments
          PROVE  Kept(b)'
      <3>1. CASE b = a
        BY <1>3, <1>4, <2>1, <2>2, <3>1
        DEF InboxInv, KeepInv, Kept, Undecided, Usable, Pending
      <3>2. CASE b # a
        BY <1>3, <1>4, <2>2, <3>2
        DEF InboxInv, KeepInv, Kept, Undecided, Usable, Pending
      <3> QED
        BY <3>1, <3>2
    <2>6. \A b \in Attachments : /\ row'[b].decision = row[b].decision
                                 /\ Open(b) => Open(b)'
      BY <2>1, <2>2 DEF Open, Undecided
    <2>7. DecideInv' /\ LockInv'
      BY <1>4, <2>6, DecideKept DEF InboxInv
    <2> QED
      BY <2>3, <2>4, <2>5, <2>7 DEF InboxInv, KeepInv
  <1>7. CASE ~ Finalizable(a)
    <2>1. row' = row
      BY <1>7 DEF FinalizeUpload
    <2>2. p = "compensate" => ~ Undecided(a) /\ ~ (Usable /\ Pending(a))
      BY <1>2, <1>5, <1>7 DEF AlreadyClean, Finalizable, Pending
    <2>3. TypeInv'
      BY <1>3, <1>4, <2>1 DEF InboxInv, TypeInv
    <2>4. BatchInv'
      BY <1>4, <2>1 DEF InboxInv, BatchInv
    <2>5. ASSUME NEW b \in Attachments
          PROVE  Kept(b)'
      BY <1>2, <1>3, <1>4, <2>1, <2>2
      DEF InboxInv, KeepInv, Kept, Undecided, Usable, Pending
    <2>6. DecideInv' /\ LockInv'
      BY <1>4, <2>1, DecideKept DEF InboxInv, Open, Undecided
    <2> QED
      BY <2>3, <2>4, <2>5, <2>6 DEF InboxInv, KeepInv
  <1> QED
    BY <1>6, <1>7

LEMMA UploadCompensated ==
  ASSUME InboxInv, NEW u \in Uploads, NEW a \in Attachments, CompensateUpload(u, a)
  PROVE  InboxInv'
  <1>1. Uploading(u, a, "compensate") /\ UploadGoes(u, a, "idle") /\ row' = row
    BY DEF CompensateUpload, UploadGoes, Uploading
  <1>2. /\ upload' \in [Uploads -> {Idle} \cup UploadTyp]
        /\ \A v \in Uploads, b \in Attachments :
             /\ upload'[v].a = {b} => upload[v].a = {b}
             /\ \A q \in {"finalize", "compensate"} :
                  Uploading(v, b, q)' => Uploading(v, b, q)
    BY <1>1, UploadGoing DEF InboxInv
  <1>3. UNCHANGED <<batch, due, document, staged, archive, archiveJournal, late,
                    lateArchive, staff, discarding, worker, faults>>
    BY DEF CompensateUpload, UploadGoes
  <1>4. /\ journal' \in [Attachments -> {"none", "open", "closed"}] /\ journal'[a] = "open"
        /\ \A b \in Attachments \ {a} : journal'[b] = journal[b]
    BY JournalWritten DEF CompensateUpload, InboxInv
  <1>5. ~ Undecided(a) /\ ~ (Usable /\ Pending(a)) /\ row[a].scan # "none"
    BY <1>1 DEF InboxInv, KeepInv, Kept, Uploading
  <1>6. TypeInv'
    BY <1>1, <1>2, <1>3, <1>4 DEF InboxInv, TypeInv
  <1>7. BatchInv'
    BY <1>1, <1>3 DEF InboxInv, BatchInv
  <1>8. ASSUME NEW b \in Attachments
        PROVE  Kept(b)'
    <2>1. CASE b = a
      BY <1>1, <1>2, <1>3, <1>4, <1>5, <2>1
      DEF InboxInv, KeepInv, Kept, Undecided, Usable, Pending
    <2>2. CASE b # a
      BY <1>1, <1>2, <1>3, <1>4, <2>2
      DEF InboxInv, KeepInv, Kept, Undecided, Usable, Pending
    <2> QED
      BY <2>1, <2>2
  <1>9. DecideInv' /\ LockInv'
    BY <1>1, <1>3, DecideKept DEF InboxInv, Open, Undecided
  <1> QED
    BY <1>6, <1>7, <1>8, <1>9 DEF InboxInv, KeepInv

-----------------------------------------------------------------------------
(* Acceptances                                                              *)

StaffSets(s, a, pc, x) ==
  /\ x \in {Idle} \cup AcceptTyp /\ x.pc = pc /\ (x = Idle \/ x.a = {a})
  /\ staff' = [staff EXCEPT ![s] = x]

LEMMA StaffSet ==
  ASSUME TypeInv, NEW s \in Staff, NEW a \in Attachments, NEW x, NEW pc, StaffSets(s, a, pc, x)
  PROVE  /\ staff' \in [Staff -> {Idle} \cup AcceptTyp] /\ staff'[s].pc = pc
         /\ \A t \in Staff, b \in Attachments : \A p \in {"storing", "deciding", "compensating"} :
              Accepting(t, b, p)' => Accepting(t, b, p) \/ (t = s /\ b = a /\ p = pc)
  <1>1. /\ staff' \in [Staff -> {Idle} \cup AcceptTyp] /\ staff'[s] = x
        /\ \A t \in Staff \ {s} : staff'[t] = staff[t]
    BY DEF TypeInv, StaffSets
  <1>2. ASSUME NEW t \in Staff, NEW b \in Attachments,
               NEW p \in {"storing", "deciding", "compensating"}, Accepting(t, b, p)'
        PROVE  Accepting(t, b, p) \/ (t = s /\ b = a /\ p = pc)
    <2>1. CASE t = s
      <3>1. x.a = {b} /\ x.pc = p
        BY <1>1, <1>2, <2>1 DEF Accepting
      <3>2. x # Idle
        BY <3>1, IdleFacts, FileFacts
      <3> QED
        BY <2>1, <3>1, <3>2, FileFacts DEF StaffSets
    <2>2. CASE t # s
      BY <1>1, <1>2, <2>2 DEF Accepting
    <2> QED
      BY <2>1, <2>2
  <1> QED
    BY <1>1, <1>2 DEF StaffSets

LEMMA StaffGoing ==
  ASSUME TypeInv, NEW s \in Staff, NEW a \in Attachments,
         NEW pc \in {"idle", "reserving", "ready", "storing", "deciding", "compensating"},
         StaffGoes(s, a, pc)
  PROVE  /\ staff' \in [Staff -> {Idle} \cup AcceptTyp] /\ staff'[s].pc = pc
         /\ \A t \in Staff, b \in Attachments : \A p \in {"storing", "deciding", "compensating"} :
              Accepting(t, b, p)' => Accepting(t, b, p) \/ (t = s /\ b = a /\ p = pc)
  <1>1. staff[s] \in AcceptTyp
    BY IdleFacts, FileFacts DEF TypeInv, StaffGoes
  <1> DEFINE x == IF pc = "idle" THEN Idle ELSE [staff[s] EXCEPT !.pc = pc]
  <1>2. x \in {Idle} \cup AcceptTyp /\ x.pc = pc /\ (x = Idle \/ x.a = {a})
    BY <1>1, IdleFacts DEF AcceptTyp, StaffGoes
  <1>3. staff' = [staff EXCEPT ![s] = x]
    BY DEF StaffGoes
  <1> HIDE DEF x
  <1>4. PICK y : StaffSets(s, a, pc, y)
    BY <1>2, <1>3 DEF StaffSets
  <1> QED
    BY <1>4, StaffSet

(* Steps of acceptances that decide and journal nothing: an attachment may  *)
(* be reserved, and a reserved one stored.                                  *)
LEMMA StaffMoves ==
  ASSUME InboxInv, NEW s \in Staff, NEW a \in Attachments, NEW pc,
         UNCHANGED <<batch, due, row, staged, journal, archiveJournal, late, upload,
                     discarding, worker>>,
         staff' \in [Staff -> {Idle} \cup AcceptTyp],
         \A t \in Staff, b \in Attachments : \A p \in {"storing", "deciding", "compensating"} :
           Accepting(t, b, p)' => Accepting(t, b, p) \/ (t = s /\ b = a /\ p = pc),
         document' \in [Attachments -> {"none", "reserved", "shared"}],
         \A b \in Attachments :
           \/ document'[b] = document[b]
           \/ document[b] = "none" /\ document'[b] = "reserved" /\ Open(b),
         archive' \subseteq Attachments, lateArchive' \subseteq Attachments,
         archive \subseteq archive',
         \A b \in archive' \cup lateArchive' :
           b \in archive \cup lateArchive \/ document[b] = "reserved",
         pc # "compensating",
         pc = "storing" => document'[a] = "reserved" /\ ~ Locked(a),
         pc = "deciding" => document'[a] = "reserved" /\ a \in archive' /\ Holds(s, a),
         faults' \in 0 .. MaxFaults
  PROVE  InboxInv'
  <1>1. TypeInv'
    BY DEF InboxInv, TypeInv
  <1>2. BatchInv'
    BY DEF InboxInv, BatchInv
  <1>3. KeepInv'
    BY DEF InboxInv, KeepInv, Kept, Undecided, Usable, Pending, Uploading
  <1>4. ASSUME NEW b \in Attachments
        PROVE  /\ row'[b].decision = "ACCEPTED" <=> document'[b] = "shared"
               /\ document'[b] = "reserved" => Open(b)'
               /\ document'[b] = "shared" => b \in archive'
               /\ archiveJournal'[b] # "none" => row'[b].decision = "REJECTED"
               /\ b \in archive' \cup lateArchive' =>
                    document'[b] # "none" \/ archiveJournal'[b] = "open"
    BY DEF InboxInv, DecideInv, Open, Undecided
  <1>5. ASSUME NEW b \in Attachments, NEW t \in Staff
        PROVE  /\ Accepting(t, b, "storing")' => document'[b] = "reserved"
               /\ Accepting(t, b, "deciding")' => document'[b] = "reserved" /\ b \in archive'
               /\ Accepting(t, b, "compensating")' => row'[b].decision = "ACCEPTED"
    BY DEF InboxInv, DecideInv
  <1>6. DecideInv'
    BY <1>4, <1>5 DEF DecideInv
  <1>7. ASSUME NEW b \in Attachments, NEW t \in Staff, Holds(t, b)'
        PROVE  Holds(t, b) \/ (t = s /\ b = a /\ ~ Locked(a))
    <2>1. PICK p \in {"storing", "deciding"} : Accepting(t, b, p)'
      BY <1>7 DEF Holds, Accepting
    <2>2. Accepting(t, b, p) \/ (t = s /\ b = a /\ p = pc)
      BY <2>1
    <2> QED
      BY <2>1, <2>2 DEF Holds, Accepting
  <1>8. \A t \in Staff : Holds(t, a) => Locked(a)
    BY DEF Holds, Locked
  <1>9. LockInv'
    <2> SUFFICES ASSUME NEW b \in Attachments, NEW t \in Staff, NEW r \in Staff,
                        Holds(t, b)', Holds(r, b)'
                 PROVE  t = r
      BY DEF LockInv
    <2> QED
      BY <1>7, <1>8 DEF InboxInv, LockInv
  <1> QED
    BY <1>1, <1>2, <1>3, <1>6, <1>9 DEF InboxInv

\* What a step of an acceptance leaves alone.
LEMMA StaffLeaves ==
  ASSUME NEW s \in Staff, NEW a \in Attachments, NEW pc, StaffGoes(s, a, pc)
  PROVE  UNCHANGED <<batch, due, staged, archiveJournal, late, upload, discarding, worker>>
  BY DEF StaffGoes

\* One that stores nothing and reserves nothing.
LEMMA StaffPasses ==
  ASSUME InboxInv, NEW s \in Staff, NEW a \in Attachments,
         NEW pc \in {"idle", "reserving", "ready", "storing"}, StaffGoes(s, a, pc),
         UNCHANGED <<row, document, archive, journal, lateArchive>>, faults' \in 0 .. MaxFaults,
         pc = "storing" => document[a] = "reserved" /\ ~ Locked(a)
  PROVE  InboxInv'
  <1>1. /\ staff' \in [Staff -> {Idle} \cup AcceptTyp]
        /\ \A t \in Staff, b \in Attachments :
             \A p \in {"storing", "deciding", "compensating"} :
               Accepting(t, b, p)' => Accepting(t, b, p) \/ (t = s /\ b = a /\ p = pc)
    BY StaffGoing DEF InboxInv
  <1>2. UNCHANGED <<batch, due, row, staged, journal, archiveJournal, late, upload,
                    discarding, worker>>
    BY StaffLeaves
  <1>3. document' \in [Attachments -> {"none", "reserved", "shared"}]
    BY DEF InboxInv, TypeInv
  <1>4. archive' \subseteq Attachments /\ lateArchive' \subseteq Attachments
    BY StoreTyped
  <1> QED
    BY <1>1, <1>2, <1>3, <1>4, StaffMoves

LEMMA AcceptanceLoads ==
  ASSUME InboxInv, NEW s \in Staff, NEW a \in Attachments, AcceptLoads(s, a)
  PROVE  InboxInv'
  <1> DEFINE x == [pc |-> IF document[a] = "none" THEN "reading" ELSE "resuming",
                   a |-> {a}, fresh |-> document[a] = "none"]
  <1>1. x \in AcceptTyp /\ x.a = {a} /\ x.pc \in {"reading", "resuming"}
    BY FileFacts DEF AcceptTyp
  <1>2. staff' = [staff EXCEPT ![s] = x]
    BY DEF AcceptLoads
  <1> HIDE DEF x
  <1>3. PICK pc \in {"reading", "resuming"} : \E y : StaffSets(s, a, pc, y)
    BY <1>1, <1>2 DEF StaffSets
  <1>4. /\ staff' \in [Staff -> {Idle} \cup AcceptTyp]
        /\ \A t \in Staff, b \in Attachments :
             \A p \in {"storing", "deciding", "compensating"} :
               Accepting(t, b, p)' => Accepting(t, b, p) \/ (t = s /\ b = a /\ p = pc)
    BY <1>3, StaffSet DEF InboxInv
  <1>5. UNCHANGED <<batch, due, row, document, staged, archive, journal, archiveJournal, late,
                    lateArchive, upload, discarding, worker, faults>>
    BY DEF AcceptLoads, keys
  <1>6. document' \in [Attachments -> {"none", "reserved", "shared"}]
    BY <1>5 DEF InboxInv, TypeInv
  <1> QED
    BY <1>3, <1>4, <1>5, <1>6, StoreTyped, StaffMoves

LEMMA AcceptancePasses ==
  ASSUME InboxInv, NEW s \in Staff, NEW a \in Attachments,
         AcceptReads(s, a) \/ AcceptResumes(s, a) \/ AcceptLocks(s, a) \/ AcceptDies(s, a)
  PROVE  InboxInv'
  <1>1. faults \in 0 .. MaxFaults
    BY StoreTyped
  <1>2. CASE AcceptReads(s, a)
    <2>1. PICK pc \in {"idle", "reserving"} : StaffGoes(s, a, pc)
      BY <1>2 DEF AcceptReads
    <2> QED
      BY <1>1, <1>2, <2>1, StaffPasses DEF AcceptReads
  <1>3. CASE AcceptResumes(s, a)
    <2>1. PICK pc \in {"idle", "ready"} : StaffGoes(s, a, pc)
      BY <1>3 DEF AcceptResumes
    <2> QED
      BY <1>1, <1>3, <2>1, StaffPasses DEF AcceptResumes
  <1>4. CASE AcceptLocks(s, a)
    <2>1. PICK pc \in {"idle", "storing"} :
            StaffGoes(s, a, pc) /\ (pc = "storing" => document[a] = "reserved")
      BY <1>4 DEF AcceptLocks, Guard
    <2> QED
      BY <1>1, <1>4, <2>1, StaffPasses DEF AcceptLocks
  <1>5. CASE AcceptDies(s, a)
    <2>1. StaffGoes(s, a, "idle") /\ faults' \in 0 .. MaxFaults
      BY <1>5, Faulty DEF AcceptDies, InboxInv
    <2> QED
      BY <1>5, <2>1, StaffPasses DEF AcceptDies
  <1> QED
    BY <1>2, <1>3, <1>4, <1>5

LEMMA AcceptanceReserves ==
  ASSUME InboxInv, NEW s \in Staff, NEW a \in Attachments, AcceptReserves(s, a)
  PROVE  InboxInv'
  <1>1. CASE ~ Guard(a, "none")
    <2>1. StaffGoes(s, a, "idle") /\ document' = document
      BY <1>1 DEF AcceptReserves
    <2> QED
      BY <2>1, StaffPasses, StoreTyped DEF AcceptReserves
  <1>2. CASE Guard(a, "none")
    <2>1. /\ StaffGoes(s, a, "ready") /\ document' = [document EXCEPT ![a] = "reserved"]
          /\ UNCHANGED <<row, archive, journal, lateArchive, faults>>
      BY <1>2 DEF AcceptReserves
    <2>2. document[a] = "none" /\ Open(a)
      BY <1>2 DEF Guard
    <2>3. /\ document' \in [Attachments -> {"none", "reserved", "shared"}]
          /\ \A b \in Attachments :
               \/ document'[b] = document[b]
               \/ document[b] = "none" /\ document'[b] = "reserved" /\ Open(b)
      BY <2>1, <2>2 DEF InboxInv, TypeInv
    <2>4. /\ staff' \in [Staff -> {Idle} \cup AcceptTyp]
          /\ \A t \in Staff, b \in Attachments :
               \A p \in {"storing", "deciding", "compensating"} :
                 Accepting(t, b, p)' => Accepting(t, b, p) \/ (t = s /\ b = a /\ p = "ready")
      BY <2>1, StaffGoing DEF InboxInv
    <2>5. UNCHANGED <<batch, due, row, staged, journal, archiveJournal, late, upload,
                      discarding, worker>>
      BY <2>1, StaffLeaves
    <2> QED
      BY <2>1, <2>3, <2>4, <2>5, StoreTyped, StaffMoves, SMTT(30)
  <1> QED
    BY <1>1, <1>2

(* What is stored in the archive belongs to the reservation, whether the    *)
(* acceptance sees the PUT through or breaks off while it is under way.     *)
LEMMA AcceptanceStores ==
  ASSUME InboxInv, NEW s \in Staff, NEW a \in Attachments,
         AcceptStores(s, a) \/ AcceptTimesOut(s, a)
  PROVE  InboxInv'
  <1>1. /\ Accepting(s, a, "storing") /\ Holds(s, a) /\ document[a] = "reserved"
    <2>1. Accepting(s, a, "storing")
      BY DEF AcceptStores, AcceptTimesOut, StaffGoes, Accepting
    <2> QED
      BY <2>1 DEF InboxInv, DecideInv, Accepting, Holds
  <1>2. document' = document /\ document \in [Attachments -> {"none", "reserved", "shared"}]
    BY DEF AcceptStores, AcceptTimesOut, InboxInv, TypeInv
  <1>3. PICK pc \in {"idle", "deciding"} :
          StaffGoes(s, a, pc) /\ (pc = "deciding" => a \in archive')
    BY DEF AcceptStores, AcceptTimesOut
  <1>4. /\ staff' \in [Staff -> {Idle} \cup AcceptTyp]
        /\ \A t \in Staff, b \in Attachments :
             \A p \in {"storing", "deciding", "compensating"} :
               Accepting(t, b, p)' => Accepting(t, b, p) \/ (t = s /\ b = a /\ p = pc)
    BY <1>3, StaffGoing DEF InboxInv
  <1>5. UNCHANGED <<batch, due, row, staged, journal, archiveJournal, late, upload,
                    discarding, worker>>
    BY <1>3, StaffLeaves DEF AcceptStores, AcceptTimesOut
  <1>6. /\ archive \subseteq archive'
        /\ archive' \subseteq archive \cup {a} /\ lateArchive' \subseteq lateArchive \cup {a}
    BY DEF AcceptStores, AcceptTimesOut
  <1>7. /\ archive' \subseteq Attachments /\ lateArchive' \subseteq Attachments
        /\ \A b \in archive' \cup lateArchive' :
             b \in archive \cup lateArchive \/ document[b] = "reserved"
    BY <1>1, <1>6, StoreTyped
  <1>8. faults' \in 0 .. MaxFaults
    BY StoreTyped, Faulty DEF AcceptStores, AcceptTimesOut, InboxInv
  <1> QED
    BY <1>1, <1>2, <1>3, <1>4, <1>5, <1>6, <1>7, <1>8, StaffMoves

-----------------------------------------------------------------------------
(* Decisions                                                                *)

(* A decision on an attachment asks nothing more of its staged bytes.       *)
LEMMA DecisionKeeps ==
  ASSUME InboxInv, NEW a \in Attachments, Open(a), NEW decision \in {"ACCEPTED", "REJECTED"},
         row' = [row EXCEPT ![a].decision = decision],
         UNCHANGED <<batch, due, staged, journal, discarding, worker, upload>>
  PROVE  BatchInv' /\ KeepInv'
  <1>1. /\ row'[a].decision = decision /\ row'[a].bound = row[a].bound
        /\ row'[a].scan = row[a].scan
        /\ \A b \in Attachments \ {a} : row'[b] = row[b]
    BY DecisionWritten DEF InboxInv
  <1>2. row[a].bound /\ row[a].scan = "CLEAN"
    BY DEF Open, Undecided
  <1>3. BatchInv'
    BY <1>1, <1>2 DEF InboxInv, BatchInv
  <1>4. ASSUME NEW b \in Attachments
        PROVE  Kept(b)'
    <2>1. CASE b = a
      BY <1>1, <1>2, <2>1
      DEF InboxInv, KeepInv, Kept, Undecided, Usable, Pending, Uploading
    <2>2. CASE b # a
      BY <1>1, <2>2
      DEF InboxInv, KeepInv, Kept, Undecided, Usable, Pending, Uploading
    <2> QED
      BY <2>1, <2>2
  <1> QED
    BY <1>3, <1>4 DEF KeepInv

(* The lock makes this acceptance the only one that may go on.              *)
LEMMA AcceptanceDecides ==
  ASSUME InboxInv, NEW s \in Staff, NEW a \in Attachments, AcceptDecides(s, a)
  PROVE  InboxInv'
  <1>1. /\ Accepting(s, a, "deciding") /\ StaffGoes(s, a, "compensating")
        /\ row' = [row EXCEPT ![a].decision = "ACCEPTED"]
        /\ document' = [document EXCEPT ![a] = "shared"]
        /\ UNCHANGED <<archive, journal, lateArchive, faults>>
    BY DEF AcceptDecides, StaffGoes, Accepting
  <1>2. UNCHANGED <<batch, due, staged, archiveJournal, late, upload, discarding, worker>>
    BY <1>1, StaffLeaves
  <1>3. document[a] = "reserved" /\ a \in archive /\ Open(a)
    BY <1>1 DEF InboxInv, DecideInv
  <1>4. /\ row' \in [Attachments -> RowTyp]
        /\ row'[a].decision = "ACCEPTED" /\ row'[a].bound = row[a].bound
        /\ row'[a].scan = row[a].scan
        /\ \A b \in Attachments \ {a} : row'[b] = row[b]
    BY <1>1, DecisionWritten DEF InboxInv
  <1>5. /\ document' \in [Attachments -> {"none", "reserved", "shared"}]
        /\ document'[a] = "shared" /\ \A b \in Attachments \ {a} : document'[b] = document[b]
    BY <1>1 DEF InboxInv, TypeInv
  <1>6. /\ staff' \in [Staff -> {Idle} \cup AcceptTyp] /\ staff'[s].pc = "compensating"
        /\ \A t \in Staff, b \in Attachments :
             \A p \in {"storing", "deciding", "compensating"} :
               Accepting(t, b, p)' =>
                 Accepting(t, b, p) \/ (t = s /\ b = a /\ p = "compensating")
    BY <1>1, StaffGoing DEF InboxInv
  <1>7. TypeInv'
    BY <1>1, <1>2, <1>4, <1>5, <1>6 DEF InboxInv, TypeInv
  <1>8. BatchInv' /\ KeepInv'
    BY <1>1, <1>2, <1>3, DecisionKeeps
  <1>9. \A t \in Staff, b \in Attachments : Holds(t, b)' => Holds(t, b)
    BY <1>6 DEF Holds, Accepting
  <1>10. \A t \in Staff : ~ Holds(t, a)'
    <2> SUFFICES ASSUME NEW t \in Staff, Holds(t, a)'
                 PROVE  FALSE
      OBVIOUS
    <2>1. Holds(t, a) /\ Holds(s, a)
      BY <1>1, <1>9 DEF Holds, Accepting
    <2>2. t = s
      BY <2>1 DEF InboxInv, LockInv
    <2> QED
      BY <1>6, <2>2 DEF Holds
  <1>11. ASSUME NEW b \in Attachments
         PROVE  /\ row'[b].decision = "ACCEPTED" <=> document'[b] = "shared"
                /\ document'[b] = "reserved" => Open(b)'
                /\ document'[b] = "shared" => b \in archive'
                /\ archiveJournal'[b] # "none" => row'[b].decision = "REJECTED"
                /\ b \in archive' \cup lateArchive' =>
                     document'[b] # "none" \/ archiveJournal'[b] = "open"
    BY <1>1, <1>2, <1>3, <1>4, <1>5 DEF InboxInv, DecideInv, Open, Undecided
  <1>12. ASSUME NEW b \in Attachments, NEW t \in Staff
         PROVE  /\ Accepting(t, b, "storing")' => document'[b] = "reserved"
                /\ Accepting(t, b, "deciding")' => document'[b] = "reserved" /\ b \in archive'
                /\ Accepting(t, b, "compensating")' => row'[b].decision = "ACCEPTED"
    <2>1. CASE b = a
      <3>1. ~ Accepting(t, a, "storing")' /\ ~ Accepting(t, a, "deciding")'
        BY <1>10 DEF Holds, Accepting
      <3> QED
        BY <1>4, <2>1, <3>1
    <2>2. CASE b # a
      BY <1>1, <1>4, <1>5, <1>6, <2>2 DEF InboxInv, DecideInv
    <2> QED
      BY <2>1, <2>2
  <1>13. DecideInv' /\ LockInv'
    <2>1. DecideInv'
      BY <1>11, <1>12 DEF DecideInv
    <2>2. LockInv'
      BY <1>9 DEF InboxInv, LockInv
    <2> QED
      BY <2>1, <2>2
  <1> QED
    BY <1>7, <1>8, <1>13 DEF InboxInv

LEMMA AcceptanceCompensates ==
  ASSUME InboxInv, NEW s \in Staff, NEW a \in Attachments, AcceptCompensates(s, a)
  PROVE  InboxInv'
  <1>1. /\ Accepting(s, a, "compensating") /\ StaffGoes(s, a, "idle") /\ Journaled(a)
        /\ UNCHANGED <<row, document, archive, lateArchive, faults>>
    BY DEF AcceptCompensates, StaffGoes, Accepting
  <1>2. UNCHANGED <<batch, due, staged, archiveJournal, late, upload, discarding, worker>>
    BY <1>1, StaffLeaves
  <1>3. row[a].decision = "ACCEPTED" /\ row[a].scan = "CLEAN"
    BY <1>1 DEF InboxInv, DecideInv, BatchInv
  <1>4. /\ staff' \in [Staff -> {Idle} \cup AcceptTyp]
        /\ \A t \in Staff, b \in Attachments :
             \A p \in {"storing", "deciding", "compensating"} :
               Accepting(t, b, p)' => Accepting(t, b, p) \/ (t = s /\ b = a /\ p = "idle")
    BY <1>1, StaffGoing DEF InboxInv
  <1>5. /\ journal' \in [Attachments -> {"none", "open", "closed"}] /\ journal'[a] = "open"
        /\ \A b \in Attachments \ {a} : journal'[b] = journal[b]
    BY <1>1, JournalWritten DEF InboxInv
  <1>6. TypeInv'
    BY <1>1, <1>2, <1>4, <1>5 DEF InboxInv, TypeInv
  <1>7. BatchInv'
    BY <1>1, <1>2 DEF InboxInv, BatchInv
  <1>8. ASSUME NEW b \in Attachments
        PROVE  Kept(b)'
    <2>1. CASE b = a
      BY <1>1, <1>2, <1>3, <1>5, <2>1
      DEF InboxInv, KeepInv, Kept, Undecided, Usable, Pending, Uploading
    <2>2. CASE b # a
      BY <1>1, <1>2, <1>5, <2>2
      DEF InboxInv, KeepInv, Kept, Undecided, Usable, Pending, Uploading
    <2> QED
      BY <2>1, <2>2
  <1>9. DecideInv'
    BY <1>1, <1>2, <1>4 DEF InboxInv, DecideInv, Open, Undecided
  <1>10. \A t \in Staff, b \in Attachments : Holds(t, b)' => Holds(t, b)
    BY <1>4 DEF Holds, Accepting
  <1>11. LockInv'
    BY <1>10 DEF InboxInv, LockInv
  <1> QED
    BY <1>6, <1>7, <1>8, <1>9, <1>11 DEF InboxInv, KeepInv

(* A rejection waits for the lock, and takes the reservation away with what *)
(* the archive may hold of it.                                              *)
LEMMA Rejected ==
  ASSUME InboxInv, NEW a \in Attachments, Reject(a)
  PROVE  InboxInv'
  <1>1. /\ Open(a) /\ ~ Locked(a) /\ row' = [row EXCEPT ![a].decision = "REJECTED"]
        /\ document' = [document EXCEPT ![a] = "none"]
        /\ UNCHANGED <<batch, due, staged, archive, journal, late, lateArchive,
                       upload, staff, discarding, worker, faults>>
    BY DEF Reject
  <1>2. /\ row' \in [Attachments -> RowTyp]
        /\ row'[a].decision = "REJECTED" /\ row'[a].bound = row[a].bound
        /\ row'[a].scan = row[a].scan
        /\ \A b \in Attachments \ {a} : row'[b] = row[b]
    BY <1>1, DecisionWritten DEF InboxInv
  <1>3. /\ document' \in [Attachments -> {"none", "reserved", "shared"}]
        /\ document'[a] = "none" /\ \A b \in Attachments \ {a} : document'[b] = document[b]
    BY <1>1 DEF InboxInv, TypeInv
  <1>4. /\ archiveJournal' \in [Attachments -> {"none", "open", "closed"}]
        /\ document[a] = "reserved" => archiveJournal'[a] = "open"
        /\ \A b \in Attachments \ {a} : archiveJournal'[b] = archiveJournal[b]
    BY DEF Reject, ReservationJournaled, InboxInv, TypeInv
  <1>5. a \in archive \cup lateArchive => archiveJournal'[a] = "open"
    <2>1. archiveJournal[a] = "none"
      BY <1>1 DEF InboxInv, DecideInv, Open, Undecided
    <2>2. a \in archive \cup lateArchive => document[a] = "reserved"
      BY <1>1, <2>1 DEF InboxInv, DecideInv, TypeInv, Open, Undecided
    <2> QED
      BY <1>4, <2>2
  <1>6. TypeInv'
    BY <1>1, <1>2, <1>3, <1>4 DEF InboxInv, TypeInv
  <1>7. BatchInv' /\ KeepInv'
    BY <1>1, DecisionKeeps
  <1>8. ASSUME NEW b \in Attachments
        PROVE  /\ row'[b].decision = "ACCEPTED" <=> document'[b] = "shared"
               /\ document'[b] = "reserved" => Open(b)'
               /\ document'[b] = "shared" => b \in archive'
               /\ archiveJournal'[b] # "none" => row'[b].decision = "REJECTED"
               /\ b \in archive' \cup lateArchive' =>
                    document'[b] # "none" \/ archiveJournal'[b] = "open"
    <2>1. CASE b = a
      BY <1>1, <1>2, <1>3, <1>5, <2>1
    <2>2. CASE b # a
      BY <1>1, <1>2, <1>3, <1>4, <2>2 DEF InboxInv, DecideInv, Open, Undecided
    <2> QED
      BY <2>1, <2>2
  <1>9. ASSUME NEW b \in Attachments, NEW t \in Staff
        PROVE  /\ Accepting(t, b, "storing")' => document'[b] = "reserved"
               /\ Accepting(t, b, "deciding")' => document'[b] = "reserved" /\ b \in archive'
               /\ Accepting(t, b, "compensating")' => row'[b].decision = "ACCEPTED"
    <2>1. \A p \in {"storing", "deciding", "compensating"} :
            Accepting(t, b, p)' <=> Accepting(t, b, p)
      BY <1>1 DEF Accepting
    <2>2. CASE b = a
      <3>1. ~ Accepting(t, a, "storing") /\ ~ Accepting(t, a, "deciding")
        BY <1>1 DEF Accepting, Locked
      <3>2. ~ Accepting(t, a, "compensating")
        BY <1>1 DEF InboxInv, DecideInv, Open, Undecided
      <3> QED
        BY <2>1, <2>2, <3>1, <3>2
    <2>3. CASE b # a
      BY <1>1, <1>2, <1>3, <2>1, <2>3 DEF InboxInv, DecideInv
    <2> QED
      BY <2>2, <2>3
  <1>10. DecideInv'
    BY <1>8, <1>9 DEF DecideInv
  <1>11. LockInv'
    BY <1>1 DEF InboxInv, LockInv, Holds
  <1> QED
    BY <1>6, <1>7, <1>10, <1>11 DEF InboxInv

-----------------------------------------------------------------------------
(* The contact's batch                                                      *)

(* No attachment is bound or decided while its batch is open.               *)
LEMMA OpenBatch ==
  ASSUME InboxInv, batch = "OPEN"
  PROVE  /\ \A a \in Attachments : /\ row[a].bound = FALSE /\ row[a].scan # "removed"
                                   /\ row[a].decision = "PENDING_REVIEW"
                                   /\ ~ Open(a)
         /\ discarding = {} /\ worker.todo = {}
  <1>1. \A a \in Attachments : /\ row[a].bound = FALSE /\ row[a].scan # "removed"
                               /\ row[a].decision = "PENDING_REVIEW"
                               /\ ~ Open(a)
    BY RowFacts DEF InboxInv, BatchInv, Open
  <1>2. discarding \subseteq Attachments /\ worker.todo \subseteq Attachments
    BY DEF InboxInv, TypeInv
  <1> QED
    BY <1>1, <1>2 DEF InboxInv, BatchInv, KeepInv, Kept

LEMMA Submitted == ASSUME InboxInv, Submit PROVE InboxInv'
  <1>1. /\ Usable /\ Submittable /\ batch = "OPEN" /\ batch' = "CONSUMED"
        /\ UNCHANGED <<due, document, staged, archive, journal, archiveJournal, late,
                       lateArchive, upload, staff, discarding, worker, faults>>
    BY DEF Submit, Usable, keys
  <1>2. ASSUME NEW a \in Attachments
        PROVE  /\ row'[a] \in RowTyp
               /\ row'[a].scan = row[a].scan /\ row'[a].decision = row[a].decision
               /\ row[a].scan # "none" => row'[a].bound /\ Undecided(a)
               /\ row[a].scan = "none" => row'[a].bound = FALSE
    <2>1. row[a] \in RowTyp /\ row[a].scan \in {"none", "PENDING", "CLEAN", "removed"}
      BY RowFacts DEF InboxInv
    <2>2. row[a].scan # "removed" /\ row[a].bound = FALSE
      BY <1>1, OpenBatch
    <2>3. CASE row[a].scan = "none"
      <3>1. row'[a] = row[a]
        BY <2>3 DEF Submit, Rows
      <3> QED
        BY <2>1, <2>2, <2>3, <3>1
    <2>4. CASE row[a].scan # "none"
      <3>1. Undecided(a) /\ row'[a] = [row[a] EXCEPT !.bound = TRUE]
        BY <1>1, <2>1, <2>2, <2>4 DEF Submit, Submittable, Rows
      <3> QED
        BY <2>1, <2>4, <3>1 DEF RowTyp
    <2> QED
      BY <2>3, <2>4
  <1>3. row' \in [Attachments -> RowTyp]
    BY <1>2 DEF Submit
  <1>4. TypeInv'
    BY <1>1, <1>3 DEF InboxInv, TypeInv
  <1>5. BatchInv'
    BY <1>1, <1>2, OpenBatch DEF BatchInv, Undecided
  <1>6. ASSUME NEW a \in Attachments
        PROVE  Kept(a)'
    BY <1>1, <1>2, OpenBatch DEF InboxInv, KeepInv, Kept, Undecided, Usable, Pending, Uploading
  <1>7. \A a \in Attachments : /\ row'[a].decision = row[a].decision
                               /\ Open(a) => Open(a)'
    BY <1>1, <1>2, OpenBatch
  <1>8. DecideInv' /\ LockInv'
    BY <1>1, <1>7, DecideKept DEF InboxInv
  <1> QED
    BY <1>4, <1>5, <1>6, <1>8 DEF InboxInv, KeepInv

LEMMA Discarded == ASSUME InboxInv, Discard PROVE InboxInv'
  <1>1. /\ batch = "OPEN" /\ batch' = "DISCARDED"
        /\ UNCHANGED <<due, row, document, staged, archive, journal, archiveJournal, late,
                       lateArchive, upload, staff, worker, faults>>
    BY DEF Discard, Discardable, keys
  <1>2. discarding' \subseteq Attachments /\ \A a \in discarding' : row[a].scan = "CLEAN"
    BY DEF Discard, Discardable, Rows, Pending
  <1>3. TypeInv'
    BY <1>1, <1>2 DEF InboxInv, TypeInv
  <1>4. BatchInv'
    BY <1>1, <1>2, OpenBatch DEF InboxInv, BatchInv
  <1>5. KeepInv'
    BY <1>1, OpenBatch DEF InboxInv, KeepInv, Kept, Undecided, Usable, Pending, Uploading
  <1>6. DecideInv' /\ LockInv'
    BY <1>1, DecideKept DEF InboxInv, Open, Undecided
  <1> QED
    BY <1>3, <1>4, <1>5, <1>6 DEF InboxInv

LEMMA DiscardIsJournaled ==
  ASSUME InboxInv, NEW a \in Attachments, DiscardJournals(a)
  PROVE  InboxInv'
  <1>1. /\ a \in discarding /\ discarding' = discarding \ {a}
        /\ UNCHANGED <<batch, due, row, document, staged, archive, archiveJournal, late,
                       lateArchive, upload, staff, worker, faults>>
    BY DEF DiscardJournals
  <1>2. row[a].scan = "CLEAN" /\ batch = "DISCARDED"
    BY <1>1 DEF InboxInv, BatchInv
  <1>3. /\ journal' \in [Attachments -> {"none", "open", "closed"}] /\ journal'[a] = "open"
        /\ \A b \in Attachments \ {a} : journal'[b] = journal[b]
    BY JournalWritten DEF InboxInv, DiscardJournals
  <1>4. TypeInv'
    BY <1>1, <1>3 DEF InboxInv, TypeInv
  <1>5. BatchInv'
    BY <1>1 DEF InboxInv, BatchInv
  <1>6. KeepInv'
    BY <1>1, <1>2, <1>3
    DEF InboxInv, KeepInv, Kept, Undecided, Usable, Pending, Uploading
  <1>7. DecideInv' /\ LockInv'
    BY <1>1, DecideKept DEF InboxInv, Open, Undecided
  <1> QED
    BY <1>4, <1>5, <1>6, <1>7 DEF InboxInv

LEMMA DiscardEnds == ASSUME InboxInv, DiscardDies PROVE InboxInv'
  <1>1. /\ discarding' = {} /\ faults' \in 0 .. MaxFaults
        /\ UNCHANGED <<batch, due, row, document, staged, archive, journal, archiveJournal,
                       late, lateArchive, upload, staff, worker>>
    BY Faulty DEF DiscardDies, keys, InboxInv
  <1>2. TypeInv' /\ BatchInv'
    BY <1>1 DEF InboxInv, TypeInv, BatchInv
  <1>3. KeepInv'
    BY <1>1 DEF InboxInv, KeepInv, Kept, Undecided, Usable, Pending, Uploading
  <1>4. DecideInv' /\ LockInv'
    BY <1>1, DecideKept DEF InboxInv, Open, Undecided
  <1> QED
    BY <1>2, <1>3, <1>4 DEF InboxInv

-----------------------------------------------------------------------------
(* The clean-up                                                             *)

LEMMA WorkerFacts ==
  ASSUME InboxInv
  PROVE  /\ worker.todo \subseteq Attachments /\ worker.pending \subseteq Attachments
         /\ worker.missing \subseteq worker.todo
  BY DEF InboxInv, TypeInv

LEMMA DoneFacts ==
  ASSUME InboxInv, NEW a \in Attachments, worker' = Done(a)
  PROVE  /\ worker' \in [todo : SUBSET Attachments, pending : SUBSET Attachments,
                         missing : SUBSET Attachments]
         /\ worker'.missing \subseteq worker'.todo /\ worker'.todo \subseteq worker.todo
  BY WorkerFacts DEF Done

(* Nobody will review what the clean-up works on.                           *)
LEMMA Condemned ==
  ASSUME InboxInv, NEW a \in Attachments, a \in worker.todo
  PROVE  /\ row[a].scan # "none"
         /\ ~ (Undecided(a) /\ batch \in {"OPEN", "CONSUMED"})
         /\ ~ (Usable /\ Pending(a))
  <1>1. /\ row[a].scan # "none"
        /\ batch \in {"DISCARDED", "EXPIRED"} \/ row[a].decision # "PENDING_REVIEW"
    BY DEF InboxInv, KeepInv, Kept
  <1>2. row[a].decision # "PENDING_REVIEW" => row[a].scan = "CLEAN"
    BY DEF InboxInv, BatchInv
  <1> QED
    BY <1>1, <1>2 DEF Undecided, Usable, Pending

LEMMA CleanupMoves ==
  ASSUME InboxInv,
         UNCHANGED <<batch, due, row, document, staged, archive, journal, archiveJournal, late,
                     lateArchive, upload, staff, discarding>>,
         worker' \in [todo : SUBSET Attachments, pending : SUBSET Attachments,
                      missing : SUBSET Attachments],
         worker'.missing \subseteq worker'.todo, worker'.todo \subseteq worker.todo,
         faults' \in 0 .. MaxFaults
  PROVE  InboxInv'
  <1>1. TypeInv'
    BY DEF InboxInv, TypeInv
  <1>2. BatchInv'
    BY DEF InboxInv, BatchInv
  <1>3. KeepInv'
    BY DEF InboxInv, KeepInv, Kept, Undecided, Usable, Pending, Uploading
  <1>4. DecideInv' /\ LockInv'
    BY DecideKept DEF InboxInv, Open, Undecided
  <1> QED
    BY <1>1, <1>2, <1>3, <1>4 DEF InboxInv

LEMMA CleanupGoesOn ==
  ASSUME InboxInv, CleanupDies \/ \E a \in Attachments : CleanupMisses(a) \/ CleanupFails(a)
  PROVE  InboxInv'
  <1>1. UNCHANGED <<batch, due, row, document, staged, archive, journal, archiveJournal, late,
                    lateArchive, upload, staff, discarding>>
    BY DEF CleanupDies, CleanupMisses, CleanupFails, keys
  <1>2. faults' \in 0 .. MaxFaults
    BY StoreTyped, Faulty DEF CleanupDies, CleanupMisses, CleanupFails, InboxInv
  <1>3. CASE CleanupDies
    <2>1. /\ worker' \in [todo : SUBSET Attachments, pending : SUBSET Attachments,
                          missing : SUBSET Attachments]
          /\ worker'.missing \subseteq worker'.todo /\ worker'.todo \subseteq worker.todo
      BY <1>3 DEF CleanupDies, Resting
    <2> QED
      BY <1>1, <1>2, <2>1, CleanupMoves
  <1>4. ASSUME NEW a \in Attachments, CleanupMisses(a) \/ CleanupFails(a)
        PROVE  InboxInv'
    <2>1. CASE CleanupMisses(a)
      <3>1. worker \in [todo : SUBSET Attachments, pending : SUBSET Attachments,
                        missing : SUBSET Attachments]
        BY DEF InboxInv, TypeInv
      <3>2. /\ worker' \in [todo : SUBSET Attachments, pending : SUBSET Attachments,
                            missing : SUBSET Attachments]
            /\ worker'.missing \subseteq worker'.todo /\ worker'.todo \subseteq worker.todo
        BY <2>1, <3>1 DEF CleanupMisses
      <3> QED
        BY <1>1, <1>2, <3>2, CleanupMoves
    <2>2. CASE CleanupFails(a)
      BY <1>1, <1>2, <2>2, DoneFacts, CleanupMoves DEF CleanupFails
    <2> QED
      BY <1>4, <2>1, <2>2
  <1> QED
    BY <1>3, <1>4

LEMMA CleanupJournaled ==
  ASSUME InboxInv, NEW a \in Attachments, CleanupJournals(a)
  PROVE  InboxInv'
  <1>1. /\ a \in worker.todo /\ worker' = Done(a)
        /\ UNCHANGED <<batch, due, row, document, staged, archive, archiveJournal, late,
                       lateArchive, upload, staff, discarding, faults>>
    BY DEF CleanupJournals
  <1>2. /\ journal' \in [Attachments -> {"none", "open", "closed"}]
        /\ \A b \in Attachments : journal[b] # "none" => journal'[b] # "none"
        /\ \A b \in Attachments \ {a} : journal'[b] = journal[b]
    BY DEF CleanupJournals, InboxInv, TypeInv
  <1>3. /\ worker' \in [todo : SUBSET Attachments, pending : SUBSET Attachments,
                        missing : SUBSET Attachments]
        /\ worker'.missing \subseteq worker'.todo /\ worker'.todo \subseteq worker.todo
    BY <1>1, DoneFacts
  <1>4. TypeInv'
    BY <1>1, <1>2, <1>3 DEF InboxInv, TypeInv
  <1>5. BatchInv'
    BY <1>1 DEF InboxInv, BatchInv
  <1>6. ASSUME NEW b \in Attachments
        PROVE  Kept(b)'
    <2>1. CASE b = a
      <3>1. /\ row[a].scan # "none"
            /\ ~ (Undecided(a) /\ batch \in {"OPEN", "CONSUMED"}) /\ ~ (Usable /\ Pending(a))
        BY <1>1, Condemned
      <3> QED
        BY <1>1, <1>2, <1>3, <2>1, <3>1
        DEF InboxInv, KeepInv, Kept, Undecided, Usable, Pending, Uploading
    <2>2. CASE b # a
      BY <1>1, <1>2, <1>3, <2>2
      DEF InboxInv, KeepInv, Kept, Undecided, Usable, Pending, Uploading
    <2> QED
      BY <2>1, <2>2
  <1>7. DecideInv' /\ LockInv'
    BY <1>1, DecideKept DEF InboxInv, Open, Undecided
  <1> QED
    BY <1>4, <1>5, <1>6, <1>7 DEF InboxInv, KeepInv

LEMMA CleanupRemoved ==
  ASSUME InboxInv, NEW a \in Attachments, CleanupRemoves(a)
  PROVE  InboxInv'
  <1>1. /\ worker' = Done(a)
        /\ UNCHANGED <<batch, due, document, staged, archive, journal, archiveJournal, late,
                       lateArchive, upload, staff, discarding, faults>>
    BY DEF CleanupRemoves, keys
  <1>2. /\ worker' \in [todo : SUBSET Attachments, pending : SUBSET Attachments,
                        missing : SUBSET Attachments]
        /\ worker'.missing \subseteq worker'.todo /\ worker'.todo \subseteq worker.todo
    BY <1>1, DoneFacts
  <1>3. CASE ~ Removable(a)
    <2>1. row' = row
      BY <1>3 DEF CleanupRemoves
    <2> QED
      BY <1>1, <1>2, <2>1, StoreTyped, CleanupMoves
  <1>4. CASE Removable(a)
    <2>1. row[a].scan = "PENDING" /\ batch \in {"DISCARDED", "EXPIRED"}
      BY <1>4 DEF Removable, Pending
    <2>2. /\ row' \in [Attachments -> RowTyp]
          /\ row'[a].scan = "removed" /\ row'[a].bound = row[a].bound
          /\ row'[a].decision = row[a].decision
          /\ \A b \in Attachments \ {a} : row'[b] = row[b]
      BY <1>4, ScanWritten DEF CleanupRemoves, InboxInv
    <2>3. TypeInv'
      BY <1>1, <1>2, <2>2 DEF InboxInv, TypeInv
    <2>4. BatchInv'
      BY <1>1, <2>1, <2>2 DEF InboxInv, BatchInv
    <2>5. ASSUME NEW b \in Attachments
          PROVE  Kept(b)'
      <3>1. CASE b = a
        BY <1>1, <1>2, <2>1, <2>2, <3>1
        DEF InboxInv, KeepInv, Kept, Undecided, Usable, Pending, Uploading
      <3>2. CASE b # a
        BY <1>1, <1>2, <2>2, <3>2
        DEF InboxInv, KeepInv, Kept, Undecided, Usable, Pending, Uploading
      <3> QED
        BY <3>1, <3>2
    <2>6. \A b \in Attachments : /\ row'[b].decision = row[b].decision
                                 /\ Open(b) => Open(b)'
      BY <2>1, <2>2 DEF Open, Undecided
    <2>7. DecideInv' /\ LockInv'
      BY <1>1, <2>6, DecideKept DEF InboxInv
    <2> QED
      BY <2>3, <2>4, <2>5, <2>7 DEF InboxInv, KeepInv
  <1> QED
    BY <1>3, <1>4

LEMMA CleanupBegins == ASSUME InboxInv, CleanupStarts PROVE InboxInv'
  <1>1. /\ batch' = batch \/ (batch = "OPEN" /\ due /\ batch' = "EXPIRED")
        /\ UNCHANGED <<due, row, document, staged, archive, journal, archiveJournal, late,
                       lateArchive, upload, staff, discarding, faults>>
    BY DEF CleanupStarts, keys
  <1>2. PICK todo \in SUBSET Attachments :
          /\ todo = {a \in Attachments : Candidate(a, batch') /\ journal[a] = "none"}
          /\ worker' = [Resting EXCEPT !.todo = todo, !.pending = {a \in todo : Pending(a)}]
    BY DEF CleanupStarts
  <1>3. /\ worker' \in [todo : SUBSET Attachments, pending : SUBSET Attachments,
                        missing : SUBSET Attachments]
        /\ worker'.missing \subseteq worker'.todo /\ worker'.todo = todo
    BY <1>2 DEF Resting
  <1>4. \A a \in todo : /\ row[a].scan # "none"
                        /\ \/ batch' \in {"DISCARDED", "EXPIRED"}
                           \/ row[a].decision # "PENDING_REVIEW"
    <2> SUFFICES ASSUME NEW a \in todo
                 PROVE  /\ row[a].scan # "none"
                        /\ \/ batch' \in {"DISCARDED", "EXPIRED"}
                           \/ row[a].decision # "PENDING_REVIEW"
      OBVIOUS
    <2>1. a \in Attachments /\ Candidate(a, batch')
      BY <1>2
    <2>2. row[a].decision # "PENDING_REVIEW" => row[a].scan = "CLEAN"
      BY <2>1 DEF InboxInv, BatchInv
    <2> QED
      BY <2>1, <2>2 DEF Candidate, DraftLeft, QuarantineOver, Replaced, Pending, Undecided
  <1>5. TypeInv'
    BY <1>1, <1>3 DEF InboxInv, TypeInv
  <1>6. BatchInv'
    BY <1>1, OpenBatch DEF InboxInv, BatchInv
  <1>7. KeepInv'
    BY <1>1, <1>3, <1>4 DEF InboxInv, KeepInv, Kept, Undecided, Usable, Pending, Uploading
  <1>8. DecideInv' /\ LockInv'
    BY <1>1, DecideKept DEF InboxInv, Open, Undecided
  <1> QED
    BY <1>5, <1>6, <1>7, <1>8 DEF InboxInv

-----------------------------------------------------------------------------
(* The store and time                                                       *)

LEMMA StagedDeleted ==
  ASSUME InboxInv, NEW a \in Attachments, DeleteStaged(a)
  PROVE  InboxInv'
  <1>1. /\ journal[a] = "open" /\ staged' = staged \ {a}
        /\ journal' = [journal EXCEPT ![a] = "closed"]
        /\ UNCHANGED <<batch, due, row, document, archive, archiveJournal, late, lateArchive,
                       upload, staff, discarding, worker, faults>>
    BY DEF DeleteStaged
  <1>2. /\ journal' \in [Attachments -> {"none", "open", "closed"}] /\ journal'[a] = "closed"
        /\ \A b \in Attachments \ {a} : journal'[b] = journal[b]
    BY <1>1 DEF InboxInv, TypeInv
  <1>3. TypeInv'
    BY <1>1, <1>2 DEF InboxInv, TypeInv
  <1>4. BatchInv'
    BY <1>1 DEF InboxInv, BatchInv
  <1>5. ASSUME NEW b \in Attachments
        PROVE  Kept(b)'
    <2>1. CASE b = a
      BY <1>1, <1>2, <2>1
      DEF InboxInv, KeepInv, Kept, Undecided, Usable, Pending, Uploading
    <2>2. CASE b # a
      BY <1>1, <1>2, <2>2
      DEF InboxInv, KeepInv, Kept, Undecided, Usable, Pending, Uploading
    <2> QED
      BY <2>1, <2>2
  <1>6. DecideInv' /\ LockInv'
    BY <1>1, DecideKept DEF InboxInv, Open, Undecided
  <1> QED
    BY <1>3, <1>4, <1>5, <1>6 DEF InboxInv, KeepInv

(* The archive changes, and no row.                                         *)
LEMMA ArchiveQuiet ==
  ASSUME InboxInv,
         UNCHANGED <<batch, due, row, document, staged, journal, late, upload, staff,
                     discarding, worker, faults>>,
         archive' \subseteq Attachments, lateArchive' \subseteq Attachments,
         archiveJournal' \in [Attachments -> {"none", "open", "closed"}]
  PROVE  TypeInv' /\ BatchInv' /\ KeepInv' /\ LockInv'
  <1>1. TypeInv'
    BY DEF InboxInv, TypeInv
  <1>2. BatchInv'
    BY DEF InboxInv, BatchInv
  <1>3. KeepInv'
    BY DEF InboxInv, KeepInv, Kept, Undecided, Usable, Pending, Uploading
  <1>4. LockInv'
    BY DEF InboxInv, LockInv, Holds
  <1> QED
    BY <1>1, <1>2, <1>3, <1>4

LEMMA ArchivedDeleted ==
  ASSUME InboxInv, NEW a \in Attachments, DeleteArchived(a)
  PROVE  InboxInv'
  <1>1. /\ archiveJournal[a] = "open" /\ a \notin lateArchive /\ document[a] = "none"
        /\ archive' = archive \ {a}
        /\ archiveJournal' = [archiveJournal EXCEPT ![a] = "closed"]
        /\ UNCHANGED <<batch, due, row, document, staged, journal, late, lateArchive,
                       upload, staff, discarding, worker, faults>>
    BY DEF DeleteArchived, ArchivePutOver
  <1>2. /\ archiveJournal' \in [Attachments -> {"none", "open", "closed"}]
        /\ archiveJournal'[a] = "closed"
        /\ \A b \in Attachments \ {a} : archiveJournal'[b] = archiveJournal[b]
    BY <1>1 DEF InboxInv, TypeInv
  <1>3. TypeInv' /\ BatchInv' /\ KeepInv' /\ LockInv'
    BY <1>1, <1>2, ArchiveQuiet, StoreTyped
  <1>4. DecideInv'
    BY <1>1, <1>2 DEF InboxInv, DecideInv, Open, Undecided, Accepting
  <1> QED
    BY <1>3, <1>4 DEF InboxInv

LEMMA LateArchivePutLands ==
  ASSUME InboxInv, NEW a \in Attachments, LateArchivePut(a)
  PROVE  InboxInv'
  <1>1. /\ archive \subseteq archive' /\ archive' \subseteq archive \cup lateArchive
        /\ lateArchive' \subseteq lateArchive
        /\ UNCHANGED <<batch, due, row, document, staged, journal, archiveJournal, late,
                       upload, staff, discarding, worker, faults>>
    BY DEF LateArchivePut
  <1>2. archiveJournal' \in [Attachments -> {"none", "open", "closed"}]
    BY <1>1 DEF InboxInv, TypeInv
  <1>3. TypeInv' /\ BatchInv' /\ KeepInv' /\ LockInv'
    BY <1>1, <1>2, ArchiveQuiet, StoreTyped
  <1>4. DecideInv'
    BY <1>1 DEF InboxInv, DecideInv, Open, Undecided, Accepting
  <1> QED
    BY <1>3, <1>4 DEF InboxInv

LEMMA TimePasses ==
  ASSUME InboxInv, BatchDue \/ \E a \in Attachments : Ages(a)
  PROVE  InboxInv'
  <1>1. /\ due' = due \/ due'
        /\ due' \in BOOLEAN
        /\ UNCHANGED <<batch, document, staged, archive, journal, archiveJournal, late,
                       lateArchive, upload, staff, discarding, worker, faults>>
    BY DEF BatchDue, Ages, keys, InboxInv, TypeInv
  <1>2. /\ row' \in [Attachments -> RowTyp]
        /\ \A b \in Attachments : /\ row'[b].scan = row[b].scan
                                  /\ row'[b].bound = row[b].bound
                                  /\ row'[b].decision = row[b].decision
    <2>1. CASE BatchDue
      BY <2>1 DEF BatchDue, InboxInv, TypeInv
    <2>2. ASSUME NEW a \in Attachments, Ages(a)
          PROVE  /\ row' \in [Attachments -> RowTyp]
                 /\ \A b \in Attachments : /\ row'[b].scan = row[b].scan
                                           /\ row'[b].bound = row[b].bound
                                           /\ row'[b].decision = row[b].decision
      <3> DEFINE x == [row[a] EXCEPT !.old = TRUE]
      <3>1. /\ x \in RowTyp /\ x.scan = row[a].scan /\ x.bound = row[a].bound
            /\ x.decision = row[a].decision
        BY RowFacts DEF RowTyp, InboxInv
      <3>2. row' = [row EXCEPT ![a] = x]
        BY <2>2, RowFacts DEF Ages, RowTyp, InboxInv, TypeInv
      <3> HIDE DEF x
      <3> QED
        BY <3>1, <3>2, RowWritten DEF InboxInv
    <2> QED
      BY <2>1, <2>2
  <1>3. TypeInv'
    BY <1>1, <1>2 DEF InboxInv, TypeInv
  <1>4. BatchInv'
    BY <1>1, <1>2 DEF InboxInv, BatchInv
  <1>5. KeepInv'
    BY <1>1, <1>2 DEF InboxInv, KeepInv, Kept, Undecided, Usable, Pending, Uploading
  <1>6. \A b \in Attachments : /\ row'[b].decision = row[b].decision
                               /\ Open(b) => Open(b)'
    BY <1>2 DEF Open, Undecided
  <1>7. DecideInv' /\ LockInv'
    BY <1>1, <1>6, DecideKept DEF InboxInv
  <1> QED
    BY <1>3, <1>4, <1>5, <1>7 DEF InboxInv

-----------------------------------------------------------------------------
(* The specification                                                        *)

LEMMA Initially == Init => InboxInv
  <1> SUFFICES ASSUME Init
               PROVE  InboxInv
    OBVIOUS
  <1>1. /\ NoRow \in RowTyp /\ NoRow.scan = "none" /\ NoRow.bound = FALSE
        /\ NoRow.decision = "PENDING_REVIEW"
    BY DEF NoRow, RowTyp
  <1>2. /\ Resting \in [todo : SUBSET Attachments, pending : SUBSET Attachments,
                        missing : SUBSET Attachments]
        /\ Resting.missing = {} /\ Resting.todo = {}
    BY DEF Resting
  <1>3. \A a \in Attachments : row[a] = NoRow
    BY DEF Init
  <1>4. \A a \in Attachments :
          /\ \A u \in Uploads : upload[u].a # {a}
          /\ \A s \in Staff : staff[s].a # {a}
    BY IdleFacts DEF Init
  <1>5. TypeInv
    <2>1. /\ row \in [Attachments -> RowTyp] /\ upload \in [Uploads -> {Idle} \cup UploadTyp]
          /\ staff \in [Staff -> {Idle} \cup AcceptTyp] /\ faults \in 0 .. MaxFaults
      BY <1>1, BoundAssumption DEF Init
    <2>2. /\ document \in [Attachments -> {"none", "reserved", "shared"}]
          /\ journal \in [Attachments -> {"none", "open", "closed"}]
          /\ archiveJournal \in [Attachments -> {"none", "open", "closed"}]
      BY DEF Init
    <2>3. /\ worker = Resting /\ batch = "OPEN" /\ due = FALSE /\ discarding = {}
          /\ staged = {} /\ archive = {} /\ late = {} /\ lateArchive = {}
      BY DEF Init
    <2> QED
      BY <1>2, <2>1, <2>2, <2>3 DEF TypeInv
  <1>6. BatchInv
    BY <1>1, <1>3 DEF Init, BatchInv
  <1>7. KeepInv
    BY <1>1, <1>2, <1>3, <1>4 DEF Init, KeepInv, Kept, Undecided, Pending, Uploading
  <1>8. DecideInv
    BY <1>1, <1>3, <1>4 DEF Init, DecideInv, Accepting
  <1>9. LockInv
    BY <1>4 DEF LockInv, Holds
  <1> QED
    BY <1>5, <1>6, <1>7, <1>8, <1>9 DEF InboxInv

LEMMA Stutters == ASSUME InboxInv, UNCHANGED vars PROVE InboxInv'
  <1>1. UNCHANGED <<batch, due, row, document, staged, archive, journal, archiveJournal, late,
                    lateArchive, upload, staff, discarding, worker, faults>>
    BY DEF vars, keys
  <1>2. /\ worker' \in [todo : SUBSET Attachments, pending : SUBSET Attachments,
                        missing : SUBSET Attachments]
        /\ worker'.missing \subseteq worker'.todo /\ worker'.todo \subseteq worker.todo
    BY <1>1 DEF InboxInv, TypeInv
  <1> QED
    BY <1>1, <1>2, StoreTyped, CleanupMoves

LEMMA RequestsKeep == ASSUME InboxInv, Requests PROVE InboxInv'
  <1>1. ASSUME NEW u \in Uploads, NEW a \in Attachments, UploadNew(u, a) \/ UploadResume(u, a)
        PROVE  InboxInv'
    BY <1>1, UploadIsNew, UploadResumed
  <1>2. ASSUME NEW s \in Staff, NEW a \in Attachments, AcceptLoads(s, a)
        PROVE  InboxInv'
    BY <1>2, AcceptanceLoads
  <1>3. ASSUME NEW a \in Attachments, Reject(a)
        PROVE  InboxInv'
    BY <1>3, Rejected
  <1> QED
    BY <1>1, <1>2, <1>3, Submitted, Discarded DEF Requests

LEMMA FaultsKeep == ASSUME InboxInv, Faults PROVE InboxInv'
  <1>1. ASSUME NEW u \in Uploads, NEW a \in Attachments,
               PutTimesOut(u, a) \/ FinalizeFails(u, a) \/ UploadDies(u, a)
        PROVE  InboxInv'
    BY <1>1, UploadGoesOn
  <1>2. ASSUME NEW s \in Staff, NEW a \in Attachments, AcceptTimesOut(s, a) \/ AcceptDies(s, a)
        PROVE  InboxInv'
    BY <1>2, AcceptanceStores, AcceptancePasses
  <1> QED
    BY <1>1, <1>2, CleanupGoesOn, DiscardEnds DEF Faults

LEMMA ProcessesKeep ==
  ASSUME InboxInv, (\E u \in Uploads : UploadStep(u)) \/ (\E s \in Staff : StaffStep(s))
  PROVE  InboxInv'
  <1>1. ASSUME NEW u \in Uploads, NEW a \in Attachments,
               Recover(u, a) \/ Put(u, a) \/ FinalizeUpload(u, a) \/ CompensateUpload(u, a)
        PROVE  InboxInv'
    BY <1>1, UploadGoesOn, UploadFinalized, UploadCompensated
  <1>2. ASSUME NEW s \in Staff, NEW a \in Attachments,
               \/ AcceptReads(s, a) \/ AcceptReserves(s, a) \/ AcceptResumes(s, a)
               \/ AcceptLocks(s, a) \/ AcceptStores(s, a) \/ AcceptDecides(s, a)
               \/ AcceptCompensates(s, a)
        PROVE  InboxInv'
    BY <1>2, AcceptancePasses, AcceptanceReserves, AcceptanceStores, AcceptanceDecides,
       AcceptanceCompensates
  <1> QED
    BY <1>1, <1>2 DEF UploadStep, StaffStep

LEMMA JobsKeep ==
  ASSUME InboxInv,
         \/ CleanupStarts \/ CleanupStep \/ BatchDue
         \/ \E a \in Attachments :
              \/ DiscardJournals(a) \/ DeleteStaged(a) \/ DeleteArchived(a)
              \/ LatePut(a) \/ LateArchivePut(a) \/ Ages(a)
  PROVE  InboxInv'
  <1>1. ASSUME NEW a \in Attachments, CleanupJournals(a) \/ CleanupMisses(a) \/ CleanupRemoves(a)
        PROVE  InboxInv'
    BY <1>1, CleanupJournaled, CleanupGoesOn, CleanupRemoved
  <1>2. ASSUME NEW a \in Attachments,
               \/ DiscardJournals(a) \/ DeleteStaged(a) \/ DeleteArchived(a)
               \/ LatePut(a) \/ LateArchivePut(a) \/ Ages(a)
        PROVE  InboxInv'
    BY <1>2, DiscardIsJournaled, StagedDeleted, ArchivedDeleted, LatePutLands,
       LateArchivePutLands, TimePasses
  <1> QED
    BY <1>1, <1>2, CleanupBegins, TimePasses DEF CleanupStep

LEMMA Inductive == InboxInv /\ [Next]_vars => InboxInv'
  BY RequestsKeep, FaultsKeep, ProcessesKeep, JobsKeep, Stutters DEF Next

LEMMA InboxInvariant == Spec => []InboxInv
  BY Initially, Inductive, PTL DEF Spec

(* Every value of the state has its type, an attachment is bound only when   *)
(* its bytes are clean and its batch is submitted, and no two acceptances    *)
(* hold the lock of one attachment.                                          *)
THEOREM TypeCorrect == Spec => []TypeOK
  <1>1. ASSUME InboxInv
        PROVE  TypeOK
    <2>1. ASSUME NEW a \in Attachments
          PROVE  Cardinality({s \in Staff : staff[s].a = {a}
                                            /\ staff[s].pc \in {"storing", "deciding"}}) <= 1
      <3> DEFINE H == {s \in Staff : staff[s].a = {a} /\ staff[s].pc \in {"storing", "deciding"}}
      <3>1. \A s, t \in H : s = t
        BY <1>1 DEF InboxInv, LockInv, Holds
      <3> HIDE DEF H
      <3>2. CASE H = {}
        <4>1. Cardinality(H) = 0
          BY <3>2, FS_EmptySet
        <4> QED
          BY <4>1 DEF H
      <3>3. CASE H # {}
        <4>1. PICK s : H = {s}
          BY <3>1, <3>3
        <4>2. Cardinality(H) = 1
          BY <4>1, FS_Singleton
        <4> QED
          BY <4>2 DEF H
      <3> QED
        BY <3>2, <3>3
    <2>2. \A a \in Attachments :
            /\ row[a] \in [scan : {"none", "PENDING", "CLEAN", "removed"}, bound : BOOLEAN,
                           decision : {"PENDING_REVIEW", "ACCEPTED", "REJECTED"},
                           old : BOOLEAN]
            /\ row[a].bound => row[a].scan = "CLEAN" /\ batch = "CONSUMED"
            /\ row[a].decision # "PENDING_REVIEW" => row[a].bound
      BY <1>1 DEF InboxInv, TypeInv, BatchInv, RowTyp
    <2>3. \A S \in {staged, archive, late, lateArchive, worker.todo} : S \subseteq Attachments
      BY <1>1, StoreTyped, WorkerFacts
    <2>4. \A a \in discarding : row[a].scan = "CLEAN" /\ batch = "DISCARDED"
      BY <1>1 DEF InboxInv, TypeInv, BatchInv
    <2> QED
      BY <1>1, <2>1, <2>2, <2>3, <2>4 DEF TypeOK, InboxInv, TypeInv
  <1> QED
    BY <1>1, InboxInvariant, PTL

(* A submitted batch consists of clean attachments bound to its message, and *)
(* as long as one may still be reviewed its bytes are stored and no entry of *)
(* the journal lets them be deleted, whatever uploads run in parallel, break *)
(* off or come too late, and whatever the clean-up has read before.          *)
THEOREM BytesAwaitTheReview == Spec => []ReviewableIsKept
  <1>1. InboxInv => ReviewableIsKept
    BY DEF InboxInv, BatchInv, KeepInv, Kept, ReviewableIsKept
  <1> QED
    BY <1>1, InboxInvariant, PTL

(* An accepted attachment has its shared, stored document and no other one   *)
(* has; what else lies in the archive belongs to a reservation or is open in *)
(* the journal, however many acceptances and rejections meet.                *)
THEOREM DecisionsAgree == Spec => []DecisionsHold
  <1>1. ASSUME InboxInv
        PROVE  DecisionsHold
    <2> SUFFICES ASSUME NEW a \in Attachments
                 PROVE  /\ row[a].decision = "ACCEPTED" <=> document[a] = "shared"
                        /\ document[a] = "shared" => a \in archive /\ archiveJournal[a] = "none"
                        /\ document[a] = "reserved" => Open(a)
                        /\ a \in archive => document[a] # "none" \/ archiveJournal[a] = "open"
      BY DEF DecisionsHold
    <2> QED
      BY <1>1 DEF InboxInv, DecideInv
  <1> QED
    BY <1>1, InboxInvariant, PTL
===============================================================================
