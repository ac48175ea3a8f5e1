------------------------- MODULE StorageJournalProofs -------------------------
(***************************************************************************)
(* Type correctness of the storage journal; and, if every upload is over   *)
(* within the grace period, that no object a document refers to is         *)
(* deleted, that none is forgotten, and that closed rows say the truth:    *)
(* for any number of uploads and of cleanup runs that race, fail and die.  *)
(***************************************************************************)
EXTENDS StorageJournal, TLAPS

LEMMA IdFacts ==
  /\ \A u \in Uploads :
       /\ Intent(u) \in Ids /\ Intent(u)[1] = u
       /\ Orphan(u) \in Ids /\ Orphan(u)[1] = u
  /\ \A u, v \in Uploads : Intent(u) # Orphan(v)
  /\ \A u, v \in Uploads : (Intent(u) = Intent(v) \/ Orphan(u) = Orphan(v)) => u = v
  /\ \A id \in Ids :
       id[1] \in Uploads /\ (id = Intent(id[1]) \/ id = Orphan(id[1]))
  BY DEF Ids, Intent, Orphan

(* A row as the table may hold it: only an open one is claimed.            *)
GoodRow(r) == r \in RowType /\ (r.claimedAt # NoTime => r.state = "open")

LEMMA TypeRow ==
  ASSUME TypeOK, NEW id \in Ids PROVE GoodRow(row[id])
  BY DEF TypeOK, GoodRow

LEMMA RowWritten ==
  ASSUME TypeOK, NEW id \in Ids, NEW r, GoodRow(r), row' = [row EXCEPT ![id] = r]
  PROVE  row' \in [Ids -> RowType] /\ \A i \in Ids : GoodRow(row'[i])
  <1>1. \A i \in Ids : row'[i] = IF i = id THEN r ELSE row[i]
    BY DEF TypeOK
  <1>2. \A i \in Ids : GoodRow(row'[i])
    BY <1>1, TypeRow
  <1> QED
    BY <1>2 DEF TypeOK, GoodRow

LEMMA JobFacts ==
  ASSUME TypeOK, NEW c \in Cleaners, pc[c] \in InTry
  PROVE  /\ job[c] # NoJob /\ job[c] \in Jobs
         /\ job[c].id \in Ids /\ key(c) \in Uploads /\ job[c].at \in Nat
         /\ GoodRow(row[job[c].id])
  <1>1. job[c] # NoJob /\ job[c] \in Jobs
    BY DEF TypeOK
  <1>2. job[c].id \in Ids /\ job[c].at \in Nat
    BY <1>1 DEF Jobs
  <1> QED
    BY <1>1, <1>2, IdFacts, TypeRow DEF key

(* Every row an action writes is as the table may hold it.                 *)
LEMMA RowsWritten ==
  /\ \A r : GoodRow(r) => GoodRow(released(r)) /\ GoodRow(absent(r))
  /\ \A r : \A res \in Resolution : GoodRow(r) => GoodRow(closed(r, res))
  /\ \A b \in BOOLEAN : clock \in Nat => GoodRow(opened(b))
  <1> USE DEF GoodRow, RowType, Resolution, Time, NoTime
  <1>1. \A r : \A res \in Resolution : GoodRow(r) => GoodRow(closed(r, res))
    BY DEF closed
  <1>2. \A r : GoodRow(r) => GoodRow(released(r))
    BY DEF released
  <1>3. \A r : GoodRow(r) => GoodRow(absent(r))
    BY DEF absent, closed
  <1>4. \A b \in BOOLEAN : clock \in Nat => GoodRow(opened(b))
    BY DEF opened
  <1> QED
    BY <1>1, <1>2, <1>3, <1>4

-----------------------------------------------------------------------------
(* Type correctness *)

(* What TypeOK says of anything but the rows.                              *)
LocalsOK ==
  /\ stored \in SUBSET Uploads /\ referenced \in SUBSET Uploads
  /\ up \in [Uploads -> {"new", "journaled", "putting", "looking", "stored",
                         "releasing", "compensating", "over"}]
  /\ put \in [Uploads -> {"none", "flying", "landed", "lost"}]
  /\ clock \in Nat
  /\ pc \in [Cleaners -> {"idle", "working"} \cup InTry]
  /\ now \in [Cleaners -> Nat]
  /\ batch \in [Cleaners -> SUBSET [id : Ids, bound : BOOLEAN]]
  /\ job \in [Cleaners -> Jobs \cup {NoJob}]
  /\ \A c \in Cleaners : pc[c] \in InTry <=> job[c] # NoJob
  /\ faults \in Nat
RowsOK == row \in [Ids -> RowType] /\ \A id \in Ids : GoodRow(row[id])

LEMMA TypeParts == TypeOK <=> RowsOK /\ LocalsOK
  BY DEF TypeOK, RowsOK, LocalsOK, GoodRow

LEMMA TypeNext == RowsOK' /\ LocalsOK' => TypeOK'
  BY DEF TypeOK, RowsOK, LocalsOK, GoodRow

LEMMA TypeInit == Init => TypeOK
  <1> SUFFICES ASSUME Init PROVE TypeOK
    OBVIOUS
  <1>1. NoRow \in RowType
    BY DEF NoRow, RowType, Time, NoTime
  <1> QED
    BY <1>1 DEF Init, TypeOK, NoRow, InTry, Jobs

(* The steps of an upload change its own state and its own rows.           *)
LEMMA TypeUpload ==
  ASSUME TypeOK, NEW u \in Uploads,
         Journal(u) \/ Upload(u) \/ Land(u) \/ Drop(u) \/ Perish(u)
  PROVE  TypeOK'
  <1> USE IdFacts DEF Goto
  <1>0. clock \in Nat /\ GoodRow(row[Intent(u)])
    BY TypeRow DEF TypeOK
  <1>1. LocalsOK'
    <2> USE DEF Upload, Journal, Land, Drop, Perish, Send, Answer, NoAnswer,
               LookUp, Commit, RollBack, Release, Compensate
    <2>1. UNCHANGED <<clock, cleanVars>>
      OBVIOUS
    <2>2. stored' \in SUBSET Uploads /\ referenced' \in SUBSET Uploads
      BY ZenonT(40) DEF TypeOK
    <2>3. \/ \E s \in {"journaled", "putting", "looking", "stored", "releasing",
                         "compensating", "over"} : up' = [up EXCEPT ![u] = s]
          \/ UNCHANGED up
      OBVIOUS
    <2>4. put' \in [Uploads -> {"none", "flying", "landed", "lost"}]
      BY ZenonT(40) DEF TypeOK
    <2> QED
      <3> USE DEF TypeOK, LocalsOK, cleanVars
      <3>1. up' \in [Uploads -> {"new", "journaled", "putting", "looking", "stored",
                                 "releasing", "compensating", "over"}]
        BY <2>3
      <3> QED
        BY <2>1, <2>2, <2>4, <3>1
  <1>2. RowsOK'
    <2>1. CASE UNCHANGED row
      BY <2>1, TypeParts DEF RowsOK
    <2>2. CASE Journal(u)
      <3>1. GoodRow(opened(FALSE))
        BY <1>0, RowsWritten
      <3> QED
        BY <2>2, <3>1, RowWritten DEF Journal, RowsOK
    <2>3. CASE Commit(u)
      <3> DEFINE r == [closed(row[Intent(u)], "REFERENCED") EXCEPT !.bound = TRUE]
      <3>1. GoodRow(r)
        BY <1>0 DEF closed, GoodRow, RowType, Resolution, Time, NoTime
      <3>2. row' = [row EXCEPT ![Intent(u)] = r]
        BY <2>3 DEF Commit
      <3> QED
        BY <3>1, <3>2, RowWritten DEF RowsOK
    <2>4. CASE Release(u) /\ ~ UNCHANGED row
      <3> DEFINE r == [row[Intent(u)] EXCEPT !.bound = TRUE]
      <3>1. GoodRow(r)
        BY <1>0 DEF GoodRow, RowType
      <3>2. row' = [row EXCEPT ![Intent(u)] = r]
        BY <2>4 DEF Release
      <3> QED
        BY <3>1, <3>2, RowWritten DEF RowsOK
    <2>5. CASE Compensate(u) /\ row[Intent(u)].bound
      <3> DEFINE r == [row[Intent(u)] EXCEPT !.state = "open",
                                             !.claimedAt = NoTime]
      <3>1. GoodRow(r)
        BY <1>0 DEF GoodRow, RowType, Time, NoTime
      <3>2. row' = [row EXCEPT ![Intent(u)] = r]
        BY <2>5 DEF Compensate, TypeOK
      <3> QED
        BY <3>1, <3>2, RowWritten DEF RowsOK
    <2>6. CASE Compensate(u) /\ ~ row[Intent(u)].bound
      <3>1. GoodRow(opened(TRUE))
        BY <1>0, RowsWritten
      <3> QED
        BY <2>6, <3>1, RowWritten DEF Compensate, RowsOK
    <2> QED
      BY <2>1, <2>2, <2>3, <2>4, <2>5, <2>6
      DEF Upload, Send, Land, Drop, Answer, NoAnswer, LookUp, RollBack, Release,
          Perish
  <1> QED
    BY <1>1, <1>2, TypeNext

LEMMA TypeRecord ==
  ASSUME TypeOK, NEW c \in Cleaners, pc[c] \in InTry, NEW r, GoodRow(r),
         Record(c, r), faults' \in Nat
  PROVE  TypeOK'
  <1>1. RowsOK'
    <2>1. CASE own(c)
      BY <2>1, JobFacts, RowWritten DEF Record, RowsOK
    <2>2. CASE ~ own(c)
      BY <2>2, TypeParts DEF Record, RowsOK
    <2> QED
      BY <2>1, <2>2
  <1>2. LocalsOK'
    BY DEF TypeOK, LocalsOK, Record, uploadVars, InTry
  <1> QED
    BY <1>1, <1>2, TypeNext

LEMMA TypeClean ==
  ASSUME TypeOK, NEW c \in Cleaners, Clean(c) \/ Fail(c) \/ Die(c)
  PROVE  TypeOK'
  <1>1. CASE StartRun(c)
    <2>1. batch'[c] \in SUBSET [id : Ids, bound : BOOLEAN]
      BY <1>1, TypeRow DEF StartRun, TypeOK, GoodRow, RowType
    <2>2. batch' \in [Cleaners -> SUBSET [id : Ids, bound : BOOLEAN]]
      BY <1>1, <2>1 DEF StartRun, TypeOK
    <2> QED
      BY <1>1, <2>2 DEF StartRun, TypeOK, uploadVars, InTry
  <1>2. CASE ClaimNext(c)
    <2>1. PICK k \in batch[c] :
            /\ batch' = [batch EXCEPT ![c] = @ \ {k}]
            /\ IF due(k.id, now[c])
               THEN /\ row' = [row EXCEPT ![k.id].claimedAt = clock]
                    /\ job' = [job EXCEPT ![c] =
                         [id |-> k.id, bound |-> k.bound, at |-> clock]]
                    /\ pc' = [pc EXCEPT ![c] = "claimed"]
               ELSE UNCHANGED <<row, job, pc>>
      BY <1>2 DEF ClaimNext
    <2>2. k.id \in Ids /\ k.bound \in BOOLEAN /\ GoodRow(row[k.id])
      <3>1. k \in [id : Ids, bound : BOOLEAN]
        BY <2>1 DEF TypeOK
      <3> QED
        BY <3>1, TypeRow
    <2>3. batch' \in [Cleaners -> SUBSET [id : Ids, bound : BOOLEAN]]
      BY <2>1 DEF TypeOK
    <2>4. CASE due(k.id, now[c])
      <3> DEFINE r == [row[k.id] EXCEPT !.claimedAt = clock]
                 j == [id |-> k.id, bound |-> k.bound, at |-> clock]
      <3>1. GoodRow(r)
        BY <2>2, <2>4 DEF GoodRow, RowType, TypeOK, Time, due
      <3>2. row' = [row EXCEPT ![k.id] = r]
        BY <2>1, <2>4
      <3>3. RowsOK'
        BY <2>2, <3>1, <3>2, RowWritten DEF RowsOK
      <3>4. j \in Jobs /\ j # NoJob
        BY <2>2, NoJobAssumption DEF Jobs, TypeOK
      <3>5. LocalsOK'
        <4> HIDE DEF j
        <4>1. job' = [job EXCEPT ![c] = j] /\ pc' = [pc EXCEPT ![c] = "claimed"]
          BY <2>1, <2>4 DEF j
        <4> QED
          BY <1>2, <2>3, <3>4, <4>1
          DEF ClaimNext, TypeOK, LocalsOK, uploadVars, InTry
      <3> QED
        BY <3>3, <3>5, TypeNext
    <2>5. CASE ~ due(k.id, now[c])
      BY <1>2, <2>1, <2>3, <2>5 DEF ClaimNext, TypeOK, uploadVars
    <2> QED
      BY <2>4, <2>5
  <1>3. CASE EndRun(c)
    BY <1>3 DEF EndRun, TypeOK, uploadVars, InTry
  <1>4. CASE CheckReference(c) \/ RecoverVersion(c) \/ Recheck(c) \/ Delete(c)
    BY <1>4 DEF CheckReference, RecoverVersion, Recheck, Delete, Step, TypeOK,
                uploadVars, InTry
  <1>5. CASE Bind(c)
    <2> DEFINE r == [row[job[c].id] EXCEPT !.bound = TRUE]
    <2>1. pc[c] \in InTry
      BY <1>5 DEF Bind, Step, InTry
    <2>2. GoodRow(r)
      BY <2>1, JobFacts DEF GoodRow, RowType
    <2>3. row' = [row EXCEPT ![job[c].id] = r]
      BY <1>5 DEF Bind
    <2>4. RowsOK'
      BY <2>1, <2>2, <2>3, JobFacts, RowWritten DEF RowsOK
    <2>5. LocalsOK'
      BY <1>5 DEF Bind, Step, TypeOK, LocalsOK, uploadVars, InTry
    <2> QED
      BY <2>4, <2>5, TypeNext
  <1>6. CASE BindConflict(c) \/ SettleReferenced(c) \/ SettleDeleted(c)
             \/ SettleAbsent(c) \/ Fail(c)
    <2> DEFINE r == row[job[c].id]
    <2>1. pc[c] \in InTry
      BY <1>6 DEF BindConflict, SettleReferenced, SettleDeleted, SettleAbsent,
                  Fail, InTry
    <2>2. faults' \in Nat
      BY <1>6 DEF BindConflict, SettleReferenced, SettleDeleted, SettleAbsent,
                  Fail, TypeOK
    <2>3. /\ GoodRow(released(r)) /\ GoodRow(absent(r))
          /\ GoodRow(closed(r, "REFERENCED")) /\ GoodRow(closed(r, "DELETED"))
      BY <2>1, JobFacts, RowsWritten DEF Resolution
    <2> QED
      BY <1>6, <2>1, <2>2, <2>3, TypeRecord
      DEF BindConflict, SettleReferenced, SettleDeleted, SettleAbsent, Fail
  <1>7. CASE Die(c)
    BY <1>7 DEF Die, TypeOK, uploadVars, InTry
  <1> QED
    BY <1>1, <1>2, <1>3, <1>4, <1>5, <1>6, <1>7 DEF Clean

LEMMA TypeTick == TypeOK /\ Tick => TypeOK'
  BY DEF Tick, TypeOK, uploadVars, InTry

LEMMA TypeStutter == TypeOK /\ UNCHANGED vars => TypeOK'
  BY DEF TypeOK, vars, uploadVars, cleanVars

LEMMA TypeStep == TypeOK /\ [Next]_vars => TypeOK'
  BY TypeUpload, TypeClean, TypeTick, TypeStutter DEF Next

(* The journal, the store and the locals of uploads and cleanup runs keep   *)
(* their types; only open rows are claimed (dueWhere and every update of    *)
(* storage_orphan in the code rest on it).                                  *)
THEOREM TypeCorrect == Spec => []TypeOK
  BY TypeInit, TypeStep, PTL DEF Spec

-----------------------------------------------------------------------------
(* No object a document refers to is deleted *)

(* A run judges by a time that has been.                                   *)
RunsArePast == \A c \in Cleaners : now[c] <= clock

busy(u) == up[u] \notin {"new", "over"}

(* An upload at work is within the grace period of its intent, and has no  *)
(* other row.                                                              *)
UploadsInTime ==
  \A u \in Uploads :
    /\ up[u] = "new" => row[Intent(u)].state = "none"
    /\ busy(u) => clock < row[Intent(u)].createdAt + Grace
    /\ up[u] # "over" => row[Orphan(u)].state = "none"

(* An upload that will go on has its object in the store.                  *)
UploadsStored ==
  \A u \in Uploads :
    up[u] = "stored" \/ (up[u] = "putting" /\ put[u] = "landed") => u \in stored

(* A run works on rows of uploads that are over, and deletes only what no  *)
(* document refers to.                                                     *)
RunsComeAfter ==
  \A c \in Cleaners :
    /\ pc[c] \in InTry => up[key(c)] = "over"
    /\ pc[c] = "deleting" => key(c) \notin referenced

JournalInv ==
  /\ TypeOK /\ RunsArePast /\ UploadsInTime /\ UploadsStored /\ RunsComeAfter
  /\ ReferencedIsStored

LEMMA JournalInit == Init => JournalInv
  <1> SUFFICES ASSUME Init PROVE JournalInv
    OBVIOUS
  <1>1. UploadsInTime
    BY IdFacts DEF Init, UploadsInTime, busy, NoRow
  <1>2. RunsArePast /\ UploadsStored /\ RunsComeAfter /\ ReferencedIsStored
    BY DEF Init, RunsArePast, UploadsStored, RunsComeAfter, ReferencedIsStored,
           InTry
  <1> QED
    BY <1>1, <1>2, TypeInit DEF JournalInv

(* What an upload writes to the journal.                                   *)
LEMMA UploadRows ==
  ASSUME TypeOK, NEW u \in Uploads,
         Journal(u) \/ Upload(u) \/ Land(u) \/ Drop(u) \/ Perish(u)
  PROVE  /\ \A v \in Uploads : v # u =>
              row'[Intent(v)] = row[Intent(v)] /\ row'[Orphan(v)] = row[Orphan(v)]
         /\ ~ Journal(u) => row'[Intent(u)].createdAt = row[Intent(u)].createdAt
         /\ ~ Compensate(u) => row'[Orphan(u)] = row[Orphan(u)]
  <1> USE IdFacts
  <1>0. row \in [Ids -> RowType] /\ row[Intent(u)] \in RowType
    BY DEF TypeOK
  <1>1. CASE Journal(u)
    BY <1>0, <1>1 DEF Journal
  <1>2. CASE Commit(u)
    BY <1>0, <1>2 DEF Commit, closed, RowType
  <1>3. CASE Release(u)
    BY <1>0, <1>3 DEF Release, RowType
  <1>4. CASE Compensate(u)
    BY <1>0, <1>4, ZenonT(40) DEF Compensate, RowType
  <1>5. CASE UNCHANGED row
    BY <1>5
  <1> QED
    BY <1>1, <1>2, <1>3, <1>4, <1>5
    DEF Upload, Send, Answer, NoAnswer, LookUp, RollBack, Land, Drop, Perish

(* How an upload moves: nobody else, never out of its end.                 *)
LEMMA UploadMoves ==
  ASSUME TypeOK, NEW u \in Uploads,
         Journal(u) \/ Upload(u) \/ Land(u) \/ Drop(u) \/ Perish(u)
  PROVE  /\ UNCHANGED <<clock, cleanVars>>
         /\ \A v \in Uploads : v # u => up'[v] = up[v] /\ put'[v] = put[v]
         /\ up[u] = "over" => up'[u] = "over"
         /\ up[u] = "new" => Journal(u) \/ UNCHANGED up
         /\ up'[u] = "new" => up[u] = "new" /\ ~ Journal(u)
         /\ Compensate(u) => up'[u] = "over"
  <1> USE DEF Goto, TypeOK
  <1>1. CASE Journal(u) \/ Land(u) \/ Drop(u) \/ Perish(u)
    BY <1>1 DEF Journal, Land, Drop, Perish, Compensate
  <1>2. CASE Send(u) \/ Answer(u) \/ NoAnswer(u) \/ LookUp(u)
    BY <1>2 DEF Send, Answer, NoAnswer, LookUp, Journal, Compensate
  <1>3. CASE Commit(u)
    BY <1>3 DEF Commit, Journal, Compensate
  <1>4. CASE RollBack(u) \/ Release(u) \/ Compensate(u)
    BY <1>4 DEF RollBack, Release, Compensate, Journal
  <1> QED
    BY <1>1, <1>2, <1>3, <1>4 DEF Upload

LEMMA JournalUpload ==
  ASSUME JournalInv, NEW u \in Uploads,
         Journal(u) \/ Upload(u) \/ Land(u) \/ Drop(u) \/ Perish(u)
  PROVE  JournalInv'
  <1>0. TypeOK
    BY DEF JournalInv
  <1>t. TypeOK'
    BY <1>0, TypeUpload
  <1>1. RunsArePast'
    BY <1>0, UploadMoves DEF JournalInv, RunsArePast, cleanVars
  <1>2. UploadsInTime'
    <2> SUFFICES ASSUME NEW v \in Uploads
                 PROVE  /\ up'[v] = "new" => row'[Intent(v)].state = "none"
                        /\ busy(v)' => clock' < row'[Intent(v)].createdAt + Grace
                        /\ up'[v] # "over" => row'[Orphan(v)].state = "none"
      BY DEF UploadsInTime, Intent, Orphan
    <2>1. CASE v # u
      BY <2>1, <1>0, UploadMoves, UploadRows DEF JournalInv, UploadsInTime, busy
    <2>2. CASE v = u /\ Journal(u)
      <3>1. up[u] = "new" /\ row'[Intent(u)] = opened(FALSE)
        BY <2>2, <1>0, IdFacts DEF Journal, TypeOK
      <3>2. clock' < row'[Intent(u)].createdAt + Grace
        BY <3>1, <1>0, UploadMoves, DatesAssumption DEF opened, TypeOK
      <3>3. row'[Orphan(u)].state = "none"
        <4>1. up[u] # "over" /\ ~ Compensate(u)
          BY <3>1 DEF Compensate
        <4> QED
          BY <4>1, <1>0, UploadRows DEF JournalInv, UploadsInTime
      <3> QED
        BY <2>2, <3>2, <3>3, <1>0, UploadMoves
    <2>3. CASE v = u /\ ~ Journal(u)
      <3>1. busy(u)' => busy(u)
        BY <2>3, <1>0, UploadMoves DEF busy
      <3>2. up'[u] # "over" => up[u] # "over" /\ ~ Compensate(u)
        BY <1>0, UploadMoves
      <3>3. up'[u] = "new" => UNCHANGED row
        <4> SUFFICES ASSUME up'[u] = "new" PROVE UNCHANGED row
          OBVIOUS
        <4>1. up[u] = "new"
          BY <1>0, UploadMoves
        <4> QED
          BY <2>3, <4>1 DEF Upload, Send, Answer, NoAnswer, LookUp, Commit,
             RollBack, Release, Compensate, Land, Drop, Perish
      <3> QED
        BY <2>3, <3>1, <3>2, <3>3, <1>0, UploadMoves, UploadRows
        DEF JournalInv, UploadsInTime
    <2> QED
      BY <2>1, <2>2, <2>3
  <1>3. UploadsStored' /\ ReferencedIsStored'
    <2> USE DEF JournalInv, UploadsStored, ReferencedIsStored, TypeOK, Goto
    <2>1. CASE Journal(u) \/ Drop(u) \/ Perish(u) \/ Land(u)
      BY <2>1 DEF Journal, Drop, Perish, Land
    <2>2. CASE Send(u) \/ Answer(u) \/ NoAnswer(u) \/ LookUp(u)
      BY <2>2 DEF Send, Answer, NoAnswer, LookUp
    <2>3. CASE Commit(u)
      BY <2>3 DEF Commit
    <2>4. CASE RollBack(u) \/ Release(u) \/ Compensate(u)
      BY <2>4 DEF RollBack, Release, Compensate
    <2> QED
      BY <2>1, <2>2, <2>3, <2>4 DEF Upload
  <1>4. RunsComeAfter'
    <2> SUFFICES ASSUME NEW c \in Cleaners, pc'[c] \in InTry
                 PROVE  /\ up'[key(c)'] = "over"
                        /\ pc'[c] = "deleting" => key(c)' \notin referenced'
      BY DEF RunsComeAfter, InTry
    <2>1. pc'[c] = pc[c] /\ key(c)' = key(c)
      BY <1>0, UploadMoves DEF cleanVars, key
    <2>2. key(c) \in Uploads /\ up[key(c)] = "over"
      BY <2>1, <1>0, JobFacts DEF JournalInv, RunsComeAfter
    <2>3. up'[key(c)] = "over"
      BY <2>2, <1>0, UploadMoves
    <2>4. referenced' = referenced \/ (up[u] = "stored" /\ referenced' = referenced \cup {u})
      BY DEF Journal, Upload, Send, Answer, NoAnswer, LookUp, Commit, RollBack,
             Release, Compensate, Land, Drop, Perish
    <2> QED
      BY <2>1, <2>2, <2>3, <2>4 DEF JournalInv, RunsComeAfter
  <1> QED
    BY <1>t, <1>1, <1>2, <1>3, <1>4 DEF JournalInv

(* A row that is due belongs to an upload that is over.                    *)
LEMMA DueIsOver ==
  ASSUME JournalInv, NEW id \in Ids, NEW at \in Nat, at <= clock, due(id, at)
  PROVE  up[id[1]] = "over"
  <1> DEFINE u == id[1]
  <1>1. u \in Uploads /\ (id = Intent(u) \/ id = Orphan(u))
    BY IdFacts
  <1>2. row[id].state = "open" /\ row[id].createdAt <= at - Grace
    BY DEF due
  <1>3. CASE id = Orphan(u)
    BY <1>1, <1>2, <1>3 DEF JournalInv, UploadsInTime
  <1>4. CASE id = Intent(u)
    <2>1. row[id].createdAt \in Int /\ clock \in Nat /\ Grace \in Nat
      BY DatesAssumption DEF JournalInv, TypeOK, RowType, Time, NoTime
    <2>2. ~ busy(u)
      BY <1>1, <1>2, <1>4, <2>1 DEF JournalInv, UploadsInTime
    <2> QED
      BY <1>1, <1>2, <1>4, <2>2 DEF JournalInv, UploadsInTime, busy
  <1> QED
    BY <1>1, <1>3, <1>4

(* What a cleanup run does to the rest: rows and objects of uploads that   *)
(* are over.                                                               *)
LEMMA CleanEffects ==
  ASSUME JournalInv, NEW c \in Cleaners, Clean(c) \/ Fail(c) \/ Die(c)
  PROVE  /\ UNCHANGED <<clock, referenced, uploadVars>>
         /\ \A id \in Ids : up[id[1]] # "over" => row'[id] = row[id]
         /\ \A u \in stored \ stored' : up[u] = "over" /\ u \notin referenced
         /\ \A d \in Cleaners : d # c => pc'[d] = pc[d] /\ job'[d] = job[d]
         /\ now' = now \/ now' = [now EXCEPT ![c] = clock]
                       \/ now' = [now EXCEPT ![c] = 0]
  <1> USE DEF JournalInv, TypeOK
  <1>1. CASE StartRun(c) \/ EndRun(c) \/ Die(c)
    BY <1>1 DEF StartRun, EndRun, Die
  <1>2. CASE ClaimNext(c)
    <2>1. PICK k \in batch[c] :
            IF due(k.id, now[c])
            THEN /\ row' = [row EXCEPT ![k.id].claimedAt = clock]
                 /\ job' = [job EXCEPT ![c] =
                      [id |-> k.id, bound |-> k.bound, at |-> clock]]
                 /\ pc' = [pc EXCEPT ![c] = "claimed"]
            ELSE UNCHANGED <<row, job, pc>>
      BY <1>2 DEF ClaimNext
    <2>2. k.id \in Ids
      <3>1. k \in [id : Ids, bound : BOOLEAN]
        BY <2>1
      <3> QED
        BY <3>1
    <2>3. due(k.id, now[c]) => up[k.id[1]] = "over"
      BY <2>2, DueIsOver DEF RunsArePast
    <2> QED
      BY <1>2, <2>1, <2>2, <2>3 DEF ClaimNext
  <1>3. CASE CheckReference(c) \/ RecoverVersion(c) \/ Recheck(c)
    BY <1>3 DEF CheckReference, RecoverVersion, Recheck, Step
  <1>4. CASE Delete(c)
    <2>1. pc[c] \in InTry /\ pc[c] = "deleting"
      BY <1>4 DEF Delete, Step, InTry
    <2> QED
      BY <1>4, <2>1 DEF Delete, Step, RunsComeAfter
  <1>5. CASE Bind(c) \/ \E r : Record(c, r) /\ pc[c] \in InTry
    <2>1. pc[c] \in InTry
      BY <1>5 DEF Bind, Step, InTry
    <2>2. job[c].id \in Ids /\ up[job[c].id[1]] = "over"
      BY <2>1, JobFacts DEF RunsComeAfter, key
    <2>3. CASE Bind(c)
      BY <2>2, <2>3 DEF Bind, Step
    <2>4. CASE \E r : Record(c, r)
      BY <2>2, <2>4 DEF Record
    <2> QED
      BY <1>5, <2>3, <2>4
  <1> QED
    BY <1>1, <1>2, <1>3, <1>4, <1>5
    DEF Clean, Fail, BindConflict, SettleReferenced, SettleDeleted, SettleAbsent,
        InTry

LEMMA JournalClean ==
  ASSUME JournalInv, NEW c \in Cleaners, Clean(c) \/ Fail(c) \/ Die(c)
  PROVE  JournalInv'
  <1>0. TypeOK /\ TypeOK'
    BY TypeClean DEF JournalInv
  <1>1. RunsArePast'
    BY <1>0, CleanEffects DEF JournalInv, RunsArePast, TypeOK
  <1>2. UploadsInTime'
    BY <1>0, CleanEffects, IdFacts
    DEF JournalInv, UploadsInTime, busy, uploadVars
  <1>3. UploadsStored' /\ ReferencedIsStored'
    BY <1>0, CleanEffects
    DEF JournalInv, UploadsStored, ReferencedIsStored, uploadVars, TypeOK
  <1>4. RunsComeAfter'
    <2> SUFFICES ASSUME NEW d \in Cleaners, pc'[d] \in InTry
                 PROVE  /\ up'[key(d)'] = "over"
                        /\ pc'[d] = "deleting" => key(d)' \notin referenced'
      BY DEF RunsComeAfter, InTry
    <2>0. UNCHANGED <<referenced, up>>
      BY CleanEffects DEF uploadVars
    <2>1. CASE d # c
      BY <2>0, <2>1, CleanEffects DEF JournalInv, RunsComeAfter, key
    <2>2. CASE d = c /\ ClaimNext(c)
      <3>1. PICK k \in batch[c] :
              IF due(k.id, now[c])
              THEN /\ job' = [job EXCEPT ![c] =
                        [id |-> k.id, bound |-> k.bound, at |-> clock]]
                   /\ pc' = [pc EXCEPT ![c] = "claimed"]
              ELSE UNCHANGED <<job, pc>>
        BY <2>2 DEF ClaimNext
      <3>2. k \in [id : Ids, bound : BOOLEAN]
        BY <3>1, <1>0 DEF TypeOK
      <3>3. due(k.id, now[c])
        BY <2>2, <3>1 DEF ClaimNext, InTry
      <3>4. up[k.id[1]] = "over"
        BY <3>2, <3>3, <1>0, DueIsOver DEF JournalInv, RunsArePast, TypeOK
      <3> QED
        BY <2>0, <2>2, <3>1, <3>3, <3>4, <1>0 DEF key, TypeOK
    <2>3. CASE d = c /\ (CheckReference(c) \/ RecoverVersion(c) \/ Bind(c)
                           \/ Recheck(c) \/ Delete(c))
      <3>1. pc[c] \in InTry /\ UNCHANGED job
        BY <2>3 DEF CheckReference, RecoverVersion, Bind, Recheck, Delete, Step,
                    InTry
      <3>2. pc'[c] = "deleting" => key(c) \notin referenced
        BY <2>3, <1>0 DEF CheckReference, RecoverVersion, Bind, Recheck, Delete,
                          Step, TypeOK
      <3> QED
        BY <2>0, <2>3, <3>1, <3>2 DEF JournalInv, RunsComeAfter, key
    <2>4. CASE d = c /\ ~ (ClaimNext(c) \/ CheckReference(c)
                 \/ RecoverVersion(c) \/ Bind(c) \/ Recheck(c) \/ Delete(c))
      BY <2>4, <1>0
      DEF Clean, StartRun, EndRun, Fail, Die, BindConflict, SettleReferenced,
          SettleDeleted, SettleAbsent, Record, TypeOK, InTry
    <2> QED
      BY <2>1, <2>2, <2>3, <2>4
  <1> QED
    BY <1>0, <1>1, <1>2, <1>3, <1>4 DEF JournalInv

LEMMA JournalTick ==
  ASSUME JournalInv, Tick, Prompt = Uploads PROVE JournalInv'
  <1>0. TypeOK /\ TypeOK'
    BY TypeTick DEF JournalInv
  <1>1. RunsArePast'
    BY <1>0 DEF JournalInv, RunsArePast, Tick, TypeOK
  <1>2. UploadsInTime'
    BY DEF JournalInv, UploadsInTime, busy, Busy, Tick, uploadVars
  <1>3. UploadsStored' /\ RunsComeAfter' /\ ReferencedIsStored'
    BY DEF JournalInv, UploadsStored, RunsComeAfter, ReferencedIsStored, Tick,
           uploadVars, key
  <1> QED
    BY <1>0, <1>1, <1>2, <1>3 DEF JournalInv

LEMMA JournalStutter == JournalInv /\ UNCHANGED vars => JournalInv'
  <1> SUFFICES ASSUME JournalInv, UNCHANGED vars PROVE JournalInv'
    OBVIOUS
  <1>1. TypeOK'
    BY TypeStutter DEF JournalInv
  <1>2. (RunsArePast /\ UploadsInTime /\ UploadsStored /\ RunsComeAfter
          /\ ReferencedIsStored)'
    BY DEF JournalInv, RunsArePast, UploadsInTime, busy, UploadsStored,
           RunsComeAfter, key, ReferencedIsStored, vars, uploadVars, cleanVars
  <1> QED
    BY <1>1, <1>2 DEF JournalInv

(* If every upload is over within RECONCILIATION_GRACE_MS, no object a      *)
(* document refers to is deleted and no commit refers to a deleted one,     *)
(* however runs of the cleanup race, fail after half their work, or die.    *)
THEOREM NothingReferencedIsDeleted ==
  ASSUME Prompt = Uploads PROVE Spec => []ReferencedIsStored
  <1>1. JournalInv /\ [Next]_vars => JournalInv'
    BY JournalUpload, JournalClean, JournalTick, JournalStutter DEF Next
  <1>2. JournalInv => ReferencedIsStored
    BY DEF JournalInv
  <1> QED
    BY JournalInit, <1>1, <1>2, PTL DEF Spec

-----------------------------------------------------------------------------
(* The journal can be relied on *)

(* A PUT has landed before its object is there, and none is under way once *)
(* the grace period is over.                                               *)
InFlight(u) ==
  /\ u \in stored => put[u] = "landed"
  /\ up[u] \in {"new", "journaled"} => put[u] = "none"
  /\ up[u] \in {"stored", "releasing", "compensating"} => put[u] = "landed"
  /\ put[u] = "flying" => clock < row[Intent(u)].createdAt + Grace

(* Until the upload is over nobody but its own commit closes its intent;   *)
(* what it compensates is therefore the row of its version.                *)
IntentLasts(u) ==
  /\ up[u] # "new" => row[Intent(u)].state # "none"
  /\ busy(u) => \/ row[Intent(u)].state = "open"
                \/ row[Intent(u)].state = "REFERENCED" /\ row[Intent(u)].bound
  /\ up[u] = "compensating" => row[Intent(u)].bound
  /\ row[Orphan(u)].state = "none"

Judged == {"recovering", "binding", "rechecking", "deleting", "deleted", "absent"}

(* What a run has found out about the object stays so.                     *)
Judges(c) ==
  /\ pc[c] \in InTry => put[key(c)] # "flying"
  /\ pc[c] \in Judged => key(c) \notin referenced
  /\ pc[c] \in {"deleted", "absent"} => key(c) \notin stored
  /\ pc[c] = "referenced" => key(c) \in referenced

Truth(id) ==
  /\ row[id].state = "REFERENCED" => id[1] \in referenced
  /\ row[id].state \in {"DELETED", "ABSENT"} =>
       id[1] \notin stored \cup referenced /\ put[id[1]] # "flying"
  /\ row[id].state = "ABSENT" => ~ row[id].bound

CloseInv ==
  /\ JournalInv
  /\ \A u \in Uploads : InFlight(u) /\ IntentLasts(u)
  /\ \A c \in Cleaners : Judges(c)
  /\ \A id \in Ids : Truth(id)

LEMMA CloseInit == Init => CloseInv
  <1> SUFFICES ASSUME Init PROVE CloseInv
    OBVIOUS
  <1>1. JournalInv
    BY JournalInit
  <1>2. \A id \in Ids : row[id] = NoRow /\ Truth(id)
    BY DEF Init, NoRow, Truth
  <1>3. \A u \in Uploads : InFlight(u) /\ IntentLasts(u)
    BY <1>2, IdFacts DEF Init, NoRow, InFlight, IntentLasts, busy
  <1>4. \A c \in Cleaners : Judges(c)
    BY DEF Init, Judges, InTry, Judged
  <1> QED
    BY <1>1, <1>2, <1>3, <1>4 DEF CloseInv

(* What an upload does to its PUT, its object and its document.            *)
LEMMA UploadSets ==
  ASSUME TypeOK, NEW u \in Uploads,
         Journal(u) \/ Upload(u) \/ Land(u) \/ Drop(u) \/ Perish(u)
  PROVE  /\ stored' = stored \/ (Land(u) /\ stored' = stored \cup {u})
         /\ referenced' = referenced \/ (Commit(u) /\ referenced' = referenced \cup {u})
         /\ \/ put' = put
            \/ Send(u) /\ put' = [put EXCEPT ![u] = "flying"]
            \/ Land(u) /\ put' = [put EXCEPT ![u] = "landed"]
            \/ Drop(u) /\ put' = [put EXCEPT ![u] = "lost"]
  BY DEF Journal, Upload, Land, Drop, Perish, Send, Answer, NoAnswer, LookUp,
         Commit, RollBack, Release, Compensate

(* What becomes of the two rows of an upload.                              *)
LEMMA UploadOwnRows ==
  ASSUME TypeOK, NEW u \in Uploads,
         Journal(u) \/ Upload(u) \/ Land(u) \/ Drop(u) \/ Perish(u)
  PROVE  \/ UNCHANGED row
         \/ Journal(u) /\ row'[Intent(u)].state = "open" /\ row'[Orphan(u)] = row[Orphan(u)]
         \/ /\ Commit(u) /\ row'[Orphan(u)] = row[Orphan(u)]
            /\ row'[Intent(u)].state = "REFERENCED" /\ row'[Intent(u)].bound
         \/ /\ Release(u) /\ row'[Orphan(u)] = row[Orphan(u)]
            /\ row[Intent(u)].state = "open" /\ row'[Intent(u)].state = "open"
         \/ /\ Compensate(u) /\ row[Intent(u)].bound
            /\ row'[Intent(u)].state = "open" /\ row'[Orphan(u)] = row[Orphan(u)]
         \/ Compensate(u) /\ ~ row[Intent(u)].bound
  <1>0. /\ row \in [Ids -> RowType] /\ Intent(u) \in Ids /\ Orphan(u) \in Ids
        /\ Intent(u) # Orphan(u) /\ row[Intent(u)] \in RowType
    BY IdFacts DEF TypeOK
  <1>1. CASE Journal(u)
    BY <1>0, <1>1 DEF Journal, opened
  <1>2. CASE Commit(u)
    BY <1>0, <1>2 DEF Commit, closed, RowType
  <1>3. CASE Release(u)
    BY <1>0, <1>3 DEF Release, RowType
  <1>4. CASE Compensate(u)
    BY <1>0, <1>4 DEF Compensate, RowType
  <1>5. CASE UNCHANGED row
    BY <1>5
  <1> QED
    BY <1>1, <1>2, <1>3, <1>4, <1>5
    DEF Upload, Send, Answer, NoAnswer, LookUp, RollBack, Land, Drop, Perish

LEMMA CloseOwnUpload ==
  ASSUME CloseInv, NEW u \in Uploads,
         Journal(u) \/ Upload(u) \/ Land(u) \/ Drop(u) \/ Perish(u)
  PROVE  InFlight(u)' /\ IntentLasts(u)' /\ Truth(Intent(u))' /\ Truth(Orphan(u))'
  <1>0. /\ TypeOK /\ up \in [Uploads -> {"new", "journaled", "putting", "looking", "stored",
                         "releasing", "compensating", "over"}]
        /\ put \in [Uploads -> {"none", "flying", "landed", "lost"}] /\ clock \in Nat
        /\ InFlight(u) /\ IntentLasts(u) /\ Truth(Intent(u)) /\ Truth(Orphan(u))
        /\ Intent(u)[1] = u /\ Orphan(u)[1] = u
    BY IdFacts DEF CloseInv, JournalInv, TypeOK
  <1>1. InFlight(u)'
    <2>1. clock' = clock /\ (~ Journal(u) => row'[Intent(u)].createdAt = row[Intent(u)].createdAt)
      BY <1>0, UploadMoves, UploadRows
    <2>2. CASE Journal(u) \/ Drop(u) \/ Perish(u)
      BY <1>0, <2>1, <2>2 DEF Journal, Drop, Perish, Goto, InFlight, Intent
    <2>3. CASE Land(u) \/ Commit(u) \/ RollBack(u) \/ Release(u) \/ Compensate(u)
      BY <1>0, <2>1, <2>3 DEF Land, Commit, RollBack, Release, Compensate, Goto, InFlight, Intent
    <2>4. CASE Send(u)
      <3>1. up[u] = "journaled" /\ put[u] = "none" /\ u \notin stored
        BY <1>0, <2>4 DEF Send, InFlight
      <3>2. clock < row[Intent(u)].createdAt + Grace
        BY <3>1 DEF CloseInv, JournalInv, UploadsInTime, busy
      <3> QED
        BY <1>0, <2>1, <2>4, <3>1, <3>2 DEF Send, Journal, Goto, InFlight, Intent
    <2>5. CASE Answer(u) \/ NoAnswer(u) \/ LookUp(u)
      BY <1>0, <2>1, <2>5 DEF Answer, NoAnswer, LookUp, Journal, Goto, InFlight, Intent
    <2> QED
      BY <2>2, <2>3, <2>4, <2>5 DEF Upload
  <1>2. IntentLasts(u)'
    <2>1. /\ up[u] = "new" => Journal(u) \/ UNCHANGED up
          /\ up'[u] = "new" => up[u] = "new" /\ ~ Journal(u)
          /\ Compensate(u) => up'[u] = "over"
          /\ ~ Journal(u) => (busy(u)' => busy(u))
      BY <1>0, UploadMoves DEF busy
    <2>2. /\ Compensate(u) => row[Intent(u)].bound
          /\ up'[u] = "compensating" => up[u] = "compensating" \/ Release(u)
      <3>1. Compensate(u) => row[Intent(u)].bound
        BY <1>0 DEF Compensate, IntentLasts
      <3>2. up'[u] = "compensating" => up[u] = "compensating" \/ Release(u)
        BY <1>0 DEF Journal, Upload, Send, Answer, NoAnswer, LookUp, Commit, RollBack,
           Compensate, Land, Drop, Perish, Goto
      <3> QED
        BY <3>1, <3>2
    <2>3. CASE UNCHANGED row
      <3>1. up'[u] = "compensating" => row[Intent(u)].bound
        <4>1. CASE Release(u)
          <5>1. up'[u] = "compensating" => row[Intent(u)].state # "open"
            BY <1>0, <4>1 DEF Release, Goto
          <5>2. busy(u)
            BY <4>1 DEF Release, busy
          <5> QED
            BY <1>0, <5>1, <5>2 DEF IntentLasts
        <4> QED
          BY <1>0, <2>2, <4>1 DEF IntentLasts
      <3>2. ~ Journal(u)
        <4>1. ASSUME Journal(u) PROVE row[Intent(u)].state = "open"
          BY <1>0, <2>3, <4>1, UploadOwnRows, IdFacts DEF Journal, opened, TypeOK
        <4>2. ASSUME Journal(u) PROVE row[Intent(u)].state = "none"
          BY <4>2 DEF Journal, CloseInv, JournalInv, UploadsInTime
        <4> QED
          BY <4>1, <4>2
      <3> QED
        BY <1>0, <2>1, <2>3, <3>1, <3>2 DEF IntentLasts, Intent, Orphan
    <2>4. CASE /\ Journal(u) \/ Commit(u) \/ Release(u) \/ Compensate(u)
               /\ row'[Orphan(u)] = row[Orphan(u)]
               /\ \/ row'[Intent(u)].state = "open"
                  \/ row'[Intent(u)].state = "REFERENCED" /\ row'[Intent(u)].bound
               /\ up'[u] # "compensating"
      BY <1>0, <2>4 DEF IntentLasts, Intent, Orphan
    <2>5. (Journal(u) \/ Commit(u) \/ Compensate(u)) => up'[u] # "compensating"
      BY <1>0 DEF Journal, Commit, Compensate, Goto
    <2>6. (Release(u) /\ row[Intent(u)].state = "open") => up'[u] # "compensating"
      BY <1>0 DEF Release, Goto
    <2> QED
      BY <1>0, <2>2, <2>3, <2>4, <2>5, <2>6, UploadOwnRows
  <1>3. Truth(Orphan(u))'
    BY <1>2 DEF IntentLasts, Truth, Orphan
  <1>4. Truth(Intent(u))'
    <2>1. CASE UNCHANGED row
      <3>1. row[Intent(u)].state \in {"DELETED", "ABSENT"} => ~ Land(u) /\ ~ Send(u) /\ ~ Commit(u)
        <4>1. Send(u) \/ Commit(u) => busy(u)
          BY DEF Send, Commit, busy
        <4> QED
          BY <1>0, <4>1 DEF Land, Truth, IntentLasts
      <3> QED
        BY <1>0, <2>1, <3>1, UploadSets DEF Truth, Intent
    <2>2. CASE row'[Intent(u)].state = "open"
      BY <2>2 DEF Truth, Intent
    <2>3. CASE Commit(u) /\ row'[Intent(u)].state = "REFERENCED"
      <3>1. u \in referenced'
        BY <2>3 DEF Commit
      <3> QED
        BY <1>0, <2>3, <3>1 DEF Truth, Intent
    <2>4. ~ (Compensate(u) /\ ~ row[Intent(u)].bound)
      BY <1>0 DEF Compensate, IntentLasts
    <2> QED
      BY <1>0, <2>1, <2>2, <2>3, <2>4, UploadOwnRows
  <1> QED
    BY <1>1, <1>2, <1>3, <1>4

LEMMA CloseUpload ==
  ASSUME CloseInv, NEW u \in Uploads,
         Journal(u) \/ Upload(u) \/ Land(u) \/ Drop(u) \/ Perish(u)
  PROVE  CloseInv'
  <1>0. /\ TypeOK /\ JournalInv'
        /\ UNCHANGED <<clock, cleanVars>>
        /\ \A v \in Uploads : v # u =>
             /\ up'[v] = up[v] /\ put'[v] = put[v]
             /\ row'[Intent(v)] = row[Intent(v)] /\ row'[Orphan(v)] = row[Orphan(v)]
             /\ (v \in stored' <=> v \in stored) /\ (v \in referenced' <=> v \in referenced)
    <2>1. TypeOK
      BY DEF CloseInv, JournalInv
    <2>2. \A v : v # u => (v \in stored' <=> v \in stored)
                          /\ (v \in referenced' <=> v \in referenced)
      BY <2>1, UploadSets
    <2>3. JournalInv'
      BY JournalUpload DEF CloseInv
    <2> QED
      BY <2>1, <2>2, <2>3, UploadMoves, UploadRows
  <1>1. ASSUME NEW v \in Uploads
        PROVE  InFlight(v)' /\ IntentLasts(v)' /\ Truth(Intent(v))' /\ Truth(Orphan(v))'
    <2>1. CASE v = u
      BY <2>1, CloseOwnUpload
    <2>2. CASE v # u
      <3>1. InFlight(v) /\ IntentLasts(v) /\ Truth(Intent(v)) /\ Truth(Orphan(v))
        BY IdFacts DEF CloseInv
      <3>2. /\ up'[v] = up[v] /\ put'[v] = put[v] /\ clock' = clock
            /\ row'[Intent(v)] = row[Intent(v)] /\ row'[Orphan(v)] = row[Orphan(v)]
            /\ (v \in stored' <=> v \in stored) /\ (v \in referenced' <=> v \in referenced)
        BY <1>0, <2>2
      <3>3. Intent(v)[1] = v /\ Orphan(v)[1] = v
        BY IdFacts
      <3>4. InFlight(v)' /\ IntentLasts(v)'
        BY <3>1, <3>2 DEF InFlight, IntentLasts, busy, Intent, Orphan
      <3>5. Truth(Intent(v))' /\ Truth(Orphan(v))'
        BY <3>1, <3>2, <3>3 DEF Truth, Intent, Orphan
      <3> QED
        BY <3>4, <3>5
    <2> QED
      BY <2>1, <2>2
  <1>2. ASSUME NEW id \in Ids PROVE Truth(id)'
    <2>1. PICK v \in Uploads : id = Intent(v) \/ id = Orphan(v)
      BY IdFacts
    <2>2. Truth(Intent(v))' /\ Truth(Orphan(v))'
      BY <1>1
    <2> QED
      BY <2>1, <2>2 DEF Truth, Intent, Orphan
  <1>3. ASSUME NEW c \in Cleaners PROVE Judges(c)'
    <2>1. pc'[c] = pc[c] /\ key(c)' = key(c)
      BY <1>0 DEF cleanVars, key
    <2>2. CASE pc[c] \notin InTry
      BY <2>1, <2>2 DEF Judges, Judged, InTry
    <2>3. CASE pc[c] \in InTry
      <3> DEFINE v == key(c)
      <3>1. v \in Uploads /\ up[v] = "over" /\ put[v] # "flying" /\ Judges(c)
        BY <1>0, <2>3, JobFacts DEF CloseInv, JournalInv, RunsComeAfter, Judges
      <3>2. v = u => ~ Land(u) /\ ~ Commit(u) /\ ~ Send(u)
        BY <3>1 DEF Land, Commit, Send
      <3>3. v \in referenced' <=> v \in referenced
        BY <1>0, <3>1, <3>2, UploadSets
      <3>4. v \in stored' <=> v \in stored
        BY <1>0, <3>1, <3>2, UploadSets
      <3>5. put'[v] # "flying"
        <4>1. CASE v = u
          <5>1. ~ Drop(u)
            BY <3>1, <4>1 DEF Drop
          <5> QED
            BY <1>0, <3>1, <3>2, <4>1, <5>1, UploadSets
        <4>2. CASE v # u
          BY <1>0, <3>1, <4>2
        <4> QED
          BY <4>1, <4>2
      <3> QED
        BY <2>1, <3>1, <3>3, <3>4, <3>5 DEF Judges
    <2> QED
      BY <2>2, <2>3
  <1> QED
    BY <1>0, <1>1, <1>2, <1>3 DEF CloseInv

(* What a row that is due says: its upload has nothing under way.          *)
LEMMA DueHasLanded ==
  ASSUME CloseInv, NEW id \in Ids, NEW at \in Nat, at <= clock, due(id, at)
  PROVE  put[id[1]] # "flying"
  <1> DEFINE u == id[1]
  <1>1. u \in Uploads /\ (id = Intent(u) \/ id = Orphan(u))
    BY IdFacts
  <1>2. row[id].state = "open" /\ row[id].createdAt <= at - Grace
    BY DEF due
  <1>3. id = Intent(u)
    BY <1>1, <1>2 DEF CloseInv, IntentLasts
  <1>4. row[id].createdAt \in Int /\ clock \in Nat /\ Grace \in Nat
    BY DatesAssumption DEF CloseInv, JournalInv, TypeOK, RowType, Time, NoTime
  <1>5. InFlight(u)
    BY <1>1 DEF CloseInv
  <1> QED
    BY <1>2, <1>3, <1>4, <1>5 DEF InFlight

(* What a run writes to a row: a claim, a version, or the end of it, which *)
(* is what the run has found out.                                          *)
LEMMA CleanRows ==
  ASSUME CloseInv, NEW c \in Cleaners, Clean(c) \/ Fail(c) \/ Die(c), NEW id \in Ids
  PROVE  /\ row'[id].createdAt = row[id].createdAt
         /\ \/ row'[id] = row[id]
            \/ /\ row[id].state = "open" /\ up[id[1]] = "over"
               /\ \/ row'[id].state = "open"
                  \/ /\ id = job[c].id
                     /\ \/ pc[c] = "referenced" /\ row'[id].state = "REFERENCED"
                        \/ pc[c] = "deleted" /\ row'[id].state = "DELETED"
                        \/ pc[c] = "absent" /\ row'[id].state = "ABSENT" /\ ~ row'[id].bound
  <1>0. TypeOK /\ JournalInv /\ row \in [Ids -> RowType] /\ row[id] \in RowType
    BY DEF CloseInv, JournalInv, TypeOK
  <1>1. CASE \/ StartRun(c) \/ EndRun(c) \/ Die(c) \/ CheckReference(c)
             \/ RecoverVersion(c) \/ Recheck(c) \/ Delete(c)
    BY <1>1 DEF StartRun, EndRun, Die, CheckReference, RecoverVersion, Recheck, Delete
  <1>2. CASE ClaimNext(c)
    <2>1. PICK k \in batch[c] :
            IF due(k.id, now[c])
            THEN row' = [row EXCEPT ![k.id].claimedAt = clock]
            ELSE UNCHANGED row
      BY <1>2 DEF ClaimNext
    <2>2. k.id \in Ids
      <3>1. k \in [id : Ids, bound : BOOLEAN]
        BY <1>0, <2>1 DEF TypeOK
      <3> QED
        BY <3>1
    <2>3. CASE due(k.id, now[c])
      <3>1. up[k.id[1]] = "over" /\ row[k.id].state = "open"
        BY <1>0, <2>2, <2>3, DueIsOver DEF JournalInv, RunsArePast, TypeOK, due
      <3>2. row' = [row EXCEPT ![k.id].claimedAt = clock]
        BY <2>1, <2>3
      <3> QED
        BY <1>0, <3>1, <3>2 DEF RowType
    <2>4. CASE ~ due(k.id, now[c])
      BY <2>1, <2>4
    <2> QED
      BY <2>3, <2>4
  <1>3. CASE pc[c] \in InTry /\ (Bind(c) \/ \E r : Record(c, r))
    <2>1. job[c].id \in Ids /\ up[job[c].id[1]] = "over" /\ row[job[c].id] \in RowType
      BY <1>0, <1>3, JobFacts DEF JournalInv, RunsComeAfter, key, GoodRow
    <2>2. CASE Bind(c)
      BY <1>0, <2>1, <2>2 DEF Bind, own, RowType
    <2>3. CASE /\ own(c)
               /\ Clean(c) \/ Fail(c)
               /\ \/ Record(c, released(row[job[c].id]))
                  \/ pc[c] = "referenced" /\ Record(c, closed(row[job[c].id], "REFERENCED"))
                  \/ pc[c] = "deleted" /\ Record(c, closed(row[job[c].id], "DELETED"))
                  \/ pc[c] = "absent" /\ Record(c, absent(row[job[c].id]))
      <3>0. row[job[c].id].state = "open"
        BY <2>3 DEF own
      <3>1. CASE Record(c, released(row[job[c].id]))
        BY <1>0, <2>1, <2>3, <3>0, <3>1 DEF Record, released, RowType
      <3>2. CASE pc[c] = "referenced" /\ Record(c, closed(row[job[c].id], "REFERENCED"))
        BY <1>0, <2>1, <2>3, <3>0, <3>2 DEF Record, closed, RowType
      <3>3. CASE pc[c] = "deleted" /\ Record(c, closed(row[job[c].id], "DELETED"))
        BY <1>0, <2>1, <2>3, <3>0, <3>3 DEF Record, closed, RowType
      <3>4. CASE pc[c] = "absent" /\ Record(c, absent(row[job[c].id]))
        BY <1>0, <2>1, <2>3, <3>0, <3>4 DEF Record, absent, closed, RowType
      <3> QED
        BY <2>3, <3>1, <3>2, <3>3, <3>4
    <2>4. CASE ~ own(c) /\ \E r : Record(c, r)
      BY <2>4 DEF Record
    <2>5. \/ Bind(c)
          \/ Record(c, released(row[job[c].id]))
          \/ pc[c] = "referenced" /\ Record(c, closed(row[job[c].id], "REFERENCED"))
          \/ pc[c] = "deleted" /\ Record(c, closed(row[job[c].id], "DELETED"))
          \/ pc[c] = "absent" /\ Record(c, absent(row[job[c].id]))
          \/ UNCHANGED row
      BY <1>1, <1>2, <1>3
      DEF Clean, StartRun, EndRun, Die, CheckReference, RecoverVersion, Recheck, Delete,
          Fail, BindConflict, SettleReferenced, SettleDeleted, SettleAbsent, ClaimNext,
          Step, InTry
    <2> QED
      BY <1>3, <2>2, <2>3, <2>4, <2>5, <1>1, <1>2 DEF Clean
  <1> QED
    BY <1>1, <1>2, <1>3
    DEF Clean, Fail, BindConflict, SettleReferenced, SettleDeleted, SettleAbsent,
        Bind, Step, InTry

(* Where a run stands after its step, and over which row.                  *)
LEMMA JudgesOwn ==
  ASSUME CloseInv, NEW c \in Cleaners, Clean(c) \/ Fail(c) \/ Die(c)
  PROVE  Judges(c)'
  <1>0. /\ TypeOK /\ pc \in [Cleaners -> {"idle", "working"} \cup InTry]
        /\ UNCHANGED <<referenced, put>>
        /\ Judges(c) /\ job \in [Cleaners -> Jobs \cup {NoJob}]
    BY CleanEffects DEF CloseInv, JournalInv, TypeOK, uploadVars
  <1>1. CASE pc'[c] \notin InTry
    BY <1>1 DEF Judges, Judged, InTry
  <1>2. CASE ClaimNext(c) /\ pc'[c] \in InTry
    <2>1. PICK k \in batch[c] :
            IF due(k.id, now[c])
            THEN /\ job' = [job EXCEPT ![c] =
                      [id |-> k.id, bound |-> k.bound, at |-> clock]]
                 /\ pc' = [pc EXCEPT ![c] = "claimed"]
            ELSE UNCHANGED <<job, pc>>
      BY <1>2 DEF ClaimNext
    <2>2. k \in [id : Ids, bound : BOOLEAN]
      BY <1>0, <2>1 DEF TypeOK
    <2>3. due(k.id, now[c])
      BY <1>2, <2>1 DEF ClaimNext, InTry
    <2>4. put[k.id[1]] # "flying"
      BY <2>2, <2>3, DueHasLanded DEF CloseInv, JournalInv, RunsArePast, TypeOK
    <2>5. pc'[c] = "claimed" /\ key(c)' = k.id[1]
      BY <1>0, <2>1, <2>3 DEF key
    <2> QED
      BY <1>0, <2>4, <2>5 DEF Judges, Judged
  <1>3. CASE /\ CheckReference(c) \/ RecoverVersion(c) \/ Bind(c) \/ Recheck(c)
             /\ pc'[c] \in InTry
    <2>1. pc[c] \in InTry /\ key(c)' = key(c) /\ UNCHANGED stored
      BY <1>3 DEF CheckReference, RecoverVersion, Bind, Recheck, Step, InTry, key
    <2>2. CASE CheckReference(c)
      BY <1>0, <2>1, <2>2 DEF CheckReference, Step, Judges, Judged
    <2>3. CASE RecoverVersion(c)
      BY <1>0, <2>1, <2>3 DEF RecoverVersion, Step, Judges, Judged
    <2>4. CASE Bind(c) \/ Recheck(c)
      BY <1>0, <2>1, <2>4 DEF Bind, Recheck, Step, Judges, Judged
    <2> QED
      BY <1>3, <2>2, <2>3, <2>4
  <1>4. CASE Delete(c)
    <2>1. /\ pc[c] = "deleting" /\ pc'[c] = "deleted" /\ key(c)' = key(c)
          /\ stored' = stored \ {key(c)}
      BY <1>0, <1>4 DEF Delete, Step, key
    <2> QED
      BY <1>0, <2>1 DEF Judges, Judged, InTry
  <1> QED
    BY <1>0, <1>1, <1>2, <1>3, <1>4
    DEF Clean, StartRun, EndRun, Die, Fail, BindConflict, SettleReferenced, SettleDeleted,
        SettleAbsent, Record, InTry

LEMMA CloseClean ==
  ASSUME CloseInv, NEW c \in Cleaners, Clean(c) \/ Fail(c) \/ Die(c)
  PROVE  CloseInv'
  <1>0. /\ TypeOK /\ JournalInv /\ JournalInv'
        /\ UNCHANGED <<clock, referenced, up, put>>
        /\ stored' \subseteq stored
        /\ \A d \in Cleaners : d # c => pc'[d] = pc[d] /\ job'[d] = job[d]
    <2>1. stored' \subseteq stored
      BY DEF Clean, StartRun, EndRun, Die, Fail, BindConflict, SettleReferenced,
             SettleDeleted, SettleAbsent, Record, ClaimNext, CheckReference,
             RecoverVersion, Recheck, Bind, Delete
    <2> QED
      BY <2>1, JournalClean, CleanEffects DEF CloseInv, JournalInv, uploadVars
  <1>1. ASSUME NEW u \in Uploads PROVE InFlight(u)' /\ IntentLasts(u)'
    <2>0. /\ Intent(u) \in Ids /\ Intent(u)[1] = u /\ Orphan(u) \in Ids
          /\ InFlight(u) /\ IntentLasts(u)
      BY IdFacts DEF CloseInv
    <2>1. row'[Intent(u)].createdAt = row[Intent(u)].createdAt
      BY <2>0, CleanRows
    <2>2. \/ row'[Intent(u)] = row[Intent(u)]
          \/ up[u] = "over" /\ row'[Intent(u)].state # "none"
      BY <2>0, CleanRows
    <2>3. row'[Orphan(u)] = row[Orphan(u)]
      BY <2>0, CleanRows DEF IntentLasts
    <2>4. InFlight(u)'
      BY <1>0, <2>0, <2>1 DEF InFlight, Intent
    <2>5. IntentLasts(u)'
      BY <1>0, <2>0, <2>2, <2>3 DEF IntentLasts, busy, Intent, Orphan
    <2> QED
      BY <2>4, <2>5
  <1>2. ASSUME NEW id \in Ids PROVE Truth(id)'
    <2>0. Truth(id) /\ Judges(c)
      BY DEF CloseInv
    <2>1. CASE row'[id] = row[id]
      BY <1>0, <2>0, <2>1 DEF Truth
    <2>2. CASE row'[id].state = "open"
      BY <2>2 DEF Truth
    <2>3. CASE /\ id = job[c].id
               /\ \/ pc[c] = "referenced" /\ row'[id].state = "REFERENCED"
                  \/ pc[c] = "deleted" /\ row'[id].state = "DELETED"
                  \/ pc[c] = "absent" /\ row'[id].state = "ABSENT" /\ ~ row'[id].bound
      <3>1. key(c) = id[1]
        BY <2>3 DEF key
      <3> QED
        BY <1>0, <2>0, <2>3, <3>1 DEF Truth, Judges, Judged, InTry
    <2> QED
      BY <2>1, <2>2, <2>3, CleanRows
  <1>3. ASSUME NEW d \in Cleaners PROVE Judges(d)'
    <2>1. CASE d = c
      BY <2>1, JudgesOwn
    <2>2. CASE d # c
      <3>1. pc'[d] = pc[d] /\ key(d)' = key(d) /\ Judges(d)
        BY <1>0, <2>2 DEF key, CloseInv
      <3> QED
        BY <1>0, <3>1 DEF Judges
    <2> QED
      BY <2>1, <2>2
  <1> QED
    BY <1>0, <1>1, <1>2, <1>3 DEF CloseInv

LEMMA CloseTick ==
  ASSUME CloseInv, Tick, Prompt = Uploads PROVE CloseInv'
  <1>0. JournalInv' /\ UNCHANGED <<row, stored, referenced, up, put, pc, job>>
    BY JournalTick DEF CloseInv, Tick, uploadVars
  <1>1. ASSUME NEW u \in Uploads PROVE InFlight(u)' /\ IntentLasts(u)'
    <2>1. put[u] = "flying" => clock' < row[Intent(u)].createdAt + Grace
      BY DEF Tick, Busy
    <2>2. InFlight(u) /\ IntentLasts(u)
      BY DEF CloseInv
    <2>3. InFlight(u)'
      BY <1>0, <2>1, <2>2 DEF InFlight, Intent
    <2>4. IntentLasts(u)'
      BY <1>0, <2>2 DEF IntentLasts, busy, Intent, Orphan
    <2> QED
      BY <2>3, <2>4
  <1>2. (\A c \in Cleaners : Judges(c)') /\ \A id \in Ids : Truth(id)'
    BY <1>0 DEF CloseInv, Judges, Truth, key
  <1> QED
    BY <1>0, <1>1, <1>2 DEF CloseInv

LEMMA CloseStutter ==
  ASSUME CloseInv, UNCHANGED vars PROVE CloseInv'
  <1>0. JournalInv' /\ UNCHANGED <<row, stored, referenced, up, put, clock, pc, job>>
    BY JournalStutter DEF CloseInv, vars, uploadVars, cleanVars
  <1>1. \A u \in Uploads : InFlight(u)' /\ IntentLasts(u)'
    BY <1>0 DEF CloseInv, InFlight, IntentLasts, busy, Intent, Orphan
  <1>2. (\A c \in Cleaners : Judges(c)') /\ \A id \in Ids : Truth(id)'
    BY <1>0 DEF CloseInv, Judges, Truth, key
  <1> QED
    BY <1>0, <1>1, <1>2 DEF CloseInv

LEMMA CloseImplies == CloseInv => JournalIsTrue
  <1> SUFFICES ASSUME CloseInv PROVE NothingForgotten /\ ClosedIsTrue
    BY DEF JournalIsTrue
  <1>1. ClosedIsTrue
    BY DEF CloseInv, ClosedIsTrue, Truth
  <1>2. NothingForgotten
    <2> SUFFICES ASSUME NEW u \in stored \ referenced, up[u] = "over"
                 PROVE  row[Intent(u)].state = "open"
      BY DEF NothingForgotten
    <2>1. u \in Uploads /\ Intent(u) \in Ids /\ Intent(u)[1] = u
      BY IdFacts DEF CloseInv, JournalInv, TypeOK
    <2>2. row[Intent(u)].state # "none" /\ Truth(Intent(u))
      BY <2>1 DEF CloseInv, IntentLasts
    <2>3. row[Intent(u)].state \in {"none", "open"} \cup Resolution
      BY <2>1 DEF CloseInv, JournalInv, TypeOK, RowType
    <2> QED
      BY <2>1, <2>2, <2>3 DEF Truth, Resolution
  <1> QED
    BY <1>1, <1>2

(* If every upload is over within RECONCILIATION_GRACE_MS, no object is     *)
(* forgotten and every closed row says the truth: the job never closes a    *)
(* row as ABSENT or DELETED whose object is there or still on its way, nor  *)
(* one as REFERENCED that is not, however its runs race, fail and die.      *)
THEOREM JournalCanBeReliedOn ==
  ASSUME Prompt = Uploads PROVE Spec => []JournalIsTrue
  <1>1. CloseInv /\ [Next]_vars => CloseInv'
    BY CloseUpload, CloseClean, CloseTick, CloseStutter DEF Next
  <1> QED
    BY CloseInit, <1>1, CloseImplies, PTL DEF Spec
================================================================================
