-------------------------- MODULE VerifyCheckpoint --------------------------
(***************************************************************************)
(* The daily check of one tenant's audit chain with stored checkpoints     *)
(* (packages/evidence/src/verify-checkpoint.ts): overlapping runs walk the *)
(* chain in segments, each a transaction of its own, and store how far     *)
(* they came by compare-and-set on the row INCREMENTAL; a full             *)
(* verification walks it again from genesis up to the frozen FULL_TARGET   *)
(* and stores its progress in the row FULL.  Two rows are read by two      *)
(* statements, and another run may commit between them.                    *)
(*                                                                         *)
(* Rows, seals and anchors are numbered 1, 2, ... in commit order, a seal  *)
(* and an anchor are the row they cover (their tip).  `altered' are rows   *)
(* that no longer reproduce their hash.  The MAC a compare-and-set looks   *)
(* at differs in every write (it covers the strictly later verified_at):   *)
(* incBy and fullBy are the runs whose copy is still the stored row.  For  *)
(* the same reason a row that replaced one's own is always later written,  *)
(* as nobody plays an old row back; the checks that look for that are left *)
(* out.  A finding about a seal or an anchor is an alarm like the others.  *)
(***************************************************************************)
EXTENDS Integers, Sequences, FiniteSets

CONSTANTS Runs,          \* runs of the job that may overlap
          SegmentRows,   \* rows of one segment (5000)
          SegmentAnchors,\* anchors of one segment (250)
          MaxRows, MaxSeals, MaxAnchors,     \* bounds of the chain
          MaxAltered, MaxCrashes, MaxStalls  \* bounds of what may go wrong

ASSUME RunsAssumption == IsFiniteSet(Runs)
ASSUME LimitsAssumption == {SegmentRows, SegmentAnchors} \subseteq Nat \ {0}
ASSUME BoundsAssumption ==
  {MaxRows, MaxSeals, MaxAnchors, MaxAltered, MaxCrashes, MaxStalls} \subseteq Nat

VARIABLES rows,          \* committed rows 1 .. rows
          seals, anchors,\* their tips, in order of id
          altered,
          inc, full, target, \* audit_verify_checkpoint, one row per kind
          incBy, fullBy,
          run,
          alarms,        \* the first kind of "Manipulationsverdacht" or finding
          found,         \* an altered row was met and reported
          crashes, stalls

chain  == <<rows, seals, anchors, altered>>
store  == <<inc, full, target, incBy, fullBy>>
harm   == <<crashes, stalls>>
report == <<alarms, found>>
vars   == <<chain, store, run, report, harm>>

None    == [none |-> TRUE]
Endless == MaxRows + 1     \* no upper bound, the end of the chain

SweepIds == 1 .. Cardinality(Runs) + 2

Least(S) == CHOOSE m \in S : \A n \in S : m <= n
Lower(a, b)  == IF a < b THEN a ELSE b
Higher(a, b) == IF a > b THEN a ELSE b

(* A cursor; `since' is not in the code: the rows that were altered when    *)
(* this line left genesis.                                                  *)
Genesis(seal) == [row |-> 0, seal |-> seal, seals |-> 0, anchor |-> 0, since |-> altered]

NoCursor == [row |-> 0, seal |-> 0, seals |-> 0, anchor |-> 0, since |-> {}]

Idle == [pc |-> "idle", bound |-> [row |-> Endless, seal |-> 0, anchor |-> 0],
         held |-> None, cur |-> NoCursor,
         fromGenesis |-> FALSE, walked |-> FALSE, restarted |-> FALSE,
         persist |-> TRUE, discarded |-> FALSE, lastFull |-> FALSE,
         tip |-> 0, goal |-> NoCursor, read |-> None]

Init ==
  /\ rows = 0 /\ seals = <<>> /\ anchors = <<>> /\ altered = {}
  /\ inc = None /\ full = None /\ target = None /\ incBy = {} /\ fullBy = {}
  /\ run = [r \in Runs |-> Idle]
  /\ alarms = {} /\ found = FALSE /\ crashes = 0 /\ stalls = 0

-----------------------------------------------------------------------------
(* The chain.  A day is sealed after it is over, its tip may lie far below  *)
(* the end; an anchor covers more than its predecessor.                     *)
Record == /\ rows < MaxRows
          /\ rows' = rows + 1
          /\ UNCHANGED <<seals, anchors, altered, store, run, report, harm>>

Seal == /\ Len(seals) < MaxSeals
        /\ \E top \in 1 .. rows : seals' = Append(seals, top)
        /\ UNCHANGED <<rows, anchors, altered, store, run, report, harm>>

Anchor == /\ Len(anchors) < MaxAnchors
          /\ \E top \in 1 .. rows :
               /\ \A i \in DOMAIN anchors : anchors[i] < top
               /\ anchors' = Append(anchors, top)
          /\ UNCHANGED <<rows, seals, altered, store, run, report, harm>>

Alter == /\ Cardinality(altered) < MaxAltered
         /\ \E n \in (1 .. rows) \ altered : altered' = altered \union {n}
         /\ UNCHANGED <<rows, seals, anchors, store, run, report, harm>>

-----------------------------------------------------------------------------
\* Variants of definitions, each with a bug that code could have, stand before
\* them, are named after them and take no part in the specification.

(* verifyChainSegment: from cursor c within bounds b, where the walk found  *)
(* the chain to end at `tip'.                                               *)
Block(c, b) == c.anchor + 1 .. Lower(b.anchor, c.anchor + SegmentAnchors)
BlockFullIfMore(c, b) == Cardinality(Block(c, b)) > SegmentAnchors
BlockFull(c, b) == Cardinality(Block(c, b)) = SegmentAnchors

(* segmentWalkLimit: a full block ends the walk at its highest tip.         *)
HighestTip(c, b)    == anchors[c.anchor + SegmentAnchors]
AnchorLimited(c, b) == BlockFull(c, b) /\ HighestTip(c, b) < b.row
Until(c, b)         == IF AnchorLimited(c, b) THEN HighestTip(c, b) ELSE b.row

(* walkChain *)
LastRow(c, b, tip) ==
  Higher(c.row, Lower(Lower(Until(c, b), tip), c.row + SegmentRows))
Exhausted(c, b, tip)  == LastRow(c, b, tip) - c.row < SegmentRows
SegmentEnd(c, b, tip) == Exhausted(c, b, tip) /\ ~AnchorLimited(c, b)
CoveredUpTo(c, b, tip) == IF Exhausted(c, b, tip) THEN Until(c, b) ELSE LastRow(c, b, tip)

WalkedRows(c, b, tip) == c.row + 1 .. LastRow(c, b, tip)

(* fetchSegmentSeals: those whose tip was just read, and those added since  *)
(* with a tip that was read before.                                         *)
SegmentSeals(c, b, tip) ==
  {s \in 1 .. b.seal :
     \/ /\ seals[s] > c.row
        /\ SegmentEnd(c, b, tip) \/ seals[s] <= CoveredUpTo(c, b, tip)
     \/ seals[s] <= c.row /\ s > c.seal}

Dangling(c, b, tip) == {s \in SegmentSeals(c, b, tip) : seals[s] > LastRow(c, b, tip)}

(* dueAnchors: in order of id, up to the first whose tip was not yet read.  *)
DueAnchors(c, b, tip) ==
  IF SegmentEnd(c, b, tip) THEN Block(c, b)
  ELSE {a \in Block(c, b) : \A i \in c.anchor + 1 .. a : anchors[i] <= CoveredUpTo(c, b, tip)}

Unread(c, b, tip) == {a \in DueAnchors(c, b, tip) : anchors[a] > LastRow(c, b, tip)}

(* segmentHashAt: tips below the cursor are computed once more.             *)
BrokenBelow(c, b, tip) ==
  {n \in altered : n <= c.row
     /\ \/ \E s \in SegmentSeals(c, b, tip) : seals[s] = n
        \/ \E a \in DueAnchors(c, b, tip) : anchors[a] = n}

Advanced(c, b, tip) ==
  [c EXCEPT !.row = LastRow(c, b, tip),
            !.seal = Higher(c.seal, b.seal),
            !.seals = @ + Cardinality(SegmentSeals(c, b, tip) \ Dangling(c, b, tip)),
            !.anchor = @ + Cardinality(DueAnchors(c, b, tip))]

Complete(c, b, tip) == SegmentEnd(c, b, tip) /\ ~BlockFull(c, b)

Findings(c, b, tip) ==
  IF Dangling(c, b, tip) \union Unread(c, b, tip) = {} THEN {} ELSE {"finding"}

(* checkpointIntegrityProblem *)
SealsUpTo(c) == {s \in DOMAIN seals : s <= c.seal /\ seals[s] <= c.row}
Fits(c) ==
  /\ c.row \notin altered
  /\ Cardinality(SealsUpTo(c)) = c.seals
  /\ c.anchor <= Len(anchors)

-----------------------------------------------------------------------------
(* What a run does next, and the ways it ends. *)
Goto(r, pc) == run' = [run EXCEPT ![r].pc = pc]

Leave(r) == incBy' = incBy \ {r} /\ fullBy' = fullBy \ {r}
End(r)   == run' = [run EXCEPT ![r] = Idle]

FirstOnly(kinds) == IF alarms = {} THEN kinds ELSE alarms

(* discardCheckpoints and failAndReset note the finding first and delete in *)
(* a transaction of their own; the one goes on at genesis, the other ends.  *)
Alarm(r, pc, kind, about) ==
  /\ Goto(r, pc)
  /\ alarms' = FirstOnly({kind})
  /\ found' = (found \/ about \in altered)

DeleteButTarget == /\ inc' = None /\ full' = None
                   /\ incBy' = {} /\ fullBy' = {} /\ UNCHANGED target

Delete == /\ inc' = None /\ full' = None /\ target' = None
          /\ incBy' = {} /\ fullBy' = {}

AtGenesis(rec) == [rec EXCEPT !.held = None, !.cur = Genesis(0), !.fromGenesis = TRUE,
                              !.walked = TRUE, !.pc = "walk"]

Holding(rec, row) ==
  [rec EXCEPT !.held = row, !.cur = row.cur, !.fromGenesis = ~row.done, !.walked = FALSE]

(* Bounds before every walk: such a seal or anchor binds only rows the walk *)
(* will read.                                                               *)
Begin(r) ==
  /\ run[r].pc = "idle"
  /\ run' = [run EXCEPT ![r] = [Idle EXCEPT !.pc = "load", !.bound =
                                [row |-> Endless, seal |-> Len(seals), anchor |-> Len(anchors)]]]
  /\ UNCHANGED <<chain, store, report, harm>>

BoundsOfLate(r) == [row |-> run[r].bound.row, seal |-> Len(seals), anchor |-> Len(anchors)]

BoundsOf(r) == [row    |-> run[r].bound.row,
                seal   |-> Higher(run[r].bound.seal, run[r].cur.seal),
                anchor |-> Higher(run[r].bound.anchor, run[r].cur.anchor)]

(* loadIncrementalOrDiscard *)
Load(r) ==
  /\ run[r].pc = "load"
  /\ IF inc = None THEN Goto(r, "orphans") /\ UNCHANGED <<incBy, report>>
     ELSE IF ~Fits(inc.cur) THEN Alarm(r, "discard", "misfit", inc.cur.row) /\ UNCHANGED incBy
     ELSE /\ run' = [run EXCEPT ![r] = [Holding(run[r], inc) EXCEPT !.pc = "walk",
                                                               !.lastFull = inc.done]]
          /\ incBy' = incBy \union {r}
          /\ UNCHANGED report
  /\ UNCHANGED <<chain, inc, full, target, fullBy, harm>>

Orphans(r) ==
  /\ run[r].pc = "orphans"
  /\ IF full = None /\ target = None
     THEN run' = [run EXCEPT ![r] = AtGenesis(run[r])] /\ UNCHANGED report
     ELSE Alarm(r, "discard", "orphan", 0)
  /\ UNCHANGED <<chain, store, harm>>

DiscardAll(r) ==
  /\ run[r].pc = "discard"
  /\ Delete
  /\ run' = [run EXCEPT ![r] = [AtGenesis(run[r]) EXCEPT !.persist = ~run[r].discarded,
                                  !.discarded = TRUE, !.lastFull = FALSE]]
  /\ UNCHANGED <<chain, report, harm>>

-----------------------------------------------------------------------------
(* A segment reads rows first, then seals and anchors, and is stored in the *)
(* same transaction.  A broken row above the cursor ends the line.          *)
Walk(r) ==
  /\ run[r].pc \in {"walk", "sweepWalk"}
  /\ LET hit == WalkedRows(run[r].cur, BoundsOf(r), rows) \intersect altered IN
     IF hit = {}
     THEN /\ run' = [run EXCEPT ![r].tip = rows,
                       ![r].pc = IF @ = "walk" THEN "conclude" ELSE "sweepConclude"]
          /\ UNCHANGED found
     ELSE Goto(r, IF run[r].pc = "walk" THEN "due" ELSE "reset") /\ found' = TRUE
  /\ UNCHANGED <<chain, store, alarms, harm>>

Outcome(r)    == Advanced(run[r].cur, BoundsOf(r), run[r].tip)
IsComplete(r) == Complete(run[r].cur, BoundsOf(r), run[r].tip)
IsBroken(r)   == BrokenBelow(run[r].cur, BoundsOf(r), run[r].tip) # {}
Noted(r)      == alarms' = FirstOnly(Findings(run[r].cur, BoundsOf(r), run[r].tip))

NextPc(r) == IF ~IsComplete(r) THEN "walk"
             ELSE IF run[r].fromGenesis THEN "complete" ELSE "due"

(* A row below the cursor that a late seal or anchor shows to be altered:   *)
(* once per run the line starts again at genesis.                           *)
ConcludeBroken(r) ==
  /\ run[r].pc = "conclude" /\ IsBroken(r)
  /\ found' = TRUE
  /\ run' = [run EXCEPT ![r].tip = 0,
               ![r].pc = IF run[r].restarted THEN "due" ELSE "restart"]
  /\ UNCHANGED <<chain, store, alarms, harm>>

Restart(r) ==
  /\ run[r].pc = "restart"
  /\ IF run[r].persist THEN Delete ELSE UNCHANGED store
  /\ run' = [run EXCEPT ![r] = [AtGenesis(run[r]) EXCEPT !.restarted = TRUE, !.lastFull = FALSE]]
  /\ UNCHANGED <<chain, report, harm>>

(* A run whose checkpoints were discarded twice goes on without storing.    *)
ConcludeUnstored(r) ==
  /\ run[r].pc = "conclude" /\ ~IsBroken(r) /\ ~run[r].persist
  /\ run' = [run EXCEPT ![r].cur = Outcome(r), ![r].tip = 0, ![r].pc = NextPc(r)]
  /\ Noted(r)
  /\ UNCHANGED <<chain, store, found, harm>>

(* insertCheckpoint, updateCheckpoint *)
MayStore(r) == IF run[r].held = None THEN inc = None ELSE r \in incBy

Conclude(r) ==
  /\ run[r].pc = "conclude" /\ ~IsBroken(r) /\ run[r].persist
  /\ IF MayStore(r)
     THEN /\ inc' = [cur |-> Outcome(r),
                     done |-> run[r].held # None /\ run[r].held.done,
                     sweep |-> IF run[r].held = None THEN 0 ELSE run[r].held.sweep]
          /\ incBy' = {r}
          /\ run' = [run EXCEPT ![r].held = inc', ![r].cur = Outcome(r), ![r].tip = 0,
                                ![r].pc = NextPc(r)]
          /\ Noted(r)
     ELSE /\ run' = [run EXCEPT ![r].pc = "resolve", ![r].tip = 0]
          /\ UNCHANGED <<inc, incBy, alarms>>
  /\ UNCHANGED <<chain, full, target, fullBy, found, harm>>

(* completeLine: the line from genesis has reached the end of the chain.    *)
CompleteLine(r) ==
  /\ run[r].pc = "complete"
  /\ IF run[r].persist /\ r \notin incBy
     THEN Goto(r, "resolve") /\ UNCHANGED store
     ELSE /\ End(r) /\ UNCHANGED <<full, target>>
          /\ IF run[r].persist
             THEN inc' = [run[r].held EXCEPT !.done = TRUE] /\ incBy' = {} /\ UNCHANGED fullBy
             ELSE Leave(r) /\ UNCHANGED inc
  /\ UNCHANGED <<chain, report, harm>>

(* resolveIncrementalConflict: the row another run has written is taken     *)
(* over, one that is gone is an alarm.                                      *)
ResolveConflict(r) ==
  /\ run[r].pc = "resolve"
  /\ IF inc = None THEN Alarm(r, "discard", "deleted", 0) /\ UNCHANGED incBy
     ELSE IF ~Fits(inc.cur) THEN Alarm(r, "discard", "misfit", inc.cur.row) /\ UNCHANGED incBy
     ELSE /\ run' = [run EXCEPT ![r] = [Holding(run[r], inc) EXCEPT !.pc = "walk",
                                                     !.lastFull = run[r].lastFull \/ inc.done]]
          /\ incBy' = incBy \union {r}
          /\ UNCHANGED report
  /\ UNCHANGED <<chain, inc, full, target, fullBy, harm>>

-----------------------------------------------------------------------------
(* runFullVerificationIfDue *)
Sweepable(r) == run[r].persist /\ ~run[r].walked /\ run[r].held # None

NotSweepable(r) ==
  /\ run[r].pc = "due" /\ ~Sweepable(r)
  /\ End(r) /\ Leave(r)
  /\ UNCHANGED <<chain, inc, full, target, report, harm>>

(* The pair is read row by row, FULL first.                                 *)
ReadFull(r) ==
  /\ run[r].pc = "due" /\ Sweepable(r)
  /\ run' = [run EXCEPT ![r].read = full, ![r].pc = "pair"]
  /\ fullBy' = IF full = None THEN fullBy ELSE fullBy \union {r}
  /\ UNCHANGED <<chain, inc, full, target, incBy, report, harm>>

(* sweepPairProblem: FULL as it was read and FULL_TARGET as it is now,      *)
(* against the id in the row held.                                          *)
PairFits(r) ==
  IF run[r].held.sweep = 0 THEN run[r].read = None /\ target = None
  ELSE /\ run[r].read # None /\ target # None
       /\ run[r].read.sweep = run[r].held.sweep /\ target.sweep = run[r].held.sweep

PairProblem(r) ==
  /\ run[r].pc = "pair" /\ ~PairFits(r)
  /\ Alarm(r, "reset", "pair", 0)
  /\ UNCHANGED <<chain, store, harm>>

Sweeping(rec, f, t) ==
  [rec EXCEPT !.cur = f.cur, !.goal = t.cur, !.read = None,
              !.bound = [row |-> t.cur.row, seal |-> t.cur.seal, anchor |-> t.cur.anchor]]

(* A sweep is under way.  Without progress for three days it is given up.   *)
ResumeSweep(r) ==
  /\ run[r].pc = "pair" /\ PairFits(r) /\ run[r].read # None
  /\ LET f == run[r].read.cur IN
     IF Fits(f) /\ Fits(target.cur)
     THEN /\ run' = [run EXCEPT ![r] = [Sweeping(run[r], run[r].read, target)
                                          EXCEPT !.pc = "sweepWalk"]]
          /\ UNCHANGED report
     ELSE Alarm(r, "reset", "misfit", IF Fits(f) THEN target.cur.row ELSE f.row)
  /\ UNCHANGED <<chain, store, harm>>

Stalled(r) ==
  /\ run[r].pc = "pair" /\ PairFits(r) /\ run[r].read # None
  /\ stalls < MaxStalls
  /\ stalls' = stalls + 1
  /\ run' = [run EXCEPT ![r].read = None, ![r].pc = "giveUp"]
  /\ fullBy' = fullBy \ {r}
  /\ UNCHANGED <<chain, inc, full, target, incBy, report, crashes>>

(* None is, or no more: one is due after the interval, when none was ever   *)
(* completed, or when the staff ask for it.                                 *)
NoneRuns(r) ==
  \/ run[r].pc = "pair" /\ PairFits(r) /\ run[r].read = None
  \/ run[r].pc = "gaveUp"

NotDue(r) ==
  /\ NoneRuns(r)
  /\ run[r].lastFull
  /\ End(r) /\ Leave(r)
  /\ UNCHANGED <<chain, inc, full, target, report, harm>>

FallsDue(r) ==
  /\ NoneRuns(r)
  /\ Goto(r, "start")
  /\ UNCHANGED <<chain, store, report, harm>>

GiveUp(r) ==
  /\ run[r].pc = "giveUp"
  /\ IF r \in incBy
     THEN /\ inc' = [run[r].held EXCEPT !.sweep = 0] /\ incBy' = {r}
          /\ full' = None /\ target' = None /\ fullBy' = {}
          /\ run' = [run EXCEPT ![r].held = inc', ![r].pc = "gaveUp"]
     ELSE Goto(r, "settle") /\ UNCHANGED store
  /\ UNCHANGED <<chain, report, harm>>

UsedIds == {x.sweep : x \in {y \in {inc, full, target} : y # None}}
             \union {run[r].held.sweep : r \in {r \in Runs : run[r].held # None}}
FreshId == Least(SweepIds \ UsedIds)

(* startSweep binds the new sweep in INCREMENTAL and creates its pair.      *)
FirstOfAtRow(held) == [held.cur EXCEPT !.seals = 0, !.anchor = 0, !.since = altered]
FirstOf(held) == Genesis(held.cur.seal)

StartSweep(r) ==
  /\ run[r].pc = "start"
  /\ IF r \in incBy
     THEN /\ inc' = [run[r].held EXCEPT !.sweep = FreshId]
          /\ target' = [cur |-> run[r].held.cur, sweep |-> FreshId]
          /\ full' = [cur |-> FirstOf(run[r].held), sweep |-> FreshId]
          /\ incBy' = {r} /\ fullBy' = {r}
          /\ run' = [run EXCEPT ![r] = [Sweeping([run[r] EXCEPT !.held = inc'], full', target')
                                          EXCEPT !.pc = "sweepWalk"]]
     ELSE Goto(r, "settle") /\ UNCHANGED store
  /\ UNCHANGED <<chain, report, harm>>

(* continueSweep; the budget may be used up after any segment.  No seal or  *)
(* anchor of its target binds a row behind it, so only Walk finds it broken.*)
SweepConclude(r) ==
  /\ run[r].pc = "sweepConclude"
  /\ IF r \in fullBy
     THEN /\ full' = [full EXCEPT !.cur = Outcome(r)]
          /\ Noted(r)
          /\ \/ /\ run' = [run EXCEPT ![r].cur = Outcome(r), ![r].tip = 0,
                             ![r].pc = IF IsComplete(r) THEN "finish" ELSE "sweepWalk"]
                /\ fullBy' = {r} /\ UNCHANGED incBy
             \/ /\ ~IsComplete(r)
                /\ End(r) /\ fullBy' = {} /\ incBy' = incBy \ {r}
     ELSE /\ run' = [run EXCEPT ![r].pc = "clash", ![r].tip = 0]
          /\ UNCHANGED <<full, fullBy, incBy, alarms>>
  /\ UNCHANGED <<chain, inc, target, found, harm>>

(* classifySweepConflict: another run wrote INCREMENTAL and carries on, or  *)
(* has advanced the same sweep; anything else is an alarm.  INCREMENTAL is  *)
(* read first, and FULL by a statement of its own.                          *)
OvertakenIfFurther(r) == inc # None /\ inc.cur.row > run[r].held.cur.row
Overtaken(r) == r \notin incBy

Clash(r) ==
  /\ run[r].pc = "clash" /\ ~Overtaken(r)
  /\ Goto(r, "clashFull")
  /\ UNCHANGED <<chain, store, report, harm>>

ClashFull(r) ==
  /\ run[r].pc = "clashFull"
  /\ IF full = None THEN Alarm(r, "reset", "full deleted", 0) /\ UNCHANGED fullBy
     ELSE IF full.sweep # run[r].held.sweep
          THEN Alarm(r, "reset", "foreign", 0) /\ UNCHANGED fullBy
     ELSE IF ~Fits(full.cur) THEN Alarm(r, "reset", "misfit", full.cur.row) /\ UNCHANGED fullBy
     ELSE /\ run' = [run EXCEPT ![r].cur = full.cur, ![r].pc = "sweepWalk"]
          /\ fullBy' = fullBy \union {r}
          /\ UNCHANGED report
  /\ UNCHANGED <<chain, inc, full, target, incBy, harm>>

Settle(r) ==
  /\ run[r].pc = "settle" \/ (run[r].pc = "clash" /\ Overtaken(r))
  /\ IF inc = None THEN Alarm(r, "reset", "deleted", 0) /\ UNCHANGED <<incBy, fullBy>>
     ELSE IF ~Overtaken(r) THEN Alarm(r, "reset", "changed", 0) /\ UNCHANGED <<incBy, fullBy>>
     ELSE IF ~Fits(inc.cur)
          THEN Alarm(r, "reset", "misfit", inc.cur.row) /\ UNCHANGED <<incBy, fullBy>>
     ELSE End(r) /\ Leave(r) /\ UNCHANGED report
  /\ UNCHANGED <<chain, inc, full, target, harm>>

(* completeSweep: the target must be met exactly.  Where the seals and      *)
(* anchors were now judged otherwise (a changed trust store), the line goes *)
(* on from here as one that has yet to complete.                            *)
Confirmed(c, d) == c.row = d.row /\ c.seals = d.seals /\ c.anchor = d.anchor

Finish(r) ==
  /\ run[r].pc = "finish"
  /\ IF ~Confirmed(run[r].cur, run[r].goal)
     THEN Alarm(r, "reset", "unconfirmed", 0) /\ UNCHANGED store
     ELSE /\ UNCHANGED report
          /\ IF r \in incBy
             THEN /\ \/ inc' = [run[r].held EXCEPT !.done = TRUE, !.sweep = 0]
                     \/ inc' = [cur |-> run[r].cur, done |-> FALSE, sweep |-> 0]
                  /\ full' = None /\ target' = None /\ incBy' = {} /\ fullBy' = {}
                  /\ End(r)
             ELSE Goto(r, "settle") /\ UNCHANGED store
  /\ UNCHANGED <<chain, harm>>

ResetAll(r) ==
  /\ run[r].pc = "reset"
  /\ Delete /\ End(r)
  /\ UNCHANGED <<chain, report, harm>>

(* The worker dies; every transaction it finished stays.                    *)
Crash(r) ==
  /\ run[r].pc # "idle" /\ crashes < MaxCrashes
  /\ crashes' = crashes + 1
  /\ End(r) /\ Leave(r)
  /\ UNCHANGED <<chain, inc, full, target, report, stalls>>

-----------------------------------------------------------------------------
Step(r) ==
  \/ Load(r) \/ Orphans(r) \/ DiscardAll(r)
  \/ Walk(r) \/ ConcludeBroken(r) \/ Restart(r) \/ ConcludeUnstored(r) \/ Conclude(r)
  \/ CompleteLine(r) \/ ResolveConflict(r)
  \/ NotSweepable(r) \/ ReadFull(r) \/ PairProblem(r) \/ ResumeSweep(r) \/ Stalled(r)
  \/ NotDue(r) \/ FallsDue(r)
  \/ GiveUp(r) \/ StartSweep(r) \/ SweepConclude(r)
  \/ Clash(r) \/ ClashFull(r) \/ Settle(r) \/ Finish(r) \/ ResetAll(r)

Next == \/ Record \/ Seal \/ Anchor \/ Alter
        \/ \E r \in Runs : Begin(r) \/ Step(r) \/ Crash(r)

Spec == Init /\ [][Next]_vars

(* The job starts every day, its steps are taken; a sweep falls due after   *)
(* every interval, however many runs in between find it not due.            *)
Fairness == \A r \in Runs : WF_vars(Begin(r)) /\ WF_vars(Step(r)) /\ SF_vars(FallsDue(r))

FairSpec == Spec /\ Fairness

-----------------------------------------------------------------------------
Cursor == [row : Nat, seal : Nat, seals : Nat, anchor : Nat, since : SUBSET Nat]

TypeOK ==
  /\ rows \in 0 .. MaxRows /\ altered \subseteq 1 .. rows
  /\ seals \in Seq(1 .. rows) /\ anchors \in Seq(1 .. rows)
  /\ inc = None \/ inc \in [cur : Cursor, done : BOOLEAN, sweep : {0} \union SweepIds]
  /\ \A f \in {full, target} : f = None \/ f \in [cur : Cursor, sweep : SweepIds]
  /\ (full = None) = (target = None)
  /\ incBy \subseteq Runs /\ fullBy \subseteq Runs
  /\ \A r \in Runs :
       /\ run[r].cur \in Cursor /\ run[r].goal \in Cursor
       /\ run[r].held = None \/ run[r].held.cur \in Cursor
       /\ r \in incBy => run[r].held = inc
  /\ crashes \in 0 .. MaxCrashes /\ stalls \in 0 .. MaxStalls

Stored == {x.cur : x \in {y \in {inc, full, target} : y # None}}

(* What a checkpoint says was checked really was hashed since its line left *)
(* genesis: none of the rows altered before lies below it, whichever runs   *)
(* have carried the line on.                                                *)
CheckedRowsWereIntact == \A c \in Stored : c.since \intersect 1 .. c.row = {}

(* Every seal up to the cursor is counted once, whether it was found while  *)
(* its tip was read or was added below the cursor later; and a run that     *)
(* gets to the end has checked every seal and every anchor that existed     *)
(* when it began, and the rows they bind.                                   *)
SealsCountedOnce == \A c \in Stored : Cardinality(SealsUpTo(c)) = c.seals

ReachesBounds ==
  \A r \in Runs : run[r].pc = "complete" =>
    /\ run[r].cur.anchor >= run[r].bound.anchor
    /\ \A s \in 1 .. run[r].bound.seal : s <= run[r].cur.seal /\ seals[s] <= run[r].cur.row

NothingSkipped == SealsCountedOnce /\ ReachesBounds

(* Runs that do not overlap raise no alarm about an intact chain, wherever  *)
(* the one before was cut off and whatever the chain has gained since.      *)
NoFalseAlarm == altered = {} => alarms = {}

(* On an intact chain no run is the first to raise an alarm by comparing    *)
(* what another wrote with the chain, by taking a lost compare-and-set on   *)
(* INCREMENTAL for a deletion or a change, or because a sweep misses its    *)
(* target, whichever runs have carried it on.  What follows upon a first    *)
(* alarm, which deletes the rows, is left out.                              *)
TakeoversAreTrusted ==
  altered = {} =>
    alarms \intersect {"misfit", "finding", "deleted", "changed", "unconfirmed"} = {}

(* Overlapping runs hide no alteration from each other, and the takeover of *)
(* a row another run wrote starts no false alarm (verify-checkpoint.ts:     *)
(* 348-361, 964-1017).  The comparisons of two rows read one after the      *)
(* other are no part of this.                                               *)
OverlapIsHarmless == CheckedRowsWereIntact /\ TakeoversAreTrusted

(* An altered row is found in the end, below or above the checkpoint.       *)
AlteredRowIsFound == altered # {} ~> found
=============================================================================
