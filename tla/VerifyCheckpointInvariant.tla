----------------------- MODULE VerifyCheckpointInvariant -----------------------
(***************************************************************************)
(* The inductive invariant of VerifyCheckpoint.  Every cursor, stored or   *)
(* held by a run, whoever advanced it last, says the truth about the chain *)
(* up to its row; and what a run has read since is not yet in its cursor.  *)
(***************************************************************************)
EXTENDS VerifyCheckpoint

Pcs == {"idle", "load", "orphans", "discard", "walk", "conclude", "restart", "complete",
        "resolve", "due", "reset", "giveUp", "gaveUp", "start", "sweepWalk",
        "sweepConclude", "finish", "clash", "clashFull", "settle", "pair"}

\* Where a run may be bounded by the target of a sweep.
Sweeps == {"sweepWalk", "sweepConclude", "finish", "clash", "clashFull", "settle", "reset"}

IncTyp   == [cur : Cursor, done : BOOLEAN, sweep : {0} \union SweepIds]
SweepTyp == [cur : Cursor, sweep : SweepIds]

BoundTyp == [row : Nat, seal : Nat, anchor : Nat]

RunTyp == [pc : Pcs, bound : BoundTyp, held : {None} \union IncTyp, cur : Cursor,
           fromGenesis : BOOLEAN, walked : BOOLEAN, restarted : BOOLEAN,
           persist : BOOLEAN, discarded : BOOLEAN, lastFull : BOOLEAN,
           tip : Nat, goal : Cursor, read : {None} \union SweepTyp]

ChainInv ==
  /\ rows \in 0 .. MaxRows /\ altered \subseteq 1 .. rows
  /\ seals \in Seq(1 .. rows) /\ anchors \in Seq(1 .. rows)

HarmInv == crashes \in 0 .. MaxCrashes /\ stalls \in 0 .. MaxStalls

(* What a cursor says was checked, was: its seals are counted, and none of  *)
(* the rows altered when its line left genesis lies below it.               *)
Sound(c) ==
  /\ c \in Cursor
  /\ c.row <= rows /\ c.seal <= Len(seals) /\ c.anchor <= Len(anchors)
  /\ Cardinality(SealsUpTo(c)) = c.seals
  /\ c.since \subseteq altered /\ c.since \intersect 1 .. c.row = {}

(* The stored rows, and that a run may write only what it holds.            *)
StoreInv ==
  /\ inc = None \/ (inc \in IncTyp /\ Sound(inc.cur))
  /\ full = None \/ (full \in SweepTyp /\ Sound(full.cur))
  /\ target = None \/ (target \in SweepTyp /\ Sound(target.cur))
  /\ (full = None) = (target = None)
  /\ full # None => full.sweep = target.sweep
  /\ incBy \subseteq Runs /\ (incBy # {} => inc # None)
  /\ fullBy \subseteq Runs /\ (fullBy # {} => full # None)

BoundsIn(x) == [row    |-> x.bound.row,
                seal   |-> Higher(x.bound.seal, x.cur.seal),
                anchor |-> Higher(x.bound.anchor, x.cur.anchor)]

(* A run in state x has hashed the rows of its segment, and its line goes   *)
(* on to the end that the chain then had.                                   *)
HasWalked(x) ==
  /\ x.cur.row <= x.tip /\ x.tip <= rows
  /\ WalkedRows(x.cur, BoundsIn(x), x.tip) \intersect x.cur.since = {}
  /\ \A s \in 1 .. x.bound.seal : seals[s] <= x.tip

HasReached(x) ==
  /\ x.cur.anchor >= x.bound.anchor
  /\ \A s \in 1 .. x.bound.seal : s <= x.cur.seal /\ seals[s] <= x.cur.row

RunSound(x) ==
  /\ x \in RunTyp
  /\ Sound(x.cur) /\ Sound(x.goal)
  /\ (x.held # None => Sound(x.held.cur)) /\ (x.read # None => Sound(x.read.cur))
  /\ x.bound.seal <= Len(seals) /\ x.bound.anchor <= Len(anchors)
  /\ x.pc \notin Sweeps => x.bound.row = Endless
  /\ x.pc \in {"conclude", "sweepConclude"} => HasWalked(x)
  /\ x.pc = "complete" => HasReached(x)
  /\ x.pc \in {"load", "orphans", "resolve"} => x.persist

(* A run that has not read the row yet, or stores nothing, owns no row.     *)
MayOwn(x) == x.pc \notin {"idle", "load", "orphans"} /\ x.persist

RunInv ==
  /\ run \in [Runs -> RunTyp]
  /\ \A r \in Runs : /\ RunSound(run[r])
                     /\ r \in incBy => run[r].held = inc /\ MayOwn(run[r])

VerifyInv == ChainInv /\ HarmInv /\ StoreInv /\ RunInv

-----------------------------------------------------------------------------
(* What keeps an intact chain from being suspected.                         *)

\* A run is about its sweep.
OnTheSweep == {"sweepWalk", "sweepConclude", "finish", "clash", "clashFull"}

\* It goes by the row INCREMENTAL that it holds.
Holders == {"pair", "giveUp", "gaveUp", "start"} \union OnTheSweep

(* The row INCREMENTAL names the sweep that FULL and FULL_TARGET are of.    *)
Coherent ==
  IF inc = None THEN full = None ELSE inc.sweep = IF full = None THEN 0 ELSE full.sweep

(* FULL_TARGET, when it is of the sweep that the row held by a run names,   *)
(* is where that run takes the sweep to; and a run whose copy of FULL is    *)
(* the stored one knows where the sweep stands.                             *)
SweepKnown(r) ==
  /\ run[r].pc \in Holders => run[r].held # None
  /\ run[r].pc \in OnTheSweep /\ target # None /\ target.sweep = run[r].held.sweep
       => target.cur = run[r].goal
  /\ r \in fullBy =>
       /\ run[r].pc \in Sweeps \union {"pair"}
       /\ run[r].pc = "pair" => run[r].read = full
       /\ run[r].pc \in OnTheSweep => full.cur = run[r].cur /\ target.cur = run[r].goal

PairInv == Coherent /\ \A r \in Runs : SweepKnown(r)

(* The seals and anchors that c counts bind no row above it.                *)
Covers(c) ==
  /\ \A s \in 1 .. c.seal : seals[s] <= c.row
  /\ \A a \in 1 .. c.anchor : anchors[a] <= c.row

Within(c, d) == c.row <= d.row /\ c.seal = d.seal /\ c.anchor <= d.anchor

SweepFine == full # None => Covers(target.cur) /\ Within(full.cur, target.cur)

(* FULL as a run has read it lies before the FULL_TARGET of the same sweep, *)
(* however far others have taken FULL since.                                *)
ReadFine(x) ==
  x.pc = "pair" /\ x.read # None /\ target # None
    /\ x.read.sweep = x.held.sweep /\ target.sweep = x.held.sweep
      => Within(x.read.cur, target.cur)

(* What the walk found contains all that the segment will look for.         *)
HasMet(x) ==
  /\ \A s \in 1 .. BoundsIn(x).seal : seals[s] <= x.tip
  /\ \A a \in 1 .. BoundsIn(x).anchor : anchors[a] <= x.tip

RunFine(x) ==
  /\ x.pc \notin {"discard", "restart", "reset"} /\ x.persist
  /\ x.pc \in {"complete", "due", "pair", "giveUp", "gaveUp", "start"} \union Sweeps => x.held # None
  /\ x.pc \in {"due", "pair", "giveUp", "gaveUp", "start"} => Covers(x.held.cur)
  /\ x.pc \in OnTheSweep =>
       /\ x.bound = [row |-> x.goal.row, seal |-> x.goal.seal, anchor |-> x.goal.anchor]
       /\ Within(x.cur, x.goal) /\ Covers(x.goal)
  /\ x.pc \in {"conclude", "sweepConclude"} => HasMet(x)
  /\ x.pc = "sweepConclude" => x.goal.row <= x.tip
  /\ x.pc = "finish" => Confirmed(x.cur, x.goal)

Fine ==
  /\ SweepFine
  /\ \A r \in Runs :
       /\ RunFine(run[r]) /\ ReadFine(run[r])
       /\ run[r].held # None \/ run[r].pc = "resolve" => inc # None
       /\ run[r].pc = "settle" => r \notin incBy

(* The checks that two overlapping runs may be wrong in.                    *)
Suspects == {"pair", "orphan", "full deleted", "foreign"}

OnlySplitReadsErr == altered = {} => alarms \subseteq Suspects

(* As long as no row is altered and nothing was suspected.                  *)
FineInv == altered = {} /\ alarms = {} => Fine

TrustInv == PairInv /\ FineInv /\ OnlySplitReadsErr

(* A run that nobody overlaps with finds the rows as it left them.          *)
AloneAt(r) ==
  /\ run[r].pc = "orphans" => inc = None
  /\ run[r].pc \in {"due", "pair"} => r \in incBy
  /\ run[r].pc = "pair" => run[r].read = full /\ (full # None => r \in fullBy)
  /\ run[r].pc \in {"sweepWalk", "sweepConclude"} => r \in fullBy
  /\ run[r].pc \notin {"clash", "clashFull"}

Alone == altered = {} /\ alarms = {} => \A r \in Runs : AloneAt(r)
=============================================================================
