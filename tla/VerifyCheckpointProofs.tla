------------------------ MODULE VerifyCheckpointProofs ------------------------
(***************************************************************************)
(* What the stored checkpoints say of the chain is so, for any number of   *)
(* overlapping runs, rows, seals and anchors and any size of a segment;    *)
(* and which of the checks may be wrong about an intact chain.             *)
(***************************************************************************)
EXTENDS VerifyCheckpointInvariant, FiniteSetTheorems, FunctionTheorems, WellFoundedInduction, TLAPS

LEMMA Limits ==
  /\ SegmentRows \in Nat \ {0} /\ SegmentAnchors \in Nat \ {0}
  /\ MaxRows \in Nat /\ MaxAltered \in Nat /\ MaxCrashes \in Nat /\ MaxStalls \in Nat
  BY LimitsAssumption, BoundsAssumption

(* What the chain is made of.                                               *)
LEMMA ChainFacts ==
  ASSUME ChainInv
  PROVE  /\ rows \in Nat /\ Len(seals) \in Nat /\ Len(anchors) \in Nat
         /\ DOMAIN seals = 1 .. Len(seals)
         /\ \A s \in 1 .. Len(seals) : seals[s] \in 1 .. rows
         /\ \A a \in 1 .. Len(anchors) : anchors[a] \in 1 .. rows
  BY Limits DEF ChainInv

LEMMA SealsAreFinite ==
  ASSUME ChainInv, NEW c
  PROVE  /\ IsFiniteSet(SealsUpTo(c)) /\ Cardinality(SealsUpTo(c)) \in Nat
         /\ SealsUpTo(c) \subseteq 1 .. Len(seals)
  <1>1. SealsUpTo(c) \in SUBSET (1 .. Len(seals))
    BY ChainFacts DEF SealsUpTo
  <1>2. IsFiniteSet(1 .. Len(seals))
    BY ChainFacts, FS_Interval
  <1>3. IsFiniteSet(SealsUpTo(c))
    BY <1>1, <1>2, FS_Subset
  <1> QED
    BY <1>1, <1>3, FS_CardinalityType

-----------------------------------------------------------------------------
(* The chain grows, below what there is nothing changes. *)

Grows ==
  /\ rows' >= rows /\ altered \subseteq altered'
  /\ Len(seals') >= Len(seals) /\ Len(anchors') >= Len(anchors)
  /\ \A s \in 1 .. Len(seals) : seals'[s] = seals[s]
  /\ \A a \in 1 .. Len(anchors) : anchors'[a] = anchors[a]

LEMMA SoundStays ==
  ASSUME ChainInv, ChainInv', Grows, NEW c, Sound(c)
  PROVE  Sound(c)'
  <1>1. /\ DOMAIN seals = 1 .. Len(seals) /\ DOMAIN seals' = 1 .. Len(seals')
        /\ Len(seals) \in Nat /\ Len(seals') \in Nat /\ Len(anchors) \in Nat
        /\ Len(anchors') \in Nat /\ rows \in Nat /\ rows' \in Nat
    BY ChainFacts, Limits DEF ChainInv
  <1>2. /\ c \in Cursor
        /\ c.row \in Nat /\ c.seal \in Nat /\ c.anchor \in Nat /\ c.row <= rows
        /\ c.seal <= Len(seals) /\ c.anchor <= Len(anchors)
        /\ c.since \subseteq altered /\ c.since \intersect 1 .. c.row = {}
        /\ Cardinality(SealsUpTo(c)) = c.seals
    BY DEF Sound, Cursor
  <1>3. SealsUpTo(c)' = SealsUpTo(c)
    BY <1>1, <1>2 DEF SealsUpTo, Grows
  <1>4. c.row <= rows' /\ c.seal <= Len(seals') /\ c.anchor <= Len(anchors')
    BY <1>1, <1>2 DEF Grows
  <1>5. c.since \subseteq altered'
    BY <1>2 DEF Grows
  <1> QED
    BY <1>2, <1>3, <1>4, <1>5 DEF Sound

LEMMA Bounds ==
  ASSUME ChainInv, NEW x, RunSound(x)
  PROVE  /\ x \in RunTyp /\ x.cur \in Cursor /\ x.bound \in BoundTyp /\ x.tip \in Nat
         /\ x.cur.row \in Nat /\ x.cur.seal \in Nat /\ x.cur.seals \in Nat
         /\ x.cur.anchor \in Nat
         /\ x.bound.row \in Nat /\ x.bound.seal \in Nat /\ x.bound.anchor \in Nat
         /\ BoundsIn(x).row = x.bound.row
         /\ BoundsIn(x).seal \in x.cur.seal .. Len(seals)
         /\ BoundsIn(x).anchor \in x.cur.anchor .. Len(anchors)
         /\ BoundsIn(x).seal >= x.bound.seal /\ BoundsIn(x).anchor >= x.bound.anchor
  <1>1. /\ x \in RunTyp /\ Sound(x.cur)
        /\ x.bound.seal <= Len(seals) /\ x.bound.anchor <= Len(anchors)
    BY DEF RunSound
  <1>2. x.cur \in Cursor /\ x.bound \in BoundTyp /\ x.tip \in Nat
    BY <1>1 DEF RunTyp
  <1>3. /\ x.cur.row \in Nat /\ x.cur.seal \in Nat /\ x.cur.seals \in Nat
        /\ x.cur.anchor \in Nat
        /\ x.bound.row \in Nat /\ x.bound.seal \in Nat /\ x.bound.anchor \in Nat
        /\ x.cur.seal <= Len(seals) /\ x.cur.anchor <= Len(anchors)
    BY <1>1, <1>2 DEF Cursor, BoundTyp, Sound
  <1>4. Len(seals) \in Nat /\ Len(anchors) \in Nat
    BY ChainFacts
  <1>5. /\ BoundsIn(x).row = x.bound.row
        /\ BoundsIn(x).seal = Higher(x.bound.seal, x.cur.seal)
        /\ BoundsIn(x).anchor = Higher(x.bound.anchor, x.cur.anchor)
    BY DEF BoundsIn
  <1> QED
    BY <1>1, <1>2, <1>3, <1>4, <1>5 DEF Higher

(* A block is full when there are enough anchors after the cursor.          *)
LEMMA FullBlock ==
  ASSUME NEW c, NEW b, c.anchor \in Nat, b.anchor \in Nat, c.anchor <= b.anchor
  PROVE  /\ IsFiniteSet(Block(c, b))
         /\ Cardinality(Block(c, b)) = Lower(b.anchor, c.anchor + SegmentAnchors) - c.anchor
         /\ BlockFull(c, b) <=> c.anchor + SegmentAnchors <= b.anchor
  <1>1. Lower(b.anchor, c.anchor + SegmentAnchors) \in Nat
    BY Limits DEF Lower
  <1> DEFINE first == c.anchor + 1
             last == Lower(b.anchor, c.anchor + SegmentAnchors)
  <1>2. /\ IsFiniteSet(Block(c, b))
        /\ Cardinality(Block(c, b)) = IF first > last THEN 0 ELSE last - first + 1
    <2>1. Block(c, b) = first .. last /\ first \in Int /\ last \in Int
      BY <1>1 DEF Block
    <2> HIDE DEF first, last
    <2> QED
      BY <2>1, FS_Interval
  <1>3. Cardinality(Block(c, b)) = Lower(b.anchor, c.anchor + SegmentAnchors) - c.anchor
    BY <1>1, <1>2, Limits DEF Lower
  <1> QED
    BY <1>2, <1>3, Limits DEF Lower, BlockFull

(* The anchors a run reads are those there were when it took its bounds.    *)
LEMMA RunStays ==
  ASSUME ChainInv, ChainInv', Grows, NEW x, RunSound(x)
  PROVE  RunSound(x)'
  <1> DEFINE c == x.cur
             b == BoundsIn(x)
  <1>1. /\ Sound(x.cur) /\ Sound(x.goal) /\ (x.held # None => Sound(x.held.cur))
        /\ (x.read # None => Sound(x.read.cur))
        /\ x.bound.seal <= Len(seals) /\ x.bound.anchor <= Len(anchors)
        /\ x \in RunTyp
    BY DEF RunSound
  <1>2. /\ Sound(x.cur)' /\ Sound(x.goal)' /\ (x.held # None => Sound(x.held.cur)')
        /\ (x.read # None => Sound(x.read.cur)')
    BY <1>1, SoundStays
  <1>3. /\ Len(seals) \in Nat /\ Len(seals') \in Nat /\ Len(anchors) \in Nat
        /\ Len(anchors') \in Nat /\ rows \in Nat /\ rows' \in Nat
        /\ Len(seals) <= Len(seals') /\ Len(anchors) <= Len(anchors') /\ rows <= rows'
    BY ChainFacts, Limits DEF ChainInv, Grows
  <1>4. /\ c.anchor \in Nat /\ x.bound.seal \in Nat /\ x.bound.anchor \in Nat
        /\ b.anchor \in c.anchor .. Len(anchors)
        /\ x.bound.seal <= Len(seals') /\ x.bound.anchor <= Len(anchors')
    BY <1>1, <1>3, Bounds
  <1>5. HasWalked(x) => HasWalked(x)'
    <2> SUFFICES ASSUME HasWalked(x) PROVE HasWalked(x)'
      OBVIOUS
    <2>1. BlockFull(c, b) => HighestTip(c, b)' = HighestTip(c, b)
      <3> SUFFICES ASSUME BlockFull(c, b) PROVE HighestTip(c, b)' = HighestTip(c, b)
        OBVIOUS
      <3>1. c.anchor + SegmentAnchors \in 1 .. Len(anchors)
        <4>1. c.anchor + SegmentAnchors <= b.anchor
          BY <1>3, <1>4, FullBlock
        <4> HIDE DEF c, b
        <4> QED
          BY <1>3, <1>4, <4>1, Limits
      <3> QED
        BY <3>1 DEF HighestTip, Grows
    <2>2. WalkedRows(c, b, x.tip)' = WalkedRows(c, b, x.tip)
      BY <2>1 DEF WalkedRows, LastRow, Until, AnchorLimited, BlockFull, Block
    <2>3. x.tip <= rows'
      BY <1>3, Bounds DEF HasWalked
    <2>4. ASSUME NEW s \in 1 .. x.bound.seal PROVE seals'[s] <= x.tip
      BY <1>1, <1>3, Bounds, SMTT(30) DEF HasWalked, Grows
    <2> QED
      BY <2>2, <2>3, <2>4 DEF HasWalked
  <1>6. HasReached(x) => HasReached(x)'
    <2>1. \A s \in 1 .. x.bound.seal : seals'[s] = seals[s]
      BY <1>1, <1>3, <1>4 DEF Grows
    <2> QED
      BY <2>1 DEF HasReached
  <1> QED
    BY <1>1, <1>2, <1>4, <1>5, <1>6 DEF RunSound

-----------------------------------------------------------------------------
(* One segment: the cursor moves on by what was read, and counts it. *)

LEMMA Reading ==
  ASSUME ChainInv, NEW x, RunSound(x), HasWalked(x)
  PROVE  LET c == x.cur
             b == BoundsIn(x)
         IN /\ Until(c, b) \in Nat
            /\ LastRow(c, b, x.tip) \in c.row .. rows
            /\ LastRow(c, b, x.tip) > c.row => LastRow(c, b, x.tip) <= Until(c, b)
            /\ Cardinality(DueAnchors(c, b, x.tip)) \in 0 .. b.anchor - c.anchor
  <1> DEFINE c == x.cur
             b == BoundsIn(x)
             t == x.tip
  <1>1. /\ c.row \in Nat /\ c.anchor \in Nat /\ b.anchor \in c.anchor .. Len(anchors)
        /\ b.row \in Nat /\ t \in Nat /\ c.row <= t /\ t <= rows
        /\ rows \in Nat /\ Len(anchors) \in Nat
    BY Bounds, ChainFacts DEF HasWalked
  <1>2. Until(c, b) \in Nat
    <2>1. CASE AnchorLimited(c, b)
      <3>1. c.anchor + SegmentAnchors \in 1 .. Len(anchors)
        BY <2>1, <1>1, FullBlock, Limits DEF AnchorLimited
      <3>2. anchors[c.anchor + SegmentAnchors] \in 1 .. rows
        BY <3>1, ChainFacts
      <3> QED
        BY <2>1, <1>1, <3>2 DEF Until, HighestTip
    <2>2. CASE ~ AnchorLimited(c, b)
      BY <2>2, <1>1 DEF Until
    <2> QED
      BY <2>1, <2>2
  <1>3. /\ LastRow(c, b, t) \in c.row .. rows
        /\ LastRow(c, b, t) > c.row => LastRow(c, b, t) <= Until(c, b)
    <2> HIDE DEF c, b, t
    <2> QED
      BY <1>1, <1>2, Limits DEF LastRow, Higher, Lower
  <1>4. Cardinality(DueAnchors(c, b, t)) \in 0 .. b.anchor - c.anchor
    <2>1. DueAnchors(c, b, t) \in SUBSET Block(c, b)
      BY DEF DueAnchors
    <2>2. /\ IsFiniteSet(Block(c, b)) /\ Cardinality(Block(c, b)) \in Nat
          /\ Cardinality(Block(c, b)) <= b.anchor - c.anchor
      <3>1. /\ IsFiniteSet(Block(c, b))
            /\ Cardinality(Block(c, b)) = Lower(b.anchor, c.anchor + SegmentAnchors) - c.anchor
        BY <1>1, FullBlock
      <3> HIDE DEF c, b
      <3> QED
        BY <1>1, <3>1, Limits DEF Lower
    <2>3. /\ IsFiniteSet(DueAnchors(c, b, t))
          /\ Cardinality(DueAnchors(c, b, t)) <= Cardinality(Block(c, b))
      BY <2>1, <2>2, FS_Subset
    <2>4. Cardinality(DueAnchors(c, b, t)) \in Nat
      BY <2>3, FS_CardinalityType
    <2> HIDE DEF c, b, t
    <2> QED
      BY <1>1, <2>2, <2>3, <2>4
  <1> QED
    BY <1>2, <1>3, <1>4

(* Seals whose tip was just read and those that came late below the cursor  *)
(* are counted once each, together they are all the new cursor passes.      *)
LEMMA SealsCount ==
  ASSUME ChainInv, NEW c, NEW b, NEW t, NEW L, Sound(c),
         b.seal \in c.seal .. Len(seals), L \in c.row .. rows,
         L = LastRow(c, b, t), Until(c, b) \in Nat, L > c.row => L <= Until(c, b),
         NEW y, y.row = L, y.seal = b.seal
  PROVE  Cardinality(SealsUpTo(y)) =
           c.seals + Cardinality(SegmentSeals(c, b, t) \ Dangling(c, b, t))
  <1> DEFINE New == SegmentSeals(c, b, t) \ Dangling(c, b, t)
  <1>1. /\ rows \in Nat /\ Len(seals) \in Nat /\ DOMAIN seals = 1 .. Len(seals)
        /\ \A s \in 1 .. Len(seals) : seals[s] \in 1 .. rows
    BY ChainFacts
  <1>2. /\ c.row \in Nat /\ c.seal \in Nat /\ c.seal <= Len(seals)
        /\ Cardinality(SealsUpTo(c)) = c.seals
    BY DEF Sound, Cursor
  <1>3. L \in Nat /\ b.seal \in Nat /\ b.seal <= Len(seals) /\ c.seal <= b.seal /\ c.row <= L
    BY <1>1, <1>2
  <1>4. New = {s \in SegmentSeals(c, b, t) : seals[s] <= L}
    <2>1. \A s \in SegmentSeals(c, b, t) : seals[s] \in Nat
      BY <1>1, <1>3 DEF SegmentSeals
    <2> QED
      BY <2>1, <1>3 DEF Dangling
  <1>5. ASSUME NEW s \in 1 .. b.seal
        PROVE  s \in SegmentSeals(c, b, t) /\ seals[s] <= L
                 <=> seals[s] <= L /\ (seals[s] > c.row \/ s > c.seal)
    <2>1. seals[s] \in Nat
      BY <1>1, <1>3
    <2>2. seals[s] > c.row /\ seals[s] <= L => seals[s] <= CoveredUpTo(c, b, t)
      <3> SUFFICES ASSUME seals[s] > c.row, seals[s] <= L
                   PROVE  seals[s] <= CoveredUpTo(c, b, t)
        OBVIOUS
      <3>1. CASE Exhausted(c, b, t)
        <4>1. L <= Until(c, b) /\ CoveredUpTo(c, b, t) = Until(c, b)
          BY <3>1, <2>1, <1>2, <1>3 DEF CoveredUpTo
        <4> QED
          BY <4>1, <2>1, <1>3
      <3>2. CASE ~ Exhausted(c, b, t)
        BY <3>2 DEF CoveredUpTo
      <3> QED
        BY <3>1, <3>2
    <2> QED
      BY <2>1, <2>2, <1>2, <1>3 DEF SegmentSeals
  <1>6. SealsUpTo(y) = SealsUpTo(c) \union New /\ SealsUpTo(c) \intersect New = {}
    <2>1. ASSUME NEW s PROVE s \in SealsUpTo(y) <=> s \in 1 .. b.seal /\ seals[s] <= L
      BY <1>1, <1>3 DEF SealsUpTo
    <2>2. ASSUME NEW s
          PROVE s \in SealsUpTo(c) <=> s \in 1 .. b.seal /\ s <= c.seal /\ seals[s] <= c.row
      BY <1>1, <1>2, <1>3 DEF SealsUpTo
    <2>3. ASSUME NEW s
          PROVE s \in New <=> /\ s \in 1 .. b.seal
                              /\ seals[s] <= L /\ (seals[s] > c.row \/ s > c.seal)
      BY <1>4, <1>5 DEF SegmentSeals
    <2>4. \A s \in 1 .. b.seal : seals[s] \in Nat
      BY <1>1, <1>3
    <2> HIDE DEF New
    <2>5. ASSUME NEW s
          PROVE  /\ s \in SealsUpTo(y) <=> s \in SealsUpTo(c) \/ s \in New
                 /\ ~ (s \in SealsUpTo(c) /\ s \in New)
      <3>1. s \in 1 .. b.seal => seals[s] \in Nat /\ s \in Nat
        BY <2>4, <1>3
      <3>2. /\ s \in SealsUpTo(y) <=> s \in 1 .. b.seal /\ seals[s] <= L
            /\ s \in SealsUpTo(c) <=> s \in 1 .. b.seal /\ s <= c.seal /\ seals[s] <= c.row
            /\ s \in New <=> /\ s \in 1 .. b.seal
                             /\ seals[s] <= L /\ (seals[s] > c.row \/ s > c.seal)
        BY <2>1, <2>2, <2>3
      <3> QED
        BY <3>1, <3>2, <1>2, <1>3
    <2> QED
      BY <2>5
  <1>7. IsFiniteSet(SealsUpTo(c)) /\ IsFiniteSet(SealsUpTo(y))
    BY SealsAreFinite
  <1>8. IsFiniteSet(New)
    BY <1>6, <1>7, FS_Subset
  <1>9. Cardinality(SealsUpTo(c)) \in Nat /\ Cardinality(New) \in Nat
    BY <1>7, <1>8, FS_CardinalityType
  <1> HIDE DEF New
  <1>10. Cardinality(SealsUpTo(y)) = Cardinality(SealsUpTo(c)) + Cardinality(New)
    <2>1. Cardinality(SealsUpTo(c) \union New) =
            Cardinality(SealsUpTo(c)) + Cardinality(New) - Cardinality(SealsUpTo(c) \intersect New)
      BY <1>7, <1>8, FS_Union
    <2>2. Cardinality(SealsUpTo(c) \intersect New) = 0
      BY <1>6, FS_EmptySet
    <2> QED
      BY <1>6, <1>9, <2>1, <2>2
  <1> QED
    BY <1>2, <1>10 DEF New

(* The cursor after a segment is sound again.                               *)
LEMMA Advance ==
  ASSUME ChainInv, NEW x, RunSound(x), HasWalked(x)
  PROVE  Sound(Advanced(x.cur, BoundsIn(x), x.tip))
  <1> DEFINE c == x.cur
             b == BoundsIn(x)
             t == x.tip
             L == LastRow(c, b, t)
             k == Cardinality(DueAnchors(c, b, t))
             n == Cardinality(SegmentSeals(c, b, t) \ Dangling(c, b, t))
             y == Advanced(c, b, t)
  <1>1. /\ c \in Cursor /\ Sound(c)
        /\ c.row \in Nat /\ c.seal \in Nat /\ c.seals \in Nat /\ c.anchor \in Nat
        /\ b.seal \in c.seal .. Len(seals) /\ b.anchor \in c.anchor .. Len(anchors)
        /\ rows \in Nat /\ Len(seals) \in Nat /\ Len(anchors) \in Nat
    BY Bounds, ChainFacts DEF RunSound
  <1>2. /\ L \in c.row .. rows /\ Until(c, b) \in Nat
        /\ L > c.row => L <= Until(c, b)
        /\ k \in 0 .. b.anchor - c.anchor
    BY Reading
  <1>3. Higher(c.seal, b.seal) = b.seal
    <2> HIDE DEF c, b
    <2> QED
      BY <1>1 DEF Higher
  <1>4. y = [c EXCEPT !.row = L, !.seal = b.seal, !.seals = c.seals + n,
                      !.anchor = c.anchor + k]
    BY <1>3 DEF Advanced
  <1>5. /\ y = [row |-> L, seal |-> b.seal, seals |-> c.seals + n, anchor |-> c.anchor + k,
                since |-> c.since]
        /\ c.since \in SUBSET Nat
    <2> HIDE DEF c, b, t, L, k, n, y
    <2> QED
      BY <1>1, <1>4 DEF Cursor
  <1>6. y.row = L /\ y.seal = b.seal /\ y.seals = c.seals + n /\ y.anchor = c.anchor + k
        /\ y.since = c.since
    <2> HIDE DEF c, b, t, L, k, n, y
    <2> QED
      BY <1>5
  <1>7. Cardinality(SealsUpTo(y)) = y.seals
    <2>1. L = LastRow(c, b, t) /\ n = Cardinality(SegmentSeals(c, b, t) \ Dangling(c, b, t))
      OBVIOUS
    <2> HIDE DEF c, b, t, L, k, n, y
    <2>2. Cardinality(SealsUpTo(y)) =
            c.seals + Cardinality(SegmentSeals(c, b, t) \ Dangling(c, b, t))
      <3>1. /\ Sound(c) /\ b.seal \in c.seal .. Len(seals) /\ L \in c.row .. rows
            /\ L = LastRow(c, b, t) /\ Until(c, b) \in Nat /\ (L > c.row => L <= Until(c, b))
            /\ y.row = L /\ y.seal = b.seal
        BY <2>1, <1>1, <1>2, <1>6
      <3> QED
        BY <3>1, SealsCount, ZenonT(30)
    <2> QED
      BY <2>1, <2>2, <1>6
  <1>8. y.since \subseteq altered /\ y.since \intersect 1 .. y.row = {}
    <2>1. c.since \subseteq altered /\ c.since \intersect 1 .. c.row = {}
      BY <1>1 DEF Sound
    <2>2. c.row + 1 .. L \intersect c.since = {}
      BY DEF HasWalked, WalkedRows
    <2> HIDE DEF c, b, t, L, k, n, y
    <2>3. y.since = c.since /\ y.row = L /\ c.row \in Nat /\ L \in Nat /\ c.row <= L
      BY <1>1, <1>2, <1>6
    <2>4. 1 .. L = 1 .. c.row \union c.row + 1 .. L
      BY <2>3
    <2> QED
      BY <2>1, <2>2, <2>3, <2>4
  <1>9. y.seals \in Nat
    BY <1>7, SealsAreFinite
  <1> HIDE DEF c, b, t, L, k, n, y
  <1>10. y \in Cursor
    <2>1. c.seals + n \in Nat
      BY <1>6, <1>9
    <2>2. L \in Nat /\ b.seal \in Nat
      BY <1>1, <1>2
    <2>3. c.anchor + k \in Nat
      <3>1. c.anchor \in Nat /\ b.anchor \in Nat /\ k \in 0 .. b.anchor - c.anchor
        BY <1>1, <1>2
      <3> QED
        BY <3>1
    <2> QED
      BY <2>1, <2>2, <2>3, <1>5 DEF Cursor
  <1>11. y.row <= rows /\ y.seal <= Len(seals) /\ y.anchor <= Len(anchors)
    <2>1. L <= rows /\ b.seal <= Len(seals)
      BY <1>1, <1>2
    <2>2. c.anchor + k <= Len(anchors)
      BY <1>1, <1>2
    <2> QED
      BY <2>1, <2>2, <1>6
  <1>12. Sound(y)
    BY <1>7, <1>8, <1>10, <1>11 DEF Sound
  <1> QED
    BY <1>12 DEF y, c, b, t

(* An exhausted walk came to its bound, or to the end of the chain.         *)
LEMMA Reaches ==
  ASSUME ChainInv, NEW x, RunSound(x), HasWalked(x),
         Exhausted(x.cur, BoundsIn(x), x.tip)
  PROVE  LastRow(x.cur, BoundsIn(x), x.tip) >= Lower(Until(x.cur, BoundsIn(x)), x.tip)
  <1> DEFINE c == x.cur
             b == BoundsIn(x)
             t == x.tip
  <1>1. /\ c.row \in Nat /\ t \in Nat /\ Until(c, b) \in Nat
        /\ LastRow(c, b, t) - c.row < SegmentRows
    BY Bounds, Reading DEF Exhausted
  <1>2. LastRow(c, b, t) = Higher(c.row, Lower(Lower(Until(c, b), t), c.row + SegmentRows))
    BY DEF LastRow
  <1> HIDE DEF c, b, t
  <1>3. LastRow(c, b, t) >= Lower(Until(c, b), t)
    BY <1>1, <1>2, Limits DEF Higher, Lower
  <1> QED
    BY <1>3 DEF c, b, t

(* A segment that ends a line reads all anchors up to the bound.            *)
LEMMA Whole ==
  ASSUME ChainInv, NEW x, RunSound(x), HasWalked(x),
         Complete(x.cur, BoundsIn(x), x.tip),
         NEW y, y = Advanced(x.cur, BoundsIn(x), x.tip)
  PROVE  /\ y.row = LastRow(x.cur, BoundsIn(x), x.tip)
         /\ y.row >= Lower(x.bound.row, x.tip)
         /\ y.seal = BoundsIn(x).seal /\ y.anchor = BoundsIn(x).anchor
  <1> DEFINE c == x.cur
             b == BoundsIn(x)
             t == x.tip
             L == LastRow(c, b, t)
  <1>1. /\ c \in Cursor
        /\ c.row \in Nat /\ c.seal \in Nat /\ c.seals \in Nat /\ c.anchor \in Nat
        /\ b.seal \in c.seal .. Len(seals) /\ b.anchor \in c.anchor .. Len(anchors)
        /\ Len(seals) \in Nat /\ Len(anchors) \in Nat /\ b.row = x.bound.row
    BY Bounds, ChainFacts
  <1>2. SegmentEnd(c, b, t) /\ ~ BlockFull(c, b)
    BY DEF Complete
  <1>3. Until(c, b) = x.bound.row /\ Exhausted(c, b, t)
    BY <1>1, <1>2 DEF Until, AnchorLimited, SegmentEnd
  <1>4. L >= Lower(x.bound.row, t)
    BY <1>3, Reaches
  <1>5. Cardinality(DueAnchors(c, b, t)) = b.anchor - c.anchor
    <2>1. Cardinality(Block(c, b)) = Lower(b.anchor, c.anchor + SegmentAnchors) - c.anchor
      BY <1>1, FullBlock
    <2>2. ~ (c.anchor + SegmentAnchors <= b.anchor)
      BY <1>1, <1>2, FullBlock
    <2>3. DueAnchors(c, b, t) = Block(c, b)
      BY <1>2 DEF DueAnchors
    <2> HIDE DEF c, b, t
    <2> QED
      BY <2>1, <2>2, <2>3, <1>1, Limits DEF Lower
  <1>6. /\ y.row = L /\ y.seal = Higher(c.seal, b.seal)
        /\ y.anchor = c.anchor + (b.anchor - c.anchor)
    <2>1. y = Advanced(c, b, t)
      OBVIOUS
    <2> HIDE DEF c, b, t
    <2> QED
      BY <2>1, <1>1, <1>5 DEF Advanced, Cursor, L
  <1>7. y.row >= Lower(x.bound.row, t)
    BY <1>4, <1>6
  <1>8. y.anchor = b.anchor /\ y.seal = b.seal
    <2> HIDE DEF c, b, t, L
    <2> QED
      BY <1>1, <1>6 DEF Higher
  <1> QED
    BY <1>6, <1>7, <1>8

(* A line that is complete has seen all there was when its run began.       *)
LEMMA Arrival ==
  ASSUME ChainInv, NEW x, RunSound(x), HasWalked(x), x.pc = "conclude",
         Complete(x.cur, BoundsIn(x), x.tip),
         NEW y, y = Advanced(x.cur, BoundsIn(x), x.tip)
  PROVE  /\ y.anchor >= x.bound.anchor
         /\ \A s \in 1 .. x.bound.seal : s <= y.seal /\ seals[s] <= y.row
         /\ y.row = x.tip /\ y.seal = BoundsIn(x).seal /\ y.anchor = BoundsIn(x).anchor
  <1>1. /\ x.cur.row \in Nat /\ x.tip \in Nat /\ rows \in Nat
        /\ BoundsIn(x).seal \in Nat /\ BoundsIn(x).anchor \in Nat
        /\ x.bound.seal \in Nat /\ x.bound.anchor \in Nat
        /\ BoundsIn(x).seal >= x.bound.seal /\ BoundsIn(x).anchor >= x.bound.anchor
    BY Bounds, ChainFacts
  <1>2. /\ x.cur.row <= x.tip /\ x.tip <= rows /\ rows <= MaxRows
        /\ \A s \in 1 .. x.bound.seal : seals[s] <= x.tip
    BY Limits DEF HasWalked, ChainInv
  <1>3. x.bound.row = MaxRows + 1
    BY DEF RunSound, Sweeps, Endless
  <1>4. /\ y.row = LastRow(x.cur, BoundsIn(x), x.tip)
        /\ y.row >= Lower(MaxRows + 1, x.tip)
        /\ y.seal = BoundsIn(x).seal /\ y.anchor = BoundsIn(x).anchor
    BY <1>3, Whole
  <1>5. y.row <= x.tip
    <2>1. Until(x.cur, BoundsIn(x)) \in Nat
      BY Reading
    <2>2. y.row = Higher(x.cur.row, Lower(Lower(Until(x.cur, BoundsIn(x)), x.tip),
                                          x.cur.row + SegmentRows))
      BY <1>4 DEF LastRow
    <2> QED
      BY <1>1, <1>2, <2>1, <2>2, Limits DEF Higher, Lower
  <1>6. y.row = x.tip
    <2>1. y.row \in Nat
      BY <1>1, <1>4, Reading
    <2> QED
      BY <2>1, <1>1, <1>2, <1>4, <1>5, Limits DEF Lower
  <1> QED
    BY <1>1, <1>2, <1>4, <1>6

-----------------------------------------------------------------------------
(* Where runs begin. *)

LEMMA SoundGenesis ==
  ASSUME ChainInv, NEW k \in 0 .. Len(seals)
  PROVE  Sound(Genesis(k))
  <1>1. rows \in Nat /\ Len(seals) \in Nat /\ Len(anchors) \in Nat /\ altered \subseteq 1 .. rows
    BY ChainFacts DEF ChainInv
  <1>2. Genesis(k) \in Cursor
    BY <1>1 DEF Genesis, Cursor
  <1>3. SealsUpTo(Genesis(k)) = {}
    BY <1>1, ChainFacts DEF SealsUpTo, Genesis
  <1>4. Cardinality(SealsUpTo(Genesis(k))) = 0
    BY <1>3, FS_EmptySet
  <1> QED
    BY <1>1, <1>2, <1>4 DEF Sound, Genesis

LEMMA SoundNoCursor ==
  ASSUME ChainInv PROVE Sound(NoCursor)
  <1>1. rows \in Nat /\ Len(seals) \in Nat /\ Len(anchors) \in Nat
    BY ChainFacts
  <1>2. NoCursor \in Cursor
    BY DEF NoCursor, Cursor
  <1>3. SealsUpTo(NoCursor) = {}
    BY <1>1, ChainFacts DEF SealsUpTo, NoCursor
  <1>4. Cardinality(SealsUpTo(NoCursor)) = 0
    BY <1>3, FS_EmptySet
  <1> QED
    BY <1>1, <1>2, <1>4 DEF Sound, NoCursor

LEMMA IdleSound ==
  ASSUME ChainInv PROVE RunSound(Idle)
  <1>1. NoCursor \in Cursor
    BY DEF NoCursor, Cursor
  <1>2. Idle \in RunTyp
    BY <1>1, Limits DEF Idle, RunTyp, Pcs, BoundTyp, Endless
  <1>3. /\ Idle.pc = "idle" /\ Idle.cur = NoCursor /\ Idle.goal = NoCursor /\ Idle.held = None
        /\ Idle.bound.seal = 0 /\ Idle.bound.anchor = 0 /\ Idle.bound.row = Endless
        /\ Idle.persist /\ Idle.read = None
    BY DEF Idle
  <1> QED
    BY <1>2, <1>3, ChainFacts, SoundNoCursor DEF RunSound

LEMMA VerifyInit == Init => VerifyInv
  <1> SUFFICES ASSUME Init PROVE VerifyInv
    OBVIOUS
  <1>1. ChainInv
    BY Limits DEF Init, ChainInv
  <1>2. HarmInv
    BY Limits DEF Init, HarmInv
  <1>3. StoreInv
    BY DEF Init, StoreInv
  <1>4. RunInv
    <2>1. RunSound(Idle)
      BY <1>1, IdleSound
    <2>2. Idle \in RunTyp
      BY <2>1 DEF RunSound
    <2> QED
      BY <2>1, <2>2 DEF Init, RunInv
  <1> QED
    BY <1>1, <1>2, <1>3, <1>4 DEF VerifyInv

-----------------------------------------------------------------------------
(* The chain's own steps. *)

LEMMA ChainStep ==
  ASSUME VerifyInv, ChainInv', Grows, UNCHANGED <<store, run, harm>>
  PROVE  VerifyInv'
  <1> USE DEF VerifyInv
  <1>1. HarmInv'
    BY DEF HarmInv, harm
  <1>2. StoreInv'
    <2>1. \A c : Sound(c) => Sound(c)'
      BY SoundStays
    <2>2. PICK i, f, t : i = inc /\ f = full /\ t = target
      OBVIOUS
    <2>3. inc' = i /\ full' = f /\ target' = t /\ incBy' = incBy /\ fullBy' = fullBy
      BY <2>2 DEF store
    <2>4. /\ i = None \/ (i \in IncTyp /\ Sound(i.cur)')
          /\ f = None \/ (f \in SweepTyp /\ Sound(f.cur)')
          /\ t = None \/ (t \in SweepTyp /\ Sound(t.cur)')
      BY <2>1, <2>2 DEF StoreInv
    <2> QED
      BY <2>2, <2>3, <2>4 DEF StoreInv
  <1>3. RunInv'
    <2>1. run' = run /\ incBy' = incBy /\ inc' = inc
      BY DEF store
    <2>2. ASSUME NEW r \in Runs PROVE RunSound(run[r])'
      <3>1. PICK x : x = run[r]
        OBVIOUS
      <3>2. RunSound(x)
        BY <3>1 DEF RunInv
      <3>3. RunSound(x)'
        BY <3>2, RunStays
      <3> QED
        BY <3>1, <3>3, <2>1
    <2> QED
      BY <2>1, <2>2 DEF RunInv
  <1> QED
    BY <1>1, <1>2, <1>3

LEMMA ChainGrows ==
  ASSUME VerifyInv, Record \/ Seal \/ Anchor \/ Alter
  PROVE  VerifyInv' /\ Grows
  <1>1. ChainInv
    BY DEF VerifyInv
  <1>2. /\ rows \in 0 .. MaxRows /\ altered \subseteq 1 .. rows
        /\ seals \in Seq(1 .. rows) /\ anchors \in Seq(1 .. rows)
        /\ rows \in Nat /\ MaxRows \in Nat /\ Len(seals) \in Nat /\ Len(anchors) \in Nat
    BY <1>1, ChainFacts, Limits DEF ChainInv
  <1>3. UNCHANGED <<store, run, harm>>
    BY DEF Record, Seal, Anchor, Alter
  <1>4. CASE Record
    <2>1. rows' = rows + 1 /\ rows + 1 <= MaxRows
          /\ seals' = seals /\ anchors' = anchors /\ altered' = altered
      BY <1>2, <1>4 DEF Record
    <2>2. Grows
      BY <1>2, <2>1 DEF Grows
    <2>3. seals \in Seq(1 .. rows + 1) /\ anchors \in Seq(1 .. rows + 1)
      BY <1>2
    <2>4. ChainInv'
      BY <1>2, <2>1, <2>3 DEF ChainInv
    <2> QED
      BY <1>3, <2>2, <2>4, ChainStep
  <1>5. CASE Seal
    <2>1. PICK top \in 1 .. rows : seals' = Append(seals, top)
      BY <1>5 DEF Seal
    <2>2. rows' = rows /\ anchors' = anchors /\ altered' = altered
      BY <1>5 DEF Seal
    <2>3. /\ seals' \in Seq(1 .. rows) /\ Len(seals') = Len(seals) + 1
          /\ \A s \in 1 .. Len(seals) : seals'[s] = seals[s]
      BY <1>2, <2>1
    <2>4. Grows
      BY <1>2, <2>2, <2>3 DEF Grows
    <2>5. ChainInv'
      BY <1>2, <2>2, <2>3 DEF ChainInv
    <2> QED
      BY <1>3, <2>4, <2>5, ChainStep
  <1>6. CASE Anchor
    <2>1. PICK top \in 1 .. rows : anchors' = Append(anchors, top)
      BY <1>6 DEF Anchor
    <2>2. rows' = rows /\ seals' = seals /\ altered' = altered
      BY <1>6 DEF Anchor
    <2>3. /\ anchors' \in Seq(1 .. rows) /\ Len(anchors') = Len(anchors) + 1
          /\ \A a \in 1 .. Len(anchors) : anchors'[a] = anchors[a]
      BY <1>2, <2>1
    <2>4. Grows
      BY <1>2, <2>2, <2>3 DEF Grows
    <2>5. ChainInv'
      BY <1>2, <2>2, <2>3 DEF ChainInv
    <2> QED
      BY <1>3, <2>4, <2>5, ChainStep
  <1>7. CASE Alter
    <2>1. /\ rows' = rows /\ seals' = seals /\ anchors' = anchors
          /\ \E n \in (1 .. rows) \ altered : altered' = altered \union {n}
      BY <1>7 DEF Alter
    <2>2. altered \subseteq altered' /\ altered' \subseteq 1 .. rows
      BY <1>2, <2>1
    <2>3. Grows
      BY <1>2, <2>1, <2>2 DEF Grows
    <2>4. ChainInv'
      BY <1>2, <2>1, <2>2 DEF ChainInv
    <2> QED
      BY <1>3, <2>3, <2>4, ChainStep
  <1> QED
    BY <1>4, <1>5, <1>6, <1>7

-----------------------------------------------------------------------------
(* How a run's step leaves the others and the stored rows. *)

Calm == UNCHANGED chain /\ HarmInv'

LEMMA ChainKept ==
  ASSUME VerifyInv, Calm
  PROVE  /\ ChainInv /\ ChainInv' /\ Grows
         /\ \A c : Sound(c) => Sound(c)'
         /\ \A x : RunSound(x) => RunSound(x)'
  <1>1. ChainInv
    BY DEF VerifyInv
  <1>2. ChainInv'
    BY <1>1 DEF Calm, chain, ChainInv
  <1>3. Grows
    BY <1>1, ChainFacts DEF Calm, chain, Grows
  <1> QED
    BY <1>1, <1>2, <1>3, SoundStays, RunStays

(* The steps of a run write its own state, and only what it holds.          *)
LEMMA OneRun ==
  ASSUME VerifyInv, Calm, StoreInv', NEW r \in Runs, NEW n, RunSound(n),
         run' = [run EXCEPT ![r] = n],
         r \in incBy' => n.held = inc' /\ MayOwn(n),
         \A q \in Runs \ {r} : q \in incBy' => q \in incBy /\ inc' = inc
  PROVE  VerifyInv'
  <1>1. ChainInv' /\ (\A x : RunSound(x) => RunSound(x)')
    BY ChainKept
  <1>2. run \in [Runs -> RunTyp] /\ n \in RunTyp
    BY DEF VerifyInv, RunInv, RunSound
  <1>3. run' \in [Runs -> RunTyp]
    BY <1>2
  <1>4. ASSUME NEW q \in Runs 
        PROVE RunSound(run[q])' /\ (q \in incBy' => run'[q].held = inc' /\ MayOwn(run'[q]))
    <2>1. CASE q = r
      <3>1. run'[q] = n
        BY <2>1, <1>2
      <3>2. RunSound(n)'
        BY <1>1
      <3> QED
        BY <3>1, <3>2, <2>1
    <2>2. CASE q # r
      <3>1. PICK x : x = run[q]
        OBVIOUS
      <3>2. run'[q] = x
        BY <3>1, <2>2, <1>2
      <3>3. RunSound(x)'
        BY <3>1, <1>1 DEF VerifyInv, RunInv
      <3>4. q \in incBy' => x.held = inc' /\ MayOwn(x)
        BY <3>1, <2>2 DEF VerifyInv, RunInv
      <3> QED
        BY <3>2, <3>3, <3>4
    <2> QED
      BY <2>1, <2>2
  <1>5. RunInv'
    BY <1>3, <1>4 DEF RunInv, MayOwn
  <1> QED
    BY <1>1, <1>5 DEF VerifyInv, Calm

LEMMA RowsKept ==
  ASSUME VerifyInv, Calm, UNCHANGED <<inc, full, target>>,
         incBy' \subseteq Runs, incBy' # {} => inc # None,
         fullBy' \subseteq Runs, fullBy' # {} => full # None
  PROVE  StoreInv'
  <1>1. \A c : Sound(c) => Sound(c)'
    BY ChainKept
  <1>2. PICK i, f, t : i = inc /\ f = full /\ t = target
    OBVIOUS
  <1>3. /\ i = None \/ (i \in IncTyp /\ Sound(i.cur)')
        /\ f = None \/ (f \in SweepTyp /\ Sound(f.cur)')
        /\ t = None \/ (t \in SweepTyp /\ Sound(t.cur)')
    BY <1>1, <1>2 DEF VerifyInv, StoreInv
  <1>4. (f = None) = (t = None) /\ (f # None => f.sweep = t.sweep)
    BY <1>2 DEF VerifyInv, StoreInv
  <1> QED
    BY <1>2, <1>3, <1>4 DEF StoreInv

LEMMA RowsDeleted ==
  ASSUME Delete PROVE StoreInv'
  BY DEF Delete, StoreInv

LEMMA LineWritten ==
  ASSUME VerifyInv, Calm, NEW i \in IncTyp, Sound(i.cur), inc' = i,
         UNCHANGED <<full, target>>, incBy' \subseteq Runs,
         fullBy' \subseteq Runs, fullBy' # {} => full # None
  PROVE  StoreInv'
  <1>1. \A c : Sound(c) => Sound(c)'
    BY ChainKept
  <1>2. PICK f, t : f = full /\ t = target
    OBVIOUS
  <1>3. /\ Sound(i.cur)'
        /\ f = None \/ (f \in SweepTyp /\ Sound(f.cur)')
        /\ t = None \/ (t \in SweepTyp /\ Sound(t.cur)')
    BY <1>1, <1>2 DEF VerifyInv, StoreInv
  <1>4. (f = None) = (t = None) /\ (f # None => f.sweep = t.sweep)
    BY <1>2 DEF VerifyInv, StoreInv
  <1>5. i # None
    BY DEF IncTyp, None
  <1> QED
    BY <1>2, <1>3, <1>4, <1>5 DEF StoreInv

LEMMA SweepEnded ==
  ASSUME VerifyInv, Calm, NEW i \in IncTyp, Sound(i.cur), inc' = i,
         full' = None, target' = None, incBy' \subseteq Runs, fullBy' = {}
  PROVE  StoreInv'
  <1>1. Sound(i.cur)'
    BY ChainKept
  <1>2. i # None
    BY DEF IncTyp, None
  <1> QED
    BY <1>1, <1>2 DEF StoreInv

(* What is known of a run that is about to act.                             *)
LEMMA RunFacts ==
  ASSUME VerifyInv, NEW r \in Runs
  PROVE  /\ RunSound(run[r]) /\ run[r] \in RunTyp /\ run[r].pc \in Pcs
         /\ Sound(run[r].cur) /\ Sound(run[r].goal)
         /\ run[r].held = None \/ (run[r].held \in IncTyp /\ Sound(run[r].held.cur))
         /\ run[r].read = None \/ (run[r].read \in SweepTyp /\ Sound(run[r].read.cur))
         /\ r \in incBy => run[r].held = inc /\ inc # None /\ MayOwn(run[r])
         /\ r \in fullBy => full # None
         /\ incBy \subseteq Runs /\ fullBy \subseteq Runs
         /\ inc = None \/ (inc \in IncTyp /\ Sound(inc.cur))
         /\ full = None \/ (full \in SweepTyp /\ Sound(full.cur))
         /\ target = None \/ (target \in SweepTyp /\ Sound(target.cur))
         /\ (full = None) = (target = None)
  <1>1. RunSound(run[r]) /\ (r \in incBy => run[r].held = inc /\ MayOwn(run[r]))
    BY DEF VerifyInv, RunInv
  <1>2. run[r] \in RunTyp /\ Sound(run[r].cur) /\ Sound(run[r].goal)
        /\ (run[r].held # None => Sound(run[r].held.cur))
        /\ (run[r].read # None => Sound(run[r].read.cur))
    BY <1>1 DEF RunSound
  <1>3. /\ run[r].pc \in Pcs /\ run[r].held \in {None} \union IncTyp
        /\ run[r].read \in {None} \union SweepTyp
    BY <1>2 DEF RunTyp
  <1> QED
    BY <1>1, <1>2, <1>3 DEF VerifyInv, StoreInv

Plain == Pcs \ {"conclude", "sweepConclude", "complete", "idle", "load"}

(* A run goes on to p and stays where it is in the chain.                   *)
LEMMA GoesOn ==
  ASSUME VerifyInv, Calm, UNCHANGED store, NEW r \in Runs, NEW p \in Plain, NEW n \in RunTyp,
         n.pc = p, n.cur = run[r].cur, n.goal = run[r].goal, n.held = run[r].held,
         n.bound = run[r].bound, n.read = run[r].read, n.persist = run[r].persist,
         run' = [run EXCEPT ![r] = n],
         p \in Sweeps \/ run[r].pc \notin Sweeps,
         p \in {"orphans", "resolve"} => run[r].persist,
         p = "orphans" => run[r].pc = "load"
  PROVE  VerifyInv'
  <1> DEFINE x == run[r]
  <1>1. /\ RunSound(x) /\ p \in Pcs
        /\ p \notin {"conclude", "sweepConclude", "complete", "idle", "load"}
    BY RunFacts DEF Plain
  <1>2. RunSound(n)
    <2>1. /\ n.cur = x.cur /\ n.goal = x.goal /\ n.held = x.held
          /\ n.bound = x.bound /\ n.read = x.read /\ n.persist = x.persist
          /\ p \in Sweeps \/ x.pc \notin Sweeps
          /\ p \in {"orphans", "resolve"} => x.persist
      OBVIOUS
    <2> HIDE DEF x
    <2> QED
      BY <1>1, <2>1 DEF RunSound
  <1>3. /\ inc' = inc /\ full' = full /\ target' = target
        /\ incBy' = incBy /\ fullBy' = fullBy
    BY DEF store
  <1>4. StoreInv'
    BY <1>3, RowsKept DEF VerifyInv, StoreInv
  <1>5. r \in incBy' => n.held = inc' /\ MayOwn(n)
    BY <1>1, <1>3, RunFacts DEF MayOwn
  <1> QED
    BY <1>2, <1>3, <1>4, <1>5, OneRun

LEMMA Moves ==
  ASSUME VerifyInv, Calm, UNCHANGED store, NEW r \in Runs, NEW p \in Plain,
         Goto(r, p), p \in Sweeps \/ run[r].pc \notin Sweeps,
         p \in {"orphans", "resolve"} => run[r].persist,
         p = "orphans" => run[r].pc = "load"
  PROVE  VerifyInv'
  <1>1. PICK n, x : x = run[r] /\ n = [x EXCEPT !.pc = p]
    OBVIOUS
  <1>2. x \in RunTyp /\ p \in Pcs
    BY <1>1, RunFacts DEF Plain
  <1>3. /\ n \in RunTyp /\ n.pc = p /\ n.cur = x.cur /\ n.goal = x.goal
        /\ n.held = x.held /\ n.bound = x.bound /\ n.read = x.read /\ n.persist = x.persist
    BY <1>1, <1>2 DEF RunTyp
  <1>4. run' = [run EXCEPT ![r] = n]
    BY <1>1 DEF Goto
  <1> QED
    BY <1>1, <1>3, <1>4, GoesOn

(* The walk did not count, the run goes on to p.                            *)
Turn(r, p) == run' = [run EXCEPT ![r].tip = 0, ![r].pc = p]

LEMMA Turns ==
  ASSUME VerifyInv, Calm, UNCHANGED store, NEW r \in Runs, NEW p \in Plain,
         Turn(r, p),
         p \in Sweeps \/ run[r].pc \notin Sweeps,
         p = "resolve" => run[r].persist, p # "orphans"
  PROVE  VerifyInv'
  <1>1. PICK n, x : x = run[r] /\ n = [x EXCEPT !.tip = 0, !.pc = p]
    OBVIOUS
  <1>2. x \in RunTyp /\ p \in Pcs
    BY <1>1, RunFacts DEF Plain
  <1>3. /\ n \in RunTyp /\ n.pc = p /\ n.cur = x.cur /\ n.goal = x.goal
        /\ n.held = x.held /\ n.bound = x.bound /\ n.read = x.read /\ n.persist = x.persist
    BY <1>1, <1>2 DEF RunTyp
  <1>4. run' = [run EXCEPT ![r] = n]
    BY <1>1 DEF Turn
  <1>5. /\ p \in {"orphans", "resolve"} => run[r].persist
        /\ p = "orphans" => run[r].pc = "load"
    OBVIOUS
  <1>6. /\ n.cur = run[r].cur /\ n.goal = run[r].goal /\ n.held = run[r].held
        /\ n.bound = run[r].bound /\ n.read = run[r].read /\ n.persist = run[r].persist
    BY <1>1, <1>3
  <1>7. n \in RunTyp /\ n.pc = p
    BY <1>3
  <1>8. p \in Sweeps \/ run[r].pc \notin Sweeps
    OBVIOUS
  <1> QED
    BY <1>4, <1>5, <1>6, <1>7, <1>8, GoesOn

(* A run is over, and lets go of the rows.                                  *)
LEMMA Stops ==
  ASSUME VerifyInv, Calm, StoreInv', NEW r \in Runs, End(r),
         r \notin incBy', incBy' \subseteq incBy, incBy' # {} => inc' = inc
  PROVE  VerifyInv'
  <1>1. RunSound(Idle)
    BY IdleSound DEF VerifyInv
  <1>2. PICK n : n = Idle
    OBVIOUS
  <1> QED
    BY <1>1, <1>2, OneRun DEF End

LEMMA Ends ==
  ASSUME VerifyInv, Calm, UNCHANGED <<inc, full, target>>, NEW r \in Runs,
         End(r), incBy' \subseteq incBy \ {r}, fullBy' \subseteq fullBy
  PROVE  VerifyInv'
  <1>1. StoreInv'
    BY RowsKept DEF VerifyInv, StoreInv
  <1> QED
    BY <1>1, Stops

-----------------------------------------------------------------------------
(* The incremental line. *)

LEMMA Quiet ==
  ASSUME VerifyInv, UNCHANGED <<chain, harm>> PROVE Calm
  BY DEF VerifyInv, Calm, HarmInv, harm

LEMMA BeginKeeps ==
  ASSUME VerifyInv, NEW r \in Runs, Begin(r) PROVE VerifyInv'
  <1>1. Calm
    BY Quiet DEF Begin
  <1>2. PICK n : n = [Idle EXCEPT !.pc = "load", !.bound =
                        [row |-> Endless, seal |-> Len(seals), anchor |-> Len(anchors)]]
    OBVIOUS
  <1>3. ChainInv /\ Len(seals) \in Nat /\ Len(anchors) \in Nat
    BY ChainFacts DEF VerifyInv
  <1>4. RunSound(Idle)
    BY <1>3, IdleSound
  <1>5. /\ n \in RunTyp /\ n.pc = "load" /\ n.cur = Idle.cur /\ n.goal = Idle.goal
        /\ n.held = None /\ n.read = None /\ n.bound.row = Endless /\ n.persist
        /\ n.bound.seal = Len(seals) /\ n.bound.anchor = Len(anchors)
    <2>1. [row |-> Endless, seal |-> Len(seals), anchor |-> Len(anchors)] \in BoundTyp
      BY <1>3, Limits DEF BoundTyp, Endless
    <2>2. Idle \in RunTyp
      BY <1>4 DEF RunSound
    <2>3. Idle.held = None /\ Idle.persist /\ Idle.read = None
      BY DEF Idle
    <2> QED
      BY <2>1, <2>2, <2>3, <1>2 DEF RunTyp, Pcs
  <1>6. RunSound(n)
    BY <1>3, <1>4, <1>5 DEF RunSound
  <1>7. /\ inc' = inc /\ full' = full /\ target' = target
        /\ incBy' = incBy /\ fullBy' = fullBy
    BY DEF Begin, store
  <1>8. r \notin incBy
    BY RunFacts DEF Begin, MayOwn
  <1>9. StoreInv'
    BY <1>1, <1>7, RowsKept DEF VerifyInv, StoreInv
  <1>10. run' = [run EXCEPT ![r] = n]
    BY <1>2 DEF Begin
  <1> QED
    BY <1>1, <1>6, <1>7, <1>8, <1>9, <1>10, OneRun

(* A run takes the stored row for its own.                                  *)
LEMMA Holds ==
  ASSUME NEW x, RunSound(x), x.pc \notin Sweeps, NEW i \in IncTyp, Sound(i.cur),
         NEW n \in RunTyp, n.pc = "walk", n.cur = i.cur, n.held = i,
         n.goal = x.goal, n.bound = x.bound, n.read = x.read, n.persist
  PROVE  RunSound(n) /\ MayOwn(n)
  BY DEF RunSound, MayOwn

LEMMA Anew ==
  ASSUME ChainInv, NEW x, RunSound(x), x.pc \notin Sweeps, NEW n \in RunTyp,
         n.pc = "walk", n.cur = Genesis(0), n.held = None,
         n.goal = x.goal, n.bound = x.bound, n.read = x.read
  PROVE  RunSound(n)
  <1>1. Sound(Genesis(0))
    BY ChainFacts, SoundGenesis
  <1> QED
    BY <1>1 DEF RunSound

(* A run goes on from the stored cursor i.                                  *)
Taking(x, i, l) == [Holding(x, i) EXCEPT !.pc = "walk", !.lastFull = l]

LEMMA Taken ==
  ASSUME NEW x \in RunTyp, NEW i \in IncTyp, NEW l \in BOOLEAN,
         NEW n, n = Taking(x, i, l)
  PROVE  /\ n \in RunTyp /\ n.pc = "walk" /\ n.cur = i.cur /\ n.held = i
         /\ n.goal = x.goal /\ n.bound = x.bound /\ n.read = x.read /\ n.persist = x.persist
  <1>1. PICK c, d : c = i.cur /\ d = ~ i.done
    OBVIOUS
  <1>2. c \in Cursor /\ d \in BOOLEAN
    BY <1>1 DEF IncTyp
  <1>3. n = [x EXCEPT !.held = i, !.cur = c, !.fromGenesis = d,
                      !.walked = FALSE, !.pc = "walk", !.lastFull = l]
    BY <1>1 DEF Taking, Holding, RunTyp
  <1>4. n \in RunTyp
    BY <1>2, <1>3, ZenonT(30) DEF RunTyp, Pcs
  <1>5. /\ n.pc = "walk" /\ n.cur = c /\ n.held = i
        /\ n.goal = x.goal /\ n.bound = x.bound /\ n.read = x.read /\ n.persist = x.persist
    BY <1>3 DEF RunTyp
  <1> QED
    BY <1>1, <1>4, <1>5

LEMMA LoadKeeps ==
  ASSUME VerifyInv, NEW r \in Runs, Load(r) PROVE VerifyInv'
  <1>1. Calm /\ run[r].pc = "load" /\ run[r].pc \notin Sweeps
    BY Quiet DEF Load, Sweeps
  <1>2. CASE inc = None
    <2>1. Goto(r, "orphans") /\ UNCHANGED store
      BY <1>2 DEF Load, store
    <2>2. run[r].persist
      BY <1>1, RunFacts DEF RunSound
    <2> QED
      BY <1>1, <2>1, <2>2, Moves DEF Plain, Pcs
  <1>3. CASE inc # None /\ ~ Fits(inc.cur)
    <2>1. Goto(r, "discard") /\ UNCHANGED store
      BY <1>3 DEF Load, Alarm, store
    <2> QED
      BY <1>1, <2>1, Moves DEF Plain, Pcs
  <1>4. CASE inc # None /\ Fits(inc.cur)
    <2>1. PICK n, x, i, l : /\ x = run[r] /\ i = inc /\ l = i.done
                            /\ n = [Holding(x, i) EXCEPT !.pc = "walk", !.lastFull = l]
      OBVIOUS
    <2>2. run' = [run EXCEPT ![r] = n]
      BY <1>4, <2>1 DEF Load
    <2>3. /\ incBy' = incBy \union {r} /\ inc' = inc /\ full' = full
          /\ target' = target /\ fullBy' = fullBy
      BY <1>4 DEF Load
    <2>4. RunSound(x) /\ i \in IncTyp /\ Sound(i.cur) /\ l \in BOOLEAN /\ x.persist
      BY <1>1, <1>4, <2>1, RunFacts DEF IncTyp, RunSound
    <2>5. /\ n \in RunTyp /\ n.pc = "walk" /\ n.cur = i.cur /\ n.held = i
          /\ n.goal = x.goal /\ n.bound = x.bound /\ n.read = x.read /\ n.persist
      <3>1. x \in RunTyp
        BY <2>4 DEF RunSound
      <3>2. n = Taking(x, i, l)
        BY <2>1 DEF Taking
      <3> QED
        BY <2>4, <3>1, <3>2, Taken
    <2>6. RunSound(n) /\ MayOwn(n)
      <3>1. x.pc \notin Sweeps
        BY <1>1, <2>1
      <3> QED
        BY <2>4, <2>5, <3>1, Holds
    <2>7. StoreInv'
      BY <1>1, <1>4, <2>3, RunFacts, RowsKept
    <2> QED
      BY <1>1, <2>1, <2>2, <2>3, <2>5, <2>6, <2>7, OneRun
  <1> QED
    BY <1>2, <1>3, <1>4

LEMMA OrphansKeeps ==
  ASSUME VerifyInv, NEW r \in Runs, Orphans(r) PROVE VerifyInv'
  <1>1. Calm /\ run[r].pc \notin Sweeps /\ UNCHANGED store
    BY Quiet DEF Orphans, Sweeps
  <1>2. CASE full = None /\ target = None
    <2>1. PICK n, x : x = run[r] /\ n = AtGenesis(x)
      OBVIOUS
    <2>2. run' = [run EXCEPT ![r] = n]
      BY <1>2, <2>1 DEF Orphans
    <2>3. RunSound(x) /\ x \in RunTyp
      BY <2>1, RunFacts
    <2>4. Genesis(0) \in Cursor
      BY ChainFacts, SoundGenesis DEF VerifyInv, Sound
    <2>5. /\ n \in RunTyp /\ n.pc = "walk" /\ n.cur = Genesis(0) /\ n.held = None
          /\ n.goal = x.goal /\ n.bound = x.bound /\ n.read = x.read
      BY <2>1, <2>3, <2>4 DEF AtGenesis, RunTyp, Pcs
    <2>6. RunSound(n)
      BY <1>1, <2>1, <2>3, <2>5, Anew DEF VerifyInv
    <2>7. /\ inc' = inc /\ full' = full /\ target' = target
          /\ incBy' = incBy /\ fullBy' = fullBy
      BY <1>1 DEF store
    <2>8. r \notin incBy
      BY RunFacts DEF Orphans, MayOwn
    <2>9. StoreInv'
      BY <1>1, <2>7, RowsKept DEF VerifyInv, StoreInv
    <2> QED
      BY <1>1, <2>2, <2>6, <2>7, <2>8, <2>9, OneRun
  <1>3. CASE ~ (full = None /\ target = None)
    <2>1. Goto(r, "discard")
      BY <1>3 DEF Orphans, Alarm
    <2> QED
      BY <1>1, <2>1, Moves DEF Plain, Pcs
  <1> QED
    BY <1>2, <1>3

LEMMA DiscardAllKeeps ==
  ASSUME VerifyInv, NEW r \in Runs, DiscardAll(r) PROVE VerifyInv'
  <1>1. Calm /\ run[r].pc \notin Sweeps /\ Delete
    BY Quiet DEF DiscardAll, Sweeps
  <1>2. PICK n, x : /\ x = run[r]
                    /\ n = [AtGenesis(x) EXCEPT !.persist = ~ x.discarded,
                                                !.discarded = TRUE, !.lastFull = FALSE]
    OBVIOUS
  <1>3. run' = [run EXCEPT ![r] = n]
    BY <1>2 DEF DiscardAll
  <1>4. RunSound(x) /\ x \in RunTyp
    BY <1>2, RunFacts
  <1>5. Genesis(0) \in Cursor
    BY ChainFacts, SoundGenesis DEF VerifyInv, Sound
  <1>6. /\ n \in RunTyp /\ n.pc = "walk" /\ n.cur = Genesis(0) /\ n.held = None
        /\ n.goal = x.goal /\ n.bound = x.bound /\ n.read = x.read
    <2>1. PICK d, g : d = (~ x.discarded) /\ g = Genesis(0)
      OBVIOUS
    <2>2. n = [x EXCEPT !.held = None, !.cur = g, !.fromGenesis = TRUE, !.walked = TRUE,
                        !.pc = "walk", !.persist = d, !.discarded = TRUE, !.lastFull = FALSE]
      BY <1>2, <1>4, <2>1 DEF AtGenesis, RunTyp
    <2>3. n \in RunTyp
      <3>1. d \in BOOLEAN /\ g \in Cursor
        BY <1>5, <2>1
      <3> QED
        BY <1>4, <2>2, <3>1 DEF RunTyp, Pcs
    <2>4. /\ n.pc = "walk" /\ n.cur = g /\ n.held = None
          /\ n.goal = x.goal /\ n.bound = x.bound /\ n.read = x.read
      BY <1>4, <2>2 DEF RunTyp
    <2> QED
      BY <2>1, <2>3, <2>4
  <1>7. RunSound(n)
    BY <1>1, <1>2, <1>4, <1>6, Anew DEF VerifyInv
  <1>8. StoreInv' /\ incBy' = {}
    BY <1>1, RowsDeleted DEF Delete
  <1> QED
    BY <1>1, <1>3, <1>7, <1>8, OneRun

LEMMA WalkKeeps ==
  ASSUME VerifyInv, NEW r \in Runs, Walk(r) PROVE VerifyInv'
  <1>1. Calm /\ UNCHANGED store
    BY Quiet DEF Walk
  <1>2. PICK x, hit : /\ x = run[r]
                      /\ hit = WalkedRows(x.cur, BoundsIn(x), rows) \intersect altered
    OBVIOUS
  <1>3. BoundsOf(r) = BoundsIn(x)
    BY <1>2 DEF BoundsOf, BoundsIn
  <1>4. RunSound(x) /\ x \in RunTyp /\ x.pc \in {"walk", "sweepWalk"}
    BY <1>2, RunFacts DEF Walk
  <1>5. CASE hit = {}
    <2>1. PICK n : n = [x EXCEPT !.tip = rows,
                          !.pc = IF x.pc = "walk" THEN "conclude" ELSE "sweepConclude"]
      OBVIOUS
    <2>2. run' = [run EXCEPT ![r] = n]
      BY <1>2, <1>3, <1>5, <2>1 DEF Walk
    <2>3. rows \in Nat /\ ChainInv
      BY ChainFacts DEF VerifyInv
    <2>4. /\ n \in RunTyp /\ n.cur = x.cur /\ n.goal = x.goal /\ n.held = x.held
          /\ n.bound = x.bound /\ n.read = x.read /\ n.persist = x.persist /\ n.tip = rows
          /\ n.pc = IF x.pc = "walk" THEN "conclude" ELSE "sweepConclude"
      BY <1>4, <2>1, <2>3 DEF RunTyp, Pcs
    <2>5. HasWalked(n)
      <3>1. BoundsIn(n) = BoundsIn(x)
        BY <2>4 DEF BoundsIn
      <3>2. x.cur.row <= rows /\ x.cur.since \subseteq altered /\ x.bound.seal <= Len(seals)
        BY <1>4 DEF RunSound, Sound
      <3>3. WalkedRows(n.cur, BoundsIn(n), n.tip) \intersect n.cur.since = {}
        BY <1>2, <1>5, <2>4, <3>1, <3>2
      <3>4. \A s \in 1 .. n.bound.seal : seals[s] <= n.tip
        <4>1. x.bound.seal \in Nat /\ Len(seals) \in Nat
          BY <1>4, <2>3, Bounds, ChainFacts
        <4>2. \A s \in 1 .. Len(seals) : seals[s] \in 1 .. rows
          BY <2>3, ChainFacts
        <4> QED
          BY <4>1, <4>2, <3>2, <2>3, <2>4
      <3> QED
        BY <2>3, <2>4, <3>2, <3>3, <3>4 DEF HasWalked
    <2>6. RunSound(n)
      BY <1>4, <2>4, <2>5 DEF RunSound, Sweeps
    <2>7. /\ inc' = inc /\ full' = full /\ target' = target
          /\ incBy' = incBy /\ fullBy' = fullBy
      BY <1>1 DEF store
    <2>8. StoreInv'
      BY <1>1, <2>7, RowsKept DEF VerifyInv, StoreInv
    <2>9. r \in incBy' => n.held = inc' /\ MayOwn(n)
      BY <1>2, <1>4, <2>4, <2>7, RunFacts DEF MayOwn
    <2> QED
      BY <1>1, <2>2, <2>6, <2>7, <2>8, <2>9, OneRun
  <1>6. CASE hit # {}
    <2>1. Goto(r, IF x.pc = "walk" THEN "due" ELSE "reset")
      BY <1>2, <1>3, <1>6 DEF Walk
    <2> QED
      BY <1>1, <1>2, <1>4, <2>1, Moves DEF Plain, Pcs, Sweeps
  <1> QED
    BY <1>5, <1>6

LEMMA ConcludeBrokenKeeps ==
  ASSUME VerifyInv, NEW r \in Runs, ConcludeBroken(r) PROVE VerifyInv'
  <1>1. Calm /\ UNCHANGED store /\ run[r].pc \notin Sweeps
    BY Quiet DEF ConcludeBroken, Sweeps
  <1>2. PICK p : p = IF run[r].restarted THEN "due" ELSE "restart"
    OBVIOUS
  <1>3. run' = [run EXCEPT ![r].tip = 0, ![r].pc = p]
    BY <1>2 DEF ConcludeBroken
  <1>4. p \in {"due", "restart"}
    BY <1>2
  <1> QED
    BY <1>1, <1>3, <1>4, Turns DEF Plain, Pcs, Turn

LEMMA RestartKeeps ==
  ASSUME VerifyInv, NEW r \in Runs, Restart(r) PROVE VerifyInv'
  <1>1. Calm /\ run[r].pc \notin Sweeps
    BY Quiet DEF Restart, Sweeps
  <1>2. PICK n, x : /\ x = run[r]
                    /\ n = [AtGenesis(x) EXCEPT !.restarted = TRUE, !.lastFull = FALSE]
    OBVIOUS
  <1>3. run' = [run EXCEPT ![r] = n]
    BY <1>2 DEF Restart
  <1>4. RunSound(x) /\ x \in RunTyp
    BY <1>2, RunFacts
  <1>5. Genesis(0) \in Cursor
    BY ChainFacts, SoundGenesis DEF VerifyInv, Sound
  <1>6. /\ n \in RunTyp /\ n.pc = "walk" /\ n.cur = Genesis(0) /\ n.held = None
        /\ n.goal = x.goal /\ n.bound = x.bound /\ n.read = x.read
    BY <1>2, <1>4, <1>5 DEF AtGenesis, RunTyp, Pcs
  <1>7. RunSound(n)
    BY <1>1, <1>2, <1>4, <1>6, Anew DEF VerifyInv
  <1>8. CASE run[r].persist
    <2>1. StoreInv' /\ incBy' = {}
      BY <1>8, RowsDeleted DEF Restart, Delete
    <2> QED
      BY <1>1, <1>3, <1>7, <2>1, OneRun
  <1>9. CASE ~ run[r].persist
    <2>1. /\ inc' = inc /\ full' = full /\ target' = target
          /\ incBy' = incBy /\ fullBy' = fullBy
      BY <1>9 DEF Restart, store
    <2>2. r \notin incBy
      BY <1>9, RunFacts DEF MayOwn
    <2>3. StoreInv'
      BY <1>1, <2>1, RowsKept DEF VerifyInv, StoreInv
    <2> QED
      BY <1>1, <1>3, <1>7, <2>1, <2>2, <2>3, OneRun
  <1> QED
    BY <1>8, <1>9

(* A segment is done, the run goes on from the cursor behind it.            *)
LEMMA Arrives ==
  ASSUME ChainInv, NEW x, RunSound(x), x.pc = "conclude",
         NEW n \in RunTyp, n.cur = Advanced(x.cur, BoundsIn(x), x.tip),
         n.goal = x.goal, n.bound = x.bound, n.read = x.read, n.held # None => Sound(n.held.cur),
         n.pc \in {"walk", "due", "complete"},
         n.pc = "complete" => Complete(x.cur, BoundsIn(x), x.tip)
  PROVE  RunSound(n)
  <1>1. HasWalked(x) /\ x.pc \notin Sweeps
    BY DEF RunSound, Sweeps
  <1>2. Sound(n.cur)
    BY <1>1, Advance
  <1>3. n.pc = "complete" => HasReached(n)
    <2> SUFFICES ASSUME n.pc = "complete" PROVE HasReached(n)
      OBVIOUS
    <2>1. PICK y : y = Advanced(x.cur, BoundsIn(x), x.tip)
      OBVIOUS
    <2>2. y.anchor >= x.bound.anchor
          /\ \A s \in 1 .. x.bound.seal : s <= y.seal /\ seals[s] <= y.row
      BY <1>1, <2>1, Arrival
    <2> QED
      BY <2>1, <2>2 DEF HasReached
  <1> QED
    BY <1>1, <1>2, <1>3 DEF RunSound

LEMMA ConcludeUnstoredKeeps ==
  ASSUME VerifyInv, NEW r \in Runs, ConcludeUnstored(r) PROVE VerifyInv'
  <1>1. Calm /\ UNCHANGED store /\ ~ run[r].persist
    BY Quiet DEF ConcludeUnstored
  <1>2. PICK x, y, p, n : /\ x = run[r] /\ y = Outcome(r) /\ p = NextPc(r)
                          /\ n = [x EXCEPT !.cur = y, !.tip = 0, !.pc = p]
    OBVIOUS
  <1>3. run' = [run EXCEPT ![r] = n]
    BY <1>2 DEF ConcludeUnstored
  <1>4. RunSound(x) /\ x \in RunTyp /\ x.pc = "conclude" /\ HasWalked(x) /\ ChainInv
    BY <1>2, RunFacts DEF ConcludeUnstored, RunSound, VerifyInv
  <1>5. y = Advanced(x.cur, BoundsIn(x), x.tip)
    BY <1>2 DEF Outcome, BoundsOf, BoundsIn
  <1>6. /\ p \in {"walk", "due", "complete"}
        /\ p = "complete" => Complete(x.cur, BoundsIn(x), x.tip)
    BY <1>2 DEF NextPc, IsComplete, BoundsOf, BoundsIn
  <1>7. y \in Cursor
    BY <1>4, <1>5, Advance DEF Sound
  <1>8. /\ n \in RunTyp /\ n.cur = y /\ n.goal = x.goal /\ n.bound = x.bound /\ n.read = x.read
        /\ n.held = x.held /\ n.pc = p
    BY <1>2, <1>4, <1>6, <1>7 DEF RunTyp, Pcs
  <1>9. RunSound(n)
    BY <1>4, <1>5, <1>6, <1>8, Arrives DEF RunSound
  <1>10. /\ inc' = inc /\ full' = full /\ target' = target
         /\ incBy' = incBy /\ fullBy' = fullBy
    BY <1>1 DEF store
  <1>11. StoreInv' /\ r \notin incBy
    BY <1>1, <1>10, RowsKept, RunFacts DEF VerifyInv, StoreInv, MayOwn
  <1> QED
    BY <1>1, <1>3, <1>9, <1>10, <1>11, OneRun

LEMMA ConcludeKeeps ==
  ASSUME VerifyInv, NEW r \in Runs, Conclude(r) PROVE VerifyInv'
  <1>1. /\ Calm /\ run[r].persist /\ run[r].pc \notin Sweeps
        /\ UNCHANGED <<full, target, fullBy>>
    BY Quiet DEF Conclude, Sweeps
  <1>2. CASE MayStore(r)
    <2>1. PICK x, y, p, i, n :
            /\ x = run[r] /\ y = Outcome(r) /\ p = NextPc(r)
            /\ i = [cur |-> y, done |-> x.held # None /\ x.held.done,
                    sweep |-> IF x.held = None THEN 0 ELSE x.held.sweep]
            /\ n = [x EXCEPT !.held = i, !.cur = y, !.tip = 0, !.pc = p]
      OBVIOUS
    <2>2. inc' = i /\ incBy' = {r}
      BY <1>2, <2>1 DEF Conclude
    <2>3. run' = [run EXCEPT ![r] = n]
      <3>1. run' = [run EXCEPT ![r].held = inc', ![r].cur = Outcome(r), ![r].tip = 0,
                               ![r].pc = NextPc(r)]
        BY <1>2 DEF Conclude
      <3>2. run' = [run EXCEPT ![r].held = i, ![r].cur = y, ![r].tip = 0, ![r].pc = p]
        BY <2>1, <2>2, <3>1
      <3> QED
        BY <2>1, <3>2
    <2>4. /\ RunSound(x) /\ x \in RunTyp /\ x.pc = "conclude" /\ HasWalked(x) /\ ChainInv
          /\ x.persist
      BY <1>1, <2>1, RunFacts DEF Conclude, RunSound, VerifyInv
    <2>5. y = Advanced(x.cur, BoundsIn(x), x.tip)
      BY <2>1 DEF Outcome, BoundsOf, BoundsIn
    <2>6. /\ p \in {"walk", "due", "complete"}
          /\ p = "complete" => Complete(x.cur, BoundsIn(x), x.tip)
      BY <2>1 DEF NextPc, IsComplete, BoundsOf, BoundsIn
    <2>7. Sound(y) /\ y \in Cursor
      BY <2>4, <2>5, Advance DEF Sound
    <2>8. i \in IncTyp /\ i.cur = y
      <3>1. x.held = None \/ x.held \in IncTyp
        BY <2>4 DEF RunTyp
      <3> QED
        BY <2>1, <2>7, <3>1 DEF IncTyp
    <2>9. /\ n \in RunTyp /\ n.cur = y /\ n.goal = x.goal /\ n.bound = x.bound /\ n.read = x.read
          /\ n.held = i /\ n.pc = p /\ n.persist
      <3>1. n = [x EXCEPT !.held = i, !.cur = y, !.tip = 0, !.pc = p]
        BY <2>1
      <3>2. n \in RunTyp
        BY <2>4, <2>6, <2>7, <2>8, <3>1 DEF RunTyp, Pcs
      <3> QED
        BY <2>4, <3>1, <3>2 DEF RunTyp
    <2>10. RunSound(n) /\ MayOwn(n)
      BY <2>4, <2>5, <2>6, <2>7, <2>8, <2>9, Arrives DEF MayOwn
    <2>11. StoreInv'
      BY <1>1, <2>2, <2>7, <2>8, LineWritten DEF VerifyInv, StoreInv
    <2> QED
      BY <1>1, <2>2, <2>3, <2>9, <2>10, <2>11, OneRun
  <1>3. CASE ~ MayStore(r)
    <2>1. run' = [run EXCEPT ![r].tip = 0, ![r].pc = "resolve"] /\ UNCHANGED store
      <3>1. run' = [run EXCEPT ![r].pc = "resolve", ![r].tip = 0] /\ UNCHANGED store
        BY <1>3 DEF Conclude, store
      <3>2. run \in [Runs -> RunTyp]
        BY DEF VerifyInv, RunInv
      <3> QED
        BY <3>1, <3>2 DEF RunTyp
    <2> QED
      BY <1>1, <2>1, Turns DEF Plain, Pcs, Turn
  <1> QED
    BY <1>2, <1>3

(* The row a run holds, with its line's state changed, is written again.    *)
LEMMA HeldFacts ==
  ASSUME VerifyInv, NEW r \in Runs, r \in incBy
  PROVE  /\ run[r].held = inc /\ inc \in IncTyp /\ Sound(inc.cur)
         /\ MayOwn(run[r]) /\ run[r].persist
  BY RunFacts DEF MayOwn

LEMMA CompleteLineKeeps ==
  ASSUME VerifyInv, NEW r \in Runs, CompleteLine(r) PROVE VerifyInv'
  <1>1. Calm /\ run[r].pc \notin Sweeps
    BY Quiet DEF CompleteLine, Sweeps
  <1>2. CASE run[r].persist /\ r \notin incBy
    <2>1. Goto(r, "resolve") /\ UNCHANGED store
      BY <1>2 DEF CompleteLine
    <2> QED
      BY <1>1, <1>2, <2>1, Moves DEF Plain, Pcs
  <1>3. CASE run[r].persist /\ r \in incBy
    <2>1. PICK h, i : h = inc /\ i = [h EXCEPT !.done = TRUE]
      OBVIOUS
    <2>2. /\ inc' = i /\ incBy' = {} /\ End(r) /\ UNCHANGED <<full, target, fullBy>>
      BY <1>3, <2>1, HeldFacts DEF CompleteLine
    <2>3. h \in IncTyp /\ Sound(h.cur)
      BY <1>3, <2>1, HeldFacts
    <2>4. i \in IncTyp /\ i.cur = h.cur
      BY <2>1, <2>3 DEF IncTyp
    <2>5. StoreInv'
      BY <1>1, <2>2, <2>3, <2>4, LineWritten DEF VerifyInv, StoreInv
    <2> QED
      BY <1>1, <2>2, <2>5, Stops
  <1>4. CASE ~ run[r].persist
    <2>1. End(r) /\ Leave(r) /\ UNCHANGED <<inc, full, target>>
      BY <1>4 DEF CompleteLine
    <2> QED
      BY <1>1, <2>1, Ends DEF Leave
  <1> QED
    BY <1>2, <1>3, <1>4

LEMMA ResolveConflictKeeps ==
  ASSUME VerifyInv, NEW r \in Runs, ResolveConflict(r) PROVE VerifyInv'
  <1>1. Calm /\ run[r].pc = "resolve" /\ run[r].pc \notin Sweeps
    BY Quiet DEF ResolveConflict, Sweeps
  <1>2. CASE inc = None \/ ~ Fits(inc.cur)
    <2>1. Goto(r, "discard") /\ UNCHANGED store
      BY <1>2 DEF ResolveConflict, Alarm, store
    <2> QED
      BY <1>1, <2>1, Moves DEF Plain, Pcs
  <1>3. CASE inc # None /\ Fits(inc.cur)
    <2>1. PICK n, x, i, l : /\ x = run[r] /\ i = inc /\ l = (x.lastFull \/ i.done)
                            /\ n = [Holding(x, i) EXCEPT !.pc = "walk", !.lastFull = l]
      OBVIOUS
    <2>2. RunSound(x) /\ x \in RunTyp /\ i \in IncTyp /\ Sound(i.cur) /\ x.persist
      BY <1>1, <1>3, <2>1, RunFacts DEF RunSound
    <2>3. run' = [run EXCEPT ![r] = n]
      BY <1>3, <2>1 DEF ResolveConflict
    <2>4. /\ incBy' = incBy \union {r} /\ inc' = inc /\ full' = full
          /\ target' = target /\ fullBy' = fullBy
      BY <1>3 DEF ResolveConflict
    <2>5. /\ n \in RunTyp /\ n.pc = "walk" /\ n.cur = i.cur /\ n.held = i
          /\ n.goal = x.goal /\ n.bound = x.bound /\ n.read = x.read /\ n.persist
      <3>1. l \in BOOLEAN
        BY <2>1
      <3>2. n = Taking(x, i, l)
        BY <2>1 DEF Taking
      <3> QED
        BY <2>2, <3>1, <3>2, Taken
    <2>6. RunSound(n) /\ MayOwn(n)
      <3>1. x.pc \notin Sweeps
        BY <1>1, <2>1
      <3> QED
        BY <2>2, <2>5, <3>1, Holds
    <2>7. StoreInv'
      BY <1>1, <1>3, <2>4, RunFacts, RowsKept
    <2> QED
      BY <1>1, <2>1, <2>3, <2>4, <2>5, <2>6, <2>7, OneRun
  <1> QED
    BY <1>2, <1>3

-----------------------------------------------------------------------------
(* The full verification. *)

LEMMA NotSweepableKeeps ==
  ASSUME VerifyInv, NEW r \in Runs, NotSweepable(r) PROVE VerifyInv'
  <1>1. Calm
    BY Quiet DEF NotSweepable
  <1> QED
    BY <1>1, Ends DEF NotSweepable, Leave

LEMMA ReadFullKeeps ==
  ASSUME VerifyInv, NEW r \in Runs, ReadFull(r) PROVE VerifyInv'
  <1>1. Calm /\ UNCHANGED <<inc, full, target, incBy>> /\ run[r].pc = "due"
    BY Quiet DEF ReadFull
  <1>2. PICK x, f, n : x = run[r] /\ f = full /\ n = [x EXCEPT !.read = f, !.pc = "pair"]
    OBVIOUS
  <1>3. run' = [run EXCEPT ![r] = n]
    BY <1>2 DEF ReadFull
  <1>4. /\ RunSound(x) /\ x \in RunTyp /\ x.pc = "due"
        /\ f = None \/ (f \in SweepTyp /\ Sound(f.cur))
    BY <1>1, <1>2, RunFacts
  <1>5. /\ n \in RunTyp /\ n.pc = "pair" /\ n.cur = x.cur /\ n.goal = x.goal
        /\ n.held = x.held /\ n.bound = x.bound /\ n.read = f /\ n.persist = x.persist
    BY <1>2, <1>4 DEF RunTyp, Pcs
  <1>6. RunSound(n)
    BY <1>4, <1>5 DEF RunSound, Sweeps
  <1>7. r \in incBy => n.held = inc /\ MayOwn(n)
    BY <1>2, <1>5, RunFacts DEF MayOwn
  <1>8. StoreInv'
    BY <1>1, RowsKept DEF ReadFull, VerifyInv, StoreInv
  <1> QED
    BY <1>1, <1>3, <1>6, <1>7, <1>8, OneRun

LEMMA PairProblemKeeps ==
  ASSUME VerifyInv, NEW r \in Runs, PairProblem(r) PROVE VerifyInv'
  <1>1. Calm
    BY Quiet DEF PairProblem
  <1> QED
    BY <1>1, Moves DEF PairProblem, Alarm, Plain, Pcs, Sweeps

(* A run goes on with a sweep: from its cursor f, to its target t.          *)
Swept(x, f, t) == [Sweeping(x, f, t) EXCEPT !.pc = "sweepWalk"]

LEMMA SweptFields ==
  ASSUME NEW x \in RunTyp, NEW f \in SweepTyp, NEW t \in SweepTyp, NEW n, n = Swept(x, f, t)
  PROVE  /\ n \in RunTyp /\ n.pc = "sweepWalk" /\ n.held = x.held /\ n.persist = x.persist
         /\ n.cur = f.cur /\ n.goal = t.cur /\ n.read = None
         /\ n.bound = [row |-> t.cur.row, seal |-> t.cur.seal, anchor |-> t.cur.anchor]
  <1>1. PICK b, c, g : /\ c = f.cur /\ g = t.cur
                       /\ b = [row |-> g.row, seal |-> g.seal, anchor |-> g.anchor]
    OBVIOUS
  <1>2. c \in Cursor /\ g \in Cursor
    BY <1>1 DEF SweepTyp
  <1>3. b \in BoundTyp
    BY <1>1, <1>2 DEF Cursor, BoundTyp
  <1>4. n = [x EXCEPT !.cur = c, !.goal = g, !.read = None, !.bound = b, !.pc = "sweepWalk"]
    BY <1>1 DEF Swept, Sweeping, RunTyp
  <1>5. n \in RunTyp
    BY <1>2, <1>3, <1>4 DEF RunTyp, Pcs
  <1>6. /\ n.cur = c /\ n.goal = g /\ n.bound = b /\ n.read = None
        /\ n.held = x.held /\ n.persist = x.persist /\ n.pc = "sweepWalk"
    BY <1>4 DEF RunTyp
  <1> QED
    BY <1>1, <1>5, <1>6

LEMMA OnSweep ==
  ASSUME VerifyInv, NEW x, RunSound(x), NEW f \in SweepTyp, Sound(f.cur),
         NEW t \in SweepTyp, Sound(t.cur), NEW n, n = Swept(x, f, t)
  PROVE  /\ RunSound(n) /\ n.held = x.held /\ n.persist = x.persist
         /\ n.pc = "sweepWalk"
  <1>1. x \in RunTyp /\ (x.held # None => Sound(x.held.cur))
    BY DEF RunSound
  <1>2. /\ n \in RunTyp /\ n.pc = "sweepWalk" /\ n.held = x.held /\ n.persist = x.persist
        /\ n.cur = f.cur /\ n.goal = t.cur /\ n.read = None
        /\ n.bound = [row |-> t.cur.row, seal |-> t.cur.seal, anchor |-> t.cur.anchor]
    BY <1>1, SweptFields
  <1>3. n.bound.seal <= Len(seals) /\ n.bound.anchor <= Len(anchors)
    BY <1>2 DEF Sound
  <1> QED
    BY <1>1, <1>2, <1>3 DEF RunSound, Sweeps

LEMMA ResumeSweepKeeps ==
  ASSUME VerifyInv, NEW r \in Runs, ResumeSweep(r) PROVE VerifyInv'
  <1>1. Calm /\ UNCHANGED store /\ run[r].read # None /\ target # None
    BY Quiet DEF ResumeSweep, PairFits, None
  <1>2. /\ inc' = inc /\ full' = full /\ target' = target
        /\ incBy' = incBy /\ fullBy' = fullBy
    BY <1>1 DEF store
  <1>3. CASE Fits(run[r].read.cur) /\ Fits(target.cur)
    <2>1. PICK x, f, t, n : /\ x = run[r] /\ f = run[r].read /\ t = target
                            /\ n = Swept(x, f, t)
      OBVIOUS
    <2>2. run' = [run EXCEPT ![r] = n]
      BY <1>3, <2>1 DEF ResumeSweep, Swept
    <2>3. /\ RunSound(x) /\ f \in SweepTyp /\ Sound(f.cur)
          /\ t \in SweepTyp /\ Sound(t.cur)
      BY <1>1, <2>1, RunFacts
    <2>4. RunSound(n) /\ n.held = x.held /\ n.persist = x.persist /\ n.pc = "sweepWalk"
      <3>1. n = Swept(x, f, t)
        BY <2>1
      <3> QED
        BY <2>3, <3>1, OnSweep
    <2>5. StoreInv'
      BY <1>1, <1>2, RowsKept DEF VerifyInv, StoreInv
    <2>6. r \in incBy => n.held = inc /\ MayOwn(n)
      BY <2>1, <2>4, RunFacts DEF MayOwn
    <2> QED
      BY <1>1, <1>2, <2>2, <2>4, <2>5, <2>6, OneRun
  <1>4. CASE ~ (Fits(run[r].read.cur) /\ Fits(target.cur))
    <2>1. Goto(r, "reset")
      BY <1>4 DEF ResumeSweep, Alarm
    <2> QED
      BY <1>1, <2>1, Moves DEF Plain, Pcs, Sweeps
  <1> QED
    BY <1>3, <1>4

LEMMA StalledKeeps ==
  ASSUME VerifyInv, NEW r \in Runs, Stalled(r) PROVE VerifyInv'
  <1>1. Calm /\ UNCHANGED <<inc, full, target, incBy>> /\ run[r].pc = "pair"
    BY Limits DEF Stalled, Calm, VerifyInv, HarmInv
  <1>2. PICK x, n : x = run[r] /\ n = [x EXCEPT !.read = None, !.pc = "giveUp"]
    OBVIOUS
  <1>3. run' = [run EXCEPT ![r] = n]
    BY <1>2 DEF Stalled
  <1>4. RunSound(x) /\ x \in RunTyp /\ x.pc = "pair"
    BY <1>1, <1>2, RunFacts
  <1>5. /\ n \in RunTyp /\ n.pc = "giveUp" /\ n.cur = x.cur /\ n.goal = x.goal
        /\ n.held = x.held /\ n.bound = x.bound /\ n.read = None /\ n.persist = x.persist
    BY <1>2, <1>4 DEF RunTyp, Pcs
  <1>6. RunSound(n)
    BY <1>4, <1>5 DEF RunSound, Sweeps
  <1>7. r \in incBy => n.held = inc /\ MayOwn(n)
    BY <1>2, <1>5, RunFacts DEF MayOwn
  <1>8. StoreInv'
    BY <1>1, RowsKept DEF Stalled, VerifyInv, StoreInv
  <1> QED
    BY <1>1, <1>3, <1>6, <1>7, <1>8, OneRun

LEMMA NotDueKeeps ==
  ASSUME VerifyInv, NEW r \in Runs, NotDue(r) PROVE VerifyInv'
  <1>1. Calm
    BY Quiet DEF NotDue
  <1> QED
    BY <1>1, Ends DEF NotDue, Leave

LEMMA FallsDueKeeps ==
  ASSUME VerifyInv, NEW r \in Runs, FallsDue(r) PROVE VerifyInv'
  <1>1. Calm /\ run[r].pc \notin Sweeps
    BY Quiet DEF FallsDue, NoneRuns, Sweeps
  <1> QED
    BY <1>1, Moves DEF FallsDue, Plain, Pcs

LEMMA GiveUpKeeps ==
  ASSUME VerifyInv, NEW r \in Runs, GiveUp(r) PROVE VerifyInv'
  <1>1. Calm /\ run[r].pc \notin Sweeps
    BY Quiet DEF GiveUp, Sweeps
  <1>2. CASE r \in incBy
    <2>1. PICK x, h, i, n : /\ x = run[r] /\ h = inc /\ i = [h EXCEPT !.sweep = 0]
                            /\ n = [x EXCEPT !.held = i, !.pc = "gaveUp"]
      OBVIOUS
    <2>2. /\ inc' = i /\ incBy' = {r} /\ full' = None /\ target' = None /\ fullBy' = {}
      BY <1>2, <2>1, HeldFacts DEF GiveUp
    <2>3. run' = [run EXCEPT ![r] = n]
      <3>1. run' = [run EXCEPT ![r].held = inc', ![r].pc = "gaveUp"]
        BY <1>2 DEF GiveUp
      <3> QED
        BY <2>1, <2>2, <3>1
    <2>4. /\ RunSound(x) /\ x \in RunTyp /\ h \in IncTyp /\ Sound(h.cur)
          /\ x.pc \notin Sweeps /\ x.persist
      BY <1>1, <1>2, <2>1, RunFacts, HeldFacts
    <2>5. i \in IncTyp /\ i.cur = h.cur
      BY <2>1, <2>4 DEF IncTyp
    <2>6. /\ n \in RunTyp /\ n.pc = "gaveUp" /\ n.cur = x.cur /\ n.goal = x.goal
          /\ n.held = i /\ n.bound = x.bound /\ n.read = x.read /\ n.persist
      BY <2>1, <2>4, <2>5, ZenonT(30) DEF RunTyp, Pcs
    <2>7. RunSound(n) /\ MayOwn(n)
      BY <2>4, <2>5, <2>6 DEF RunSound, MayOwn
    <2>8. StoreInv'
      BY <1>1, <2>2, <2>4, <2>5, SweepEnded
    <2> QED
      BY <1>1, <2>2, <2>3, <2>6, <2>7, <2>8, OneRun
  <1>3. CASE r \notin incBy
    BY <1>1, <1>3, Moves DEF GiveUp, Plain, Pcs, Sweeps
  <1> QED
    BY <1>2, <1>3

(* There always is a sweep id that no row and no run remembers: the pair    *)
(* shares one, and the row INCREMENTAL that is about to get it is held.     *)
LEMMA LeastOfNat ==
  ASSUME NEW S, S \subseteq Nat, S # {}
  PROVE  Least(S) \in S
  <1>1. \E m \in S : \A n \in S : ~ (<<n, m>> \in OpToRel(<, Nat))
    BY NatLessThanWellFounded, WFMin
  <1>2. PICK m \in S : \A n \in S : ~ (<<n, m>> \in OpToRel(<, Nat))
    BY <1>1
  <1>3. \A n \in S : m <= n
    <2> SUFFICES ASSUME NEW n \in S PROVE m <= n
      OBVIOUS
    <2>1. ~ (n < m)
      BY <1>2 DEF OpToRel
    <2> QED
      BY <2>1
  <1> QED
    BY <1>3 DEF Least

LEMMA IdsSuffice ==
  ASSUME VerifyInv, NEW r \in Runs, r \in incBy
  PROVE  FreshId \in SweepIds \ UsedIds
  <1> DEFINE f == [q \in Runs |-> run[q].held.sweep]
             T == {f[q] : q \in Runs}
             U == T \union {full.sweep}
  <1>1. IsFiniteSet(T) /\ Cardinality(T) <= Cardinality(Runs)
    <2>1. f \in Surjection(Runs, T)
      BY DEF Surjection
    <2> HIDE DEF f, T
    <2> QED
      BY <2>1, RunsAssumption, FS_Surjection
  <1>2. Cardinality(Runs) \in Nat /\ Cardinality(T) \in Nat
    BY <1>1, RunsAssumption, FS_CardinalityType
  <1>3. IsFiniteSet(U) /\ Cardinality(U) <= Cardinality(T) + 1
    <2> HIDE DEF T
    <2>1. /\ IsFiniteSet(T \cup {full.sweep})
          /\ Cardinality(T \cup {full.sweep}) =
               IF full.sweep \in T THEN Cardinality(T) ELSE Cardinality(T) + 1
      BY <1>1, FS_AddElement
    <2> QED
      BY <1>2, <2>1
  <1>4. UsedIds \subseteq U
    <2>1. /\ run[r].held = inc /\ (full = None) = (target = None)
          /\ full # None => full.sweep = target.sweep
      BY DEF VerifyInv, StoreInv, RunInv
    <2>2. \A q \in Runs : run[q].held.sweep \in T
      OBVIOUS
    <2>3. inc.sweep \in T
      BY <2>1, <2>2
    <2>4. \A y \in {inc, full, target} : y # None => y.sweep \in U
      BY <2>1, <2>3
    <2> HIDE DEF T
    <2> QED
      BY <2>2, <2>4 DEF UsedIds
  <1> HIDE DEF U, T, f
  <1>5. SweepIds \ UsedIds # {}
    <2> SUFFICES ASSUME SweepIds \subseteq UsedIds PROVE FALSE
      OBVIOUS
    <2>1. SweepIds \in SUBSET U
      BY <1>4
    <2>2. Cardinality(SweepIds) <= Cardinality(U) /\ Cardinality(U) \in Nat
      BY <1>3, <2>1, FS_Subset, FS_CardinalityType
    <2>3. Cardinality(SweepIds) = Cardinality(Runs) + 2
      <3>1. PICK k \in Int : k = Cardinality(Runs) + 2 /\ k > 1
        BY <1>2
      <3>2. SweepIds = 1 .. k
        BY <3>1 DEF SweepIds
      <3> QED
        BY <3>1, <3>2, FS_Interval
    <2> QED
      BY <1>1, <1>2, <1>3, <2>2, <2>3
  <1>6. SweepIds \ UsedIds \subseteq Nat
    BY <1>2 DEF SweepIds
  <1>7. Least(SweepIds \ UsedIds) \in SweepIds \ UsedIds
    BY <1>5, <1>6, LeastOfNat
  <1> QED
    BY <1>7 DEF FreshId

LEMMA SweepWritten ==
  ASSUME VerifyInv, Calm, NEW i \in IncTyp, Sound(i.cur), inc' = i,
         NEW f \in SweepTyp, Sound(f.cur), full' = f,
         NEW t \in SweepTyp, Sound(t.cur), target' = t, f.sweep = t.sweep,
         incBy' \subseteq Runs, fullBy' \subseteq Runs
  PROVE  StoreInv'
  <1>1. Sound(i.cur)' /\ Sound(f.cur)' /\ Sound(t.cur)'
    BY ChainKept
  <1>2. i # None /\ f # None /\ t # None
    BY DEF IncTyp, SweepTyp, None
  <1> QED
    BY <1>1, <1>2 DEF StoreInv

LEMMA StartSweepKeeps ==
  ASSUME VerifyInv, NEW r \in Runs, StartSweep(r) PROVE VerifyInv'
  <1>1. Calm /\ run[r].pc \notin Sweeps
    BY Quiet DEF StartSweep, Sweeps
  <1>2. CASE r \in incBy
    <2>1. PICK x, h, k, i, f, t, m, n :
            /\ x = run[r] /\ h = inc /\ k = FreshId
            /\ i = [h EXCEPT !.sweep = k]
            /\ f = [cur |-> FirstOf(h), sweep |-> k]
            /\ t = [cur |-> h.cur, sweep |-> k]
            /\ m = [x EXCEPT !.held = i]
            /\ n = Swept(m, f, t)
      OBVIOUS
    <2>2. inc' = i /\ target' = t /\ full' = f /\ incBy' = {r} /\ fullBy' = {r}
      BY <1>2, <2>1, HeldFacts DEF StartSweep
    <2>3. run' = [run EXCEPT ![r] = n]
      <3>1. run' = [run EXCEPT ![r] = [Sweeping([run[r] EXCEPT !.held = inc'], full', target')
                                         EXCEPT !.pc = "sweepWalk"]]
        BY <1>2 DEF StartSweep
      <3>2. run' = [run EXCEPT ![r] = [Sweeping([x EXCEPT !.held = i], f, t)
                                         EXCEPT !.pc = "sweepWalk"]]
        BY <2>1, <2>2, <3>1
      <3>3. run' = [run EXCEPT ![r] = Swept(m, f, t)]
        BY <2>1, <3>2 DEF Swept
      <3> QED
        BY <2>1, <3>3
    <2>4. /\ RunSound(x) /\ x \in RunTyp /\ h \in IncTyp /\ Sound(h.cur)
          /\ x.pc \notin Sweeps /\ x.pc = "start" /\ x.persist /\ k \in SweepIds
      BY <1>1, <1>2, <2>1, RunFacts, HeldFacts, IdsSuffice DEF StartSweep
    <2>5. i \in IncTyp /\ i.cur = h.cur
      BY <2>1, <2>4 DEF IncTyp
    <2>6. Sound(FirstOf(h))
      <3>1. h.cur.seal \in 0 .. Len(seals)
        BY <2>4, ChainFacts DEF Sound, Cursor, VerifyInv
      <3> QED
        BY <3>1, SoundGenesis DEF FirstOf, VerifyInv
    <2>7. f \in SweepTyp /\ t \in SweepTyp /\ f.cur = FirstOf(h) /\ t.cur = h.cur
          /\ f.sweep = t.sweep
      BY <2>1, <2>4, <2>6 DEF SweepTyp, Sound
    <2>8. /\ m \in RunTyp /\ m.pc = x.pc /\ m.cur = x.cur /\ m.goal = x.goal
          /\ m.held = i /\ m.bound = x.bound /\ m.read = x.read /\ m.persist
      BY <2>1, <2>4, <2>5 DEF RunTyp
    <2>9. RunSound(m)
      BY <2>4, <2>5, <2>8 DEF RunSound
    <2>10. RunSound(n) /\ n.held = i /\ n.persist /\ n.pc = "sweepWalk"
      <3>1. RunSound(n) /\ n.held = m.held /\ n.persist = m.persist /\ n.pc = "sweepWalk"
        <4>1. n = Swept(m, f, t) /\ Sound(f.cur) /\ Sound(t.cur)
          BY <2>1, <2>4, <2>6, <2>7
        <4> QED
          BY <2>7, <2>9, <4>1, OnSweep
      <3> QED
        BY <2>8, <3>1
    <2>11. StoreInv'
      BY <1>1, <2>2, <2>4, <2>5, <2>6, <2>7, SweepWritten
    <2>12. MayOwn(n)
      BY <2>10 DEF MayOwn
    <2> QED
      BY <1>1, <2>2, <2>3, <2>10, <2>11, <2>12, OneRun
  <1>3. CASE r \notin incBy
    BY <1>1, <1>3, Moves DEF StartSweep, Plain, Pcs, Sweeps
  <1> QED
    BY <1>2, <1>3

LEMMA SweepAdvanced ==
  ASSUME VerifyInv, Calm, UNCHANGED <<inc, target>>, full # None,
         NEW f \in SweepTyp, Sound(f.cur), full' = f, f.sweep = full.sweep,
         incBy' \subseteq incBy, fullBy' \subseteq Runs
  PROVE  StoreInv'
  <1>1. Sound(f.cur)' /\ \A c : Sound(c) => Sound(c)'
    BY ChainKept
  <1>2. PICK i, t : i = inc /\ t = target
    OBVIOUS
  <1>3. /\ i = None \/ (i \in IncTyp /\ Sound(i.cur)')
        /\ t \in SweepTyp /\ Sound(t.cur)' /\ f.sweep = t.sweep
        /\ incBy \subseteq Runs /\ (incBy # {} => i # None)
    BY <1>1, <1>2 DEF VerifyInv, StoreInv
  <1>4. t # None /\ f # None
    BY <1>3 DEF SweepTyp, None
  <1> QED
    BY <1>1, <1>2, <1>3, <1>4 DEF StoreInv

LEMMA SweepConcludeKeeps ==
  ASSUME VerifyInv, NEW r \in Runs, SweepConclude(r) PROVE VerifyInv'
  <1>1. Calm /\ UNCHANGED <<inc, target>>
    BY Quiet DEF SweepConclude
  <1>2. CASE r \in fullBy
    <2>1. PICK x, y, p, g, f, n :
            /\ x = run[r] /\ y = Outcome(r) /\ g = full /\ f = [g EXCEPT !.cur = y]
            /\ p = IF IsComplete(r) THEN "finish" ELSE "sweepWalk"
            /\ n = [x EXCEPT !.cur = y, !.tip = 0, !.pc = p]
      OBVIOUS
    <2>2. full' = f
      BY <1>2, <2>1 DEF SweepConclude
    <2>3. /\ RunSound(x) /\ x \in RunTyp /\ HasWalked(x) /\ g \in SweepTyp /\ g # None
          /\ ChainInv
      BY <1>2, <2>1, RunFacts DEF SweepConclude, RunSound, VerifyInv
    <2>4. Sound(y) /\ y \in Cursor
      <3>1. y = Advanced(x.cur, BoundsIn(x), x.tip)
        BY <2>1 DEF Outcome, BoundsOf, BoundsIn
      <3> QED
        BY <2>3, <3>1, Advance DEF Sound
    <2>5. f \in SweepTyp /\ f.cur = y /\ f.sweep = g.sweep
      BY <2>1, <2>3, <2>4 DEF SweepTyp
    <2>6. CASE /\ run' = [run EXCEPT ![r].cur = Outcome(r), ![r].tip = 0,
                           ![r].pc = IF IsComplete(r) THEN "finish" ELSE "sweepWalk"]
               /\ fullBy' = {r} /\ UNCHANGED incBy
      <3>1. run' = [run EXCEPT ![r] = n]
        BY <2>1, <2>6
      <3>2. p \in {"finish", "sweepWalk"}
        BY <2>1
      <3>3. /\ n \in RunTyp /\ n.pc = p /\ n.cur = y /\ n.goal = x.goal /\ n.held = x.held
            /\ n.bound = x.bound /\ n.read = x.read /\ n.persist = x.persist
        BY <2>1, <2>3, <2>4, <3>2 DEF RunTyp, Pcs
      <3>4. RunSound(n)
        BY <2>3, <2>4, <3>2, <3>3 DEF RunSound, Sweeps
      <3>5. r \in incBy => n.held = inc /\ MayOwn(n)
        BY <2>1, <3>2, <3>3, RunFacts DEF MayOwn
      <3>6. StoreInv'
        BY <1>1, <2>1, <2>2, <2>3, <2>4, <2>5, <2>6, SweepAdvanced
      <3> QED
        BY <1>1, <2>6, <3>1, <3>4, <3>5, <3>6, OneRun
    <2>7. CASE End(r) /\ fullBy' = {} /\ incBy' = incBy \ {r}
      <3>1. StoreInv'
        BY <1>1, <2>1, <2>2, <2>3, <2>4, <2>5, <2>7, SweepAdvanced
      <3> QED
        BY <1>1, <2>7, <3>1, Stops
    <2> QED
      BY <1>2, <2>6, <2>7 DEF SweepConclude
  <1>3. CASE r \notin fullBy
    <2>1. run' = [run EXCEPT ![r].tip = 0, ![r].pc = "clash"] /\ UNCHANGED store
      <3>1. run' = [run EXCEPT ![r].pc = "clash", ![r].tip = 0] /\ UNCHANGED store
        BY <1>3 DEF SweepConclude, store
      <3>2. run \in [Runs -> RunTyp]
        BY DEF VerifyInv, RunInv
      <3> QED
        BY <3>1, <3>2 DEF RunTyp
    <2>2. "clash" \in Plain /\ "clash" \in Sweeps
      BY DEF Plain, Pcs, Sweeps
    <2> QED
      BY <1>1, <2>1, <2>2, Turns DEF Turn
  <1> QED
    BY <1>2, <1>3

LEMMA ClashKeeps ==
  ASSUME VerifyInv, NEW r \in Runs, Clash(r) PROVE VerifyInv'
  <1>1. Calm
    BY Quiet DEF Clash
  <1> QED
    BY <1>1, Moves DEF Clash, Plain, Pcs, Sweeps

LEMMA ClashFullKeeps ==
  ASSUME VerifyInv, NEW r \in Runs, ClashFull(r) PROVE VerifyInv'
  <1>1. Calm /\ UNCHANGED <<inc, full, target, incBy>>
    BY Quiet DEF ClashFull
  <1>2. CASE full = None \/ full.sweep # run[r].held.sweep \/ ~ Fits(full.cur)
    <2>1. Goto(r, "reset") /\ UNCHANGED store
      BY <1>1, <1>2 DEF ClashFull, Alarm, store
    <2> QED
      BY <1>1, <2>1, Moves DEF Plain, Pcs, Sweeps
  <1>3. CASE ~ (full = None \/ full.sweep # run[r].held.sweep \/ ~ Fits(full.cur))
    <2>1. PICK x, c, n : /\ x = run[r] /\ c = full.cur
                         /\ n = [x EXCEPT !.cur = c, !.pc = "sweepWalk"]
      OBVIOUS
    <2>2. run' = [run EXCEPT ![r] = n] /\ fullBy' = fullBy \union {r}
      BY <1>3, <2>1 DEF ClashFull
    <2>3. RunSound(x) /\ x \in RunTyp /\ Sound(c) /\ c \in Cursor
      BY <1>3, <2>1, RunFacts DEF Sound
    <2>4. /\ n \in RunTyp /\ n.pc = "sweepWalk" /\ n.cur = c /\ n.goal = x.goal
          /\ n.held = x.held /\ n.bound = x.bound /\ n.read = x.read /\ n.persist = x.persist
      BY <2>1, <2>3 DEF RunTyp, Pcs
    <2>5. RunSound(n)
      BY <2>3, <2>4 DEF RunSound, Sweeps
    <2>6. r \in incBy => n.held = inc /\ MayOwn(n)
      BY <2>1, <2>4, RunFacts DEF MayOwn
    <2>7. StoreInv'
      BY <1>1, <1>3, <2>2, RowsKept DEF VerifyInv, StoreInv
    <2> QED
      BY <1>1, <2>2, <2>5, <2>6, <2>7, OneRun
  <1> QED
    BY <1>2, <1>3

LEMMA SettleKeeps ==
  ASSUME VerifyInv, NEW r \in Runs, Settle(r) PROVE VerifyInv'
  <1>1. Calm /\ UNCHANGED <<inc, full, target>>
    BY Quiet DEF Settle
  <1>2. CASE Goto(r, "reset") /\ UNCHANGED <<incBy, fullBy>>
    <2>1. UNCHANGED store
      BY <1>1, <1>2 DEF store
    <2> QED
      BY <1>1, <1>2, <2>1, Moves DEF Plain, Pcs, Sweeps
  <1>3. CASE End(r) /\ Leave(r)
    BY <1>1, <1>3, Ends DEF Leave
  <1> QED
    BY <1>2, <1>3 DEF Settle, Alarm

LEMMA FinishKeeps ==
  ASSUME VerifyInv, NEW r \in Runs, Finish(r) PROVE VerifyInv'
  <1>1. Calm
    BY Quiet DEF Finish
  <1>2. CASE Goto(r, "reset") /\ UNCHANGED store
    BY <1>1, <1>2, Moves DEF Plain, Pcs, Sweeps
  <1>3. CASE Goto(r, "settle") /\ UNCHANGED store
    BY <1>1, <1>3, Moves DEF Plain, Pcs, Sweeps
  <1>4. CASE /\ r \in incBy
             /\ \/ inc' = [run[r].held EXCEPT !.done = TRUE, !.sweep = 0]
                \/ inc' = [cur |-> run[r].cur, done |-> FALSE, sweep |-> 0]
             /\ full' = None /\ target' = None /\ incBy' = {} /\ fullBy' = {} /\ End(r)
    <2>1. PICK h, c, i, j : /\ h = inc /\ i = [h EXCEPT !.done = TRUE, !.sweep = 0]
                            /\ c = run[r].cur
                            /\ j = [cur |-> c, done |-> FALSE, sweep |-> 0]
      OBVIOUS
    <2>2. h \in IncTyp /\ Sound(h.cur) /\ inc' \in {i, j}
      BY <1>4, <2>1, HeldFacts
    <2>3. i \in IncTyp /\ i.cur = h.cur
      BY <2>1, <2>2 DEF IncTyp
    <2>4. j \in IncTyp /\ j.cur = c /\ Sound(c)
      BY <2>1, RunFacts DEF IncTyp, Sound
    <2>5. PICK k : k = inc'
      OBVIOUS
    <2>6. k \in IncTyp /\ Sound(k.cur)
      BY <2>2, <2>3, <2>4, <2>5
    <2>7. StoreInv'
      BY <1>1, <1>4, <2>5, <2>6, SweepEnded
    <2> QED
      BY <1>1, <1>4, <2>7, Stops
  <1> QED
    BY <1>2, <1>3, <1>4 DEF Finish, Alarm

LEMMA ResetAllKeeps ==
  ASSUME VerifyInv, NEW r \in Runs, ResetAll(r) PROVE VerifyInv'
  <1>1. Calm /\ StoreInv' /\ incBy' = {}
    BY Quiet, RowsDeleted DEF ResetAll, Delete
  <1> QED
    BY <1>1, Stops DEF ResetAll

LEMMA CrashKeeps ==
  ASSUME VerifyInv, NEW r \in Runs, Crash(r) PROVE VerifyInv'
  <1>1. Calm
    BY Limits DEF Crash, Calm, VerifyInv, HarmInv
  <1> QED
    BY <1>1, Ends DEF Crash, Leave

-----------------------------------------------------------------------------
LEMMA VerifyStep == VerifyInv /\ [Next]_vars => VerifyInv'
  <1> SUFFICES ASSUME VerifyInv, [Next]_vars PROVE VerifyInv'
    OBVIOUS
  <1>1. CASE Record \/ Seal \/ Anchor \/ Alter
    BY <1>1, ChainGrows
  <1>2. ASSUME NEW r \in Runs, Begin(r) \/ Step(r) \/ Crash(r) PROVE VerifyInv'
    <2>1. CASE Begin(r) \/ Crash(r)
      BY <2>1, BeginKeeps, CrashKeeps
    <2>2. CASE \/ Load(r) \/ Orphans(r) \/ DiscardAll(r)
               \/ Walk(r) \/ ConcludeBroken(r) \/ Restart(r) \/ ConcludeUnstored(r)
               \/ Conclude(r) \/ CompleteLine(r) \/ ResolveConflict(r)
      BY <2>2, LoadKeeps, OrphansKeeps, DiscardAllKeeps, WalkKeeps, ConcludeBrokenKeeps,
         RestartKeeps, ConcludeUnstoredKeeps, ConcludeKeeps, CompleteLineKeeps,
         ResolveConflictKeeps
    <2>3. CASE \/ NotSweepable(r) \/ ReadFull(r) \/ PairProblem(r) \/ ResumeSweep(r)
               \/ Stalled(r) \/ NotDue(r) \/ FallsDue(r) \/ GiveUp(r) \/ StartSweep(r)
               \/ SweepConclude(r) \/ Clash(r) \/ ClashFull(r) \/ Settle(r) \/ Finish(r)
               \/ ResetAll(r)
      BY <2>3, NotSweepableKeeps, ReadFullKeeps, PairProblemKeeps, ResumeSweepKeeps,
         StalledKeeps, NotDueKeeps, FallsDueKeeps, GiveUpKeeps, StartSweepKeeps,
         SweepConcludeKeeps, ClashKeeps, ClashFullKeeps, SettleKeeps, FinishKeeps, ResetAllKeeps
    <2> QED
      BY <1>2, <2>1, <2>2, <2>3 DEF Step
  <1>3. CASE UNCHANGED vars
    <2>1. VerifyInv /\ ChainInv' /\ Grows
      <3>1. ChainInv
        BY DEF VerifyInv
      <3> QED
        BY <1>3, <3>1, ChainFacts DEF vars, chain, ChainInv, Grows
    <2> QED
      BY <1>3, <2>1, ChainStep DEF vars
  <1> QED
    BY <1>1, <1>2, <1>3 DEF Next

(* VerifyInv: what the rows store and what every run holds, at every step.  *)
THEOREM VerifyInvariant == Spec => []VerifyInv
  BY VerifyInit, VerifyStep, PTL DEF Spec

(* TypeOK: every row and every run has the shape of its type.               *)
THEOREM TypeCorrect == Spec => []TypeOK
  <1>1. VerifyInv => TypeOK
    <2> SUFFICES ASSUME VerifyInv PROVE TypeOK
      OBVIOUS
    <2>1. ASSUME NEW r \in Runs
          PROVE  /\ run[r].cur \in Cursor /\ run[r].goal \in Cursor
                 /\ run[r].held = None \/ run[r].held.cur \in Cursor
                 /\ r \in incBy => run[r].held = inc
      BY RunFacts DEF Sound
    <2> QED
      BY <2>1 DEF VerifyInv, ChainInv, HarmInv, StoreInv, IncTyp, SweepTyp, TypeOK
  <1> QED
    BY <1>1, VerifyInvariant, PTL

(* NothingSkipped: whoever moves a cursor, alone or against other runs, a   *)
(* stored cursor has counted every seal up to its row once, and a run that  *)
(* completes has met every seal and anchor of the bounds it began with.     *)
THEOREM NothingIsSkipped == Spec => []NothingSkipped
  <1>1. VerifyInv => NothingSkipped
    <2> SUFFICES ASSUME VerifyInv PROVE NothingSkipped
      OBVIOUS
    <2>1. SealsCountedOnce
      BY DEF SealsCountedOnce, Stored, VerifyInv, StoreInv, Sound
    <2>2. ReachesBounds
      BY RunFacts DEF ReachesBounds, RunSound, HasReached
    <2> QED
      BY <2>1, <2>2 DEF NothingSkipped
  <1> QED
    BY <1>1, VerifyInvariant, PTL

-----------------------------------------------------------------------------
(* An intact chain.  What a sound cursor says is never doubted, and a       *)
(* segment meets every row that its seals and anchors bind.                 *)

LEMMA SoundFits ==
  ASSUME altered = {}, NEW c, Sound(c) PROVE Fits(c)
  BY DEF Sound, Fits

(* Where a run's seals and anchors bind rows: in what it walks.             *)
Bounded(x) ==
  \/ x.bound.row = Endless
  \/ /\ x.bound = [row |-> x.goal.row, seal |-> x.goal.seal, anchor |-> x.goal.anchor]
     /\ Within(x.cur, x.goal) /\ Covers(x.goal)

LEMMA BoundedMeets ==
  ASSUME ChainInv, NEW x, RunSound(x), HasWalked(x), HasMet(x), Bounded(x)
  PROVE  LET m == Lower(x.bound.row, x.tip)
         IN /\ \A s \in 1 .. BoundsIn(x).seal : seals[s] <= m
            /\ \A a \in 1 .. BoundsIn(x).anchor : anchors[a] <= m
  <1>1. /\ \A s \in 1 .. BoundsIn(x).seal : seals[s] <= x.tip
        /\ \A a \in 1 .. BoundsIn(x).anchor : anchors[a] <= x.tip
    BY DEF HasMet
  <1>2. x.tip \in Nat /\ x.bound.row \in Nat /\ x.tip <= MaxRows
    BY Bounds, Limits DEF HasWalked, ChainInv
  <1>3. /\ BoundsIn(x).seal \in 0 .. Len(seals) /\ BoundsIn(x).anchor \in 0 .. Len(anchors)
        /\ Len(seals) \in Nat /\ Len(anchors) \in Nat
        /\ \A s \in 1 .. Len(seals) : seals[s] \in 1 .. rows
        /\ \A a \in 1 .. Len(anchors) : anchors[a] \in 1 .. rows
    BY Bounds, ChainFacts
  <1>4. /\ \A s \in 1 .. BoundsIn(x).seal : seals[s] \in Nat
        /\ \A a \in 1 .. BoundsIn(x).anchor : anchors[a] \in Nat
    BY <1>3, ChainFacts
  <1>5. CASE x.bound.row = Endless
    <2>1. Lower(x.bound.row, x.tip) = x.tip
      BY <1>2, <1>5, Limits DEF Endless, Lower
    <2> QED
      BY <1>1, <2>1
  <1>6. CASE /\ x.bound = [row |-> x.goal.row, seal |-> x.goal.seal, anchor |-> x.goal.anchor]
             /\ Within(x.cur, x.goal) /\ Covers(x.goal)
    <2>1. x.goal \in Cursor /\ x.cur \in Cursor
      BY DEF RunSound, Sound
    <2>2. /\ x.bound.row = x.goal.row /\ x.bound.seal = x.goal.seal
          /\ x.bound.anchor = x.goal.anchor
      BY <1>6
    <2>3. BoundsIn(x).seal = x.goal.seal /\ BoundsIn(x).anchor = x.goal.anchor
      BY <1>6, <2>1, <2>2 DEF BoundsIn, Within, Higher, Cursor
    <2>4. /\ \A s \in 1 .. BoundsIn(x).seal : seals[s] <= x.bound.row
          /\ \A a \in 1 .. BoundsIn(x).anchor : anchors[a] <= x.bound.row
      BY <1>6, <2>2, <2>3 DEF Covers
    <2> QED
      BY <1>1, <1>2, <1>4, <2>4 DEF Lower
  <1> QED
    BY <1>5, <1>6 DEF Bounded

LEMMA NoFindings ==
  ASSUME ChainInv, NEW x, RunSound(x), HasWalked(x), HasMet(x), Bounded(x)
  PROVE  Findings(x.cur, BoundsIn(x), x.tip) = {}
  <1> DEFINE c == x.cur
             b == BoundsIn(x)
             t == x.tip
             L == LastRow(c, b, t)
             m == Lower(x.bound.row, t)
  <1>1. /\ c.row \in Nat /\ b.row = x.bound.row /\ b.row \in Nat /\ t \in Nat
        /\ c.anchor \in Nat
        /\ b.seal \in 0 .. Len(seals) /\ b.anchor \in 0 .. Len(anchors)
        /\ Len(seals) \in Nat /\ Len(anchors) \in Nat /\ L \in Nat
        /\ Until(c, b) \in Nat /\ c.row <= L /\ c.row <= t
    <2>1. L \in c.row .. rows /\ Until(c, b) \in Nat
      BY Reading
    <2>2. /\ c.row \in Nat /\ b.row = x.bound.row /\ b.row \in Nat /\ t \in Nat
          /\ c.anchor \in Nat /\ c.seal \in Nat /\ c.row <= t
          /\ b.seal \in c.seal .. Len(seals) /\ b.anchor \in c.anchor .. Len(anchors)
      BY Bounds DEF HasWalked
    <2>3. Len(seals) \in Nat /\ Len(anchors) \in Nat /\ rows \in Nat
      BY ChainFacts
    <2> HIDE DEF c, b, t, L
    <2> QED
      BY <2>1, <2>2, <2>3
  <1>2. /\ \A s \in 1 .. b.seal : seals[s] \in Nat /\ seals[s] <= m
        /\ \A a \in 1 .. b.anchor : anchors[a] \in Nat /\ anchors[a] <= m
    <2>1. /\ \A s \in 1 .. b.seal : seals[s] <= m
          /\ \A a \in 1 .. b.anchor : anchors[a] <= m
      BY BoundedMeets
    <2>2. /\ \A s \in 1 .. Len(seals) : seals[s] \in 1 .. rows
          /\ \A a \in 1 .. Len(anchors) : anchors[a] \in 1 .. rows
      BY ChainFacts
    <2> HIDE DEF m, b
    <2> QED
      BY <2>1, <2>2, <1>1, SMTT(30)
  <1>3. ASSUME NEW n \in Nat, n <= m, SegmentEnd(c, b, t) \/ n <= CoveredUpTo(c, b, t)
        PROVE  n <= L
    <2>1. n <= t /\ n <= b.row
      <3> HIDE DEF c, b, t
      <3> QED
        BY <1>1, <1>3 DEF Lower
    <2>2. CASE Exhausted(c, b, t)
      <3>1. L >= Lower(Until(c, b), t)
        BY <2>2, Reaches
      <3>2. n <= Until(c, b)
        <4>1. CASE SegmentEnd(c, b, t)
          BY <4>1, <2>1 DEF SegmentEnd, Until
        <4>2. CASE ~ SegmentEnd(c, b, t)
          BY <4>2, <2>2, <1>3 DEF CoveredUpTo
        <4> QED
          BY <4>1, <4>2
      <3> HIDE DEF c, b, t, L
      <3> QED
        BY <1>1, <2>1, <3>1, <3>2 DEF Lower
    <2>3. CASE ~ Exhausted(c, b, t)
      BY <2>3, <1>3 DEF SegmentEnd, CoveredUpTo
    <2> QED
      BY <2>2, <2>3
  <1>4. Dangling(c, b, t) = {}
    <2> SUFFICES ASSUME NEW s \in SegmentSeals(c, b, t) PROVE ~ (seals[s] > L)
      BY DEF Dangling
    <2>1. /\ s \in 1 .. b.seal
          /\ \/ SegmentEnd(c, b, t) \/ seals[s] <= CoveredUpTo(c, b, t)
             \/ seals[s] <= c.row
      BY DEF SegmentSeals
    <2>2. seals[s] \in Nat /\ seals[s] <= m
      BY <1>2, <2>1
    <2>3. seals[s] <= L
      <3>1. CASE SegmentEnd(c, b, t) \/ seals[s] <= CoveredUpTo(c, b, t)
        BY <1>3, <2>2, <3>1
      <3>2. CASE seals[s] <= c.row
        BY <1>1, <2>2, <3>2
      <3> QED
        BY <2>1, <3>1, <3>2
    <2> HIDE DEF L
    <2> QED
      BY <1>1, <2>2, <2>3
  <1>5. Unread(c, b, t) = {}
    <2> SUFFICES ASSUME NEW a \in DueAnchors(c, b, t) PROVE ~ (anchors[a] > L)
      BY DEF Unread
    <2>1. a \in Block(c, b)
      BY DEF DueAnchors
    <2>2. a \in 1 .. b.anchor /\ a \in c.anchor + 1 .. a
      <3> HIDE DEF c, b, t
      <3> QED
        BY <1>1, <2>1, Limits DEF Block, Lower
    <2>3. SegmentEnd(c, b, t) \/ anchors[a] <= CoveredUpTo(c, b, t)
      BY <2>2 DEF DueAnchors
    <2>4. anchors[a] \in Nat /\ anchors[a] <= m
      BY <1>2, <2>2
    <2>5. anchors[a] <= L
      BY <1>3, <2>3, <2>4
    <2> HIDE DEF L
    <2> QED
      BY <1>1, <2>4, <2>5
  <1> QED
    BY <1>4, <1>5 DEF Findings

(* A line that is complete covers all it binds.                             *)
LEMMA ArrivalCovers ==
  ASSUME ChainInv, NEW x, RunSound(x), HasWalked(x), HasMet(x), x.pc = "conclude",
         Complete(x.cur, BoundsIn(x), x.tip),
         NEW y, y = Advanced(x.cur, BoundsIn(x), x.tip)
  PROVE  Covers(y)
  <1>1. y.row = x.tip /\ y.seal = BoundsIn(x).seal /\ y.anchor = BoundsIn(x).anchor
    BY Arrival
  <1> QED
    BY <1>1 DEF Covers, HasMet

(* A sweep stays within its target, and confirms it in the end.             *)
LEMMA SweepAdvances ==
  ASSUME ChainInv, NEW x, RunSound(x), HasWalked(x), x.goal.row <= x.tip,
         x.bound = [row |-> x.goal.row, seal |-> x.goal.seal, anchor |-> x.goal.anchor],
         Within(x.cur, x.goal),
         NEW y, y = Advanced(x.cur, BoundsIn(x), x.tip)
  PROVE  /\ Within(y, x.goal)
         /\ Complete(x.cur, BoundsIn(x), x.tip) => Confirmed(y, x.goal)
  <1> DEFINE c == x.cur
             b == BoundsIn(x)
             t == x.tip
             g == x.goal
             L == LastRow(c, b, t)
             k == Cardinality(DueAnchors(c, b, t))
  <1>1. c \in Cursor /\ g \in Cursor /\ t \in Nat /\ Sound(g)
    BY Bounds DEF RunSound, Sound
  <1>2. /\ c.row \in Nat /\ c.seal \in Nat /\ c.seals \in Nat /\ c.anchor \in Nat
        /\ g.row \in Nat /\ g.seal \in Nat /\ g.seals \in Nat /\ g.anchor \in Nat
    BY <1>1 DEF Cursor
  <1>3. /\ x.bound.row = g.row /\ x.bound.seal = g.seal /\ x.bound.anchor = g.anchor
    OBVIOUS
  <1>4. b.row = g.row /\ b.seal = g.seal /\ b.anchor = g.anchor /\ c.row <= g.row
        /\ c.seal = g.seal
    BY <1>2, <1>3 DEF BoundsIn, Within, Higher
  <1>5. /\ L \in c.row .. rows /\ Until(c, b) \in Nat
        /\ L > c.row => L <= Until(c, b)
        /\ k \in 0 .. b.anchor - c.anchor
    BY Reading
  <1>6. rows \in Nat
    BY ChainFacts
  <1>7. Until(c, b) <= g.row
    <2>1. CASE AnchorLimited(c, b)
      <3>1. Until(c, b) = HighestTip(c, b) /\ HighestTip(c, b) < b.row
        BY <2>1 DEF Until, AnchorLimited
      <3>2. HighestTip(c, b) \in Nat
        BY <1>5, <3>1
      <3> HIDE DEF c, b, g
      <3> QED
        BY <1>2, <1>4, <3>1, <3>2
    <2>2. CASE ~ AnchorLimited(c, b)
      BY <2>2, <1>2, <1>4 DEF Until
    <2> QED
      BY <2>1, <2>2
  <1>8. y.row = L /\ y.seal = g.seal /\ y.anchor = c.anchor + k
    <2>1. y = Advanced(c, b, t)
      OBVIOUS
    <2> HIDE DEF c, b, t, g
    <2> QED
      BY <2>1, <1>1, <1>2, <1>4 DEF Advanced, Cursor, Higher, L, k
  <1>9. Within(y, g)
    <2> HIDE DEF c, b, t, g, L, k
    <2> QED
      BY <1>2, <1>4, <1>5, <1>6, <1>7, <1>8 DEF Within
  <1>10. ASSUME Complete(c, b, t) PROVE Confirmed(y, g)
    <2>1. y.row >= Lower(x.bound.row, x.tip) /\ y.anchor = b.anchor
      BY <1>10, Whole
    <2>2. y.row = g.row
      <3>1. y.row \in Nat /\ y.row <= g.row
        <4> HIDE DEF c, b, t, g, L, k
        <4> QED
          BY <1>2, <1>4, <1>5, <1>6, <1>7, <1>8
      <3>2. Lower(x.bound.row, x.tip) = g.row
        BY <1>1, <1>2, <1>3 DEF Lower
      <3> HIDE DEF c, b, t, g, L, k
      <3> QED
        BY <1>2, <2>1, <3>1, <3>2
    <2>3. y.seals = g.seals
      <3>1. Sound(y)
        BY Advance
      <3>2. Cardinality(SealsUpTo(y)) = y.seals /\ Cardinality(SealsUpTo(g)) = g.seals
        BY <1>1, <3>1 DEF Sound
      <3>3. SealsUpTo(y) = SealsUpTo(g)
        BY <1>8, <2>2 DEF SealsUpTo
      <3> QED
        BY <3>2, <3>3
    <2> QED
      BY <1>4, <2>1, <2>2, <2>3 DEF Confirmed
  <1> QED
    BY <1>9, <1>10

-----------------------------------------------------------------------------
(* How a run's step keeps what it and the others rely on. *)

(* The row FULL_TARGET is not changed under another run that may rely on it. *)
TargetLeft(r) ==
  \/ target' = target
  \/ target' = None
  \/ \A q \in Runs \ {r} : run[q].held # None => target'.sweep # run[q].held.sweep

Unsuspected == altered = {} /\ alarms = {} /\ Fine

Kept == /\ PairInv'
        /\ Unsuspected => alarms' \subseteq Suspects /\ (alarms' = {} => Fine')

LEMMA PairStep ==
  ASSUME VerifyInv, PairInv, NEW r \in Runs, NEW n, run' = [run EXCEPT ![r] = n], Coherent',
         n.pc \in Holders => n.held # None,
         n.pc \in OnTheSweep /\ target' # None /\ target'.sweep = n.held.sweep
           => target'.cur = n.goal,
         r \in fullBy' => /\ n.pc \in Sweeps \union {"pair"}
                          /\ n.pc = "pair" => n.read = full'
                          /\ n.pc \in OnTheSweep => full'.cur = n.cur /\ target'.cur = n.goal,
         TargetLeft(r),
         \A q \in Runs \ {r} : q \in fullBy' => q \in fullBy /\ full' = full /\ target' = target
  PROVE  PairInv'
  <1>1. run \in [Runs -> RunTyp]
    BY DEF VerifyInv, RunInv
  <1>2. ASSUME NEW q \in Runs PROVE SweepKnown(q)'
    <2>1. CASE q = r
      <3>1. run'[q] = n
        BY <1>1, <2>1
      <3> QED
        BY <2>1, <3>1 DEF SweepKnown
    <2>2. CASE q # r
      <3>1. PICK x : x = run[q]
        OBVIOUS
      <3>2. run'[q] = x /\ q \in Runs \ {r} /\ SweepKnown(q)
        BY <1>1, <2>2, <3>1 DEF PairInv
      <3>3. x.pc \in Holders => x.held # None
        BY <3>1, <3>2 DEF SweepKnown
      <3>4. x.pc \in OnTheSweep /\ target' # None /\ target'.sweep = x.held.sweep
              => target'.cur = x.goal
        BY <3>1, <3>2, <3>3 DEF SweepKnown, TargetLeft, Holders
      <3>5. q \in fullBy' => /\ x.pc \in Sweeps \union {"pair"}
                             /\ x.pc = "pair" => x.read = full'
                             /\ x.pc \in OnTheSweep =>
                                  full'.cur = x.cur /\ target'.cur = x.goal
        BY <3>1, <3>2 DEF SweepKnown
      <3> QED
        BY <3>2, <3>3, <3>4, <3>5 DEF SweepKnown
    <2> QED
      BY <2>1, <2>2
  <1> QED
    BY <1>2 DEF PairInv

(* The chain does not change, nor what is fine.                             *)
LEMMA FineStays ==
  ASSUME UNCHANGED chain PROVE \A x : RunFine(x) => RunFine(x)'
  BY DEF chain, RunFine, Covers, Within, HasMet, BoundsIn, Confirmed

LEMMA FineStep ==
  ASSUME VerifyInv, Calm, Fine, SweepFine', NEW r \in Runs, NEW n, RunFine(n),
         run' = [run EXCEPT ![r] = n],
         n.held # None \/ n.pc = "resolve" => inc' # None,
         n.pc = "settle" => r \notin incBy',
         inc # None => inc' # None, n.pc # "pair" \/ ReadFine(n)', TargetLeft(r),
         \A q \in Runs \ {r} : q \in incBy' => q \in incBy
  PROVE  Fine'
  <1>1. \A x : RunFine(x) => RunFine(x)'
    BY FineStays DEF Calm
  <1>2. run \in [Runs -> RunTyp]
    BY DEF VerifyInv, RunInv
  <1>3. ASSUME NEW q \in Runs
        PROVE  /\ RunFine(run[q])' /\ ReadFine(run[q])'
               /\ run'[q].held # None \/ run'[q].pc = "resolve" => inc' # None
               /\ run'[q].pc = "settle" => q \notin incBy'
    <2>1. CASE q = r
      <3>1. run'[q] = n
        BY <1>2, <2>1
      <3>2. RunFine(n)' /\ ReadFine(n)'
        BY <1>1 DEF ReadFine
      <3> QED
        BY <2>1, <3>1, <3>2
    <2>2. CASE q # r
      <3>1. PICK x : x = run[q]
        OBVIOUS
      <3>2. run'[q] = x
        BY <1>2, <2>2, <3>1
      <3>3. RunFine(x)' /\ ReadFine(x)'
        <4>1. RunFine(x) /\ ReadFine(x) /\ (x.pc = "pair" => x.held # None)
          BY <3>1 DEF Fine, RunFine
        <4>2. ReadFine(x)'
          <5>1. CASE target' = target
            BY <4>1, <5>1 DEF ReadFine, Within
          <5>2. CASE target' # target
            BY <2>2, <3>1, <4>1, <5>2 DEF ReadFine, TargetLeft
          <5> QED
            BY <5>1, <5>2
        <4> QED
          BY <1>1, <4>1, <4>2
      <3>4. /\ x.held # None \/ x.pc = "resolve" => inc' # None
            /\ x.pc = "settle" => q \notin incBy'
        BY <2>2, <3>1 DEF Fine
      <3> QED
        BY <3>2, <3>3, <3>4
    <2> QED
      BY <2>1, <2>2
  <1> QED
    BY <1>3 DEF Fine

LEMMA PairKept ==
  ASSUME UNCHANGED <<inc, full, target>>
  PROVE  /\ Coherent => Coherent'
         /\ UNCHANGED chain /\ SweepFine => SweepFine'
         /\ \A r : TargetLeft(r)
  BY DEF Coherent, SweepFine, Covers, Within, chain, TargetLeft

LEMMA IdleFine == RunFine(Idle) /\ Idle.held = None /\ Idle.pc = "idle" /\ Idle.pc \notin Holders
  BY DEF RunFine, Idle, Sweeps, OnTheSweep, Holders

(* A run that is not about a sweep leaves the rows as they are.             *)
LEMMA OutsideKept ==
  ASSUME VerifyInv, PairInv, Calm, UNCHANGED <<inc, full, target>>, NEW r \in Runs,
         NEW n, run' = [run EXCEPT ![r] = n],
         n.pc \in Sweeps \/ run[r].pc \notin Sweeps \union {"pair"} \/ r \notin fullBy',
         n.pc \notin Holders \/ (n.pc \in {"giveUp", "gaveUp", "start"} /\ n.held # None),
         incBy' \subseteq incBy \union {r}, fullBy' \subseteq fullBy,
         Unsuspected =>
           /\ alarms' \subseteq Suspects
           /\ alarms' = {} => /\ RunFine(n)
                              /\ n.held # None \/ n.pc = "resolve" => inc # None
                              /\ n.pc = "settle" => r \notin incBy'
  PROVE  Kept
  <1>1. r \in fullBy' => n.pc \in Sweeps
    BY DEF PairInv, SweepKnown
  <1>2. PairInv'
    <2>1. Coherent' /\ TargetLeft(r)
      BY PairKept DEF PairInv
    <2>2. n.pc \notin OnTheSweep /\ n.pc # "pair" /\ (n.pc \in Holders => n.held # None)
      BY DEF Holders, OnTheSweep
    <2>3. \A q \in Runs \ {r} : q \in fullBy' => q \in fullBy
      OBVIOUS
    <2> QED
      BY <1>1, <2>1, <2>2, <2>3, PairStep
  <1>3. ASSUME Unsuspected, alarms' = {} PROVE Fine'
    <2>1. SweepFine' /\ Fine /\ TargetLeft(r)
      BY <1>3, PairKept DEF Unsuspected, Fine, Calm
    <2>2. n.pc # "pair"
      BY DEF Holders
    <2>3. /\ inc # None => inc' # None
          /\ \A q \in Runs \ {r} : q \in incBy' => q \in incBy
      OBVIOUS
    <2> QED
      BY <1>3, <2>1, <2>2, <2>3, FineStep
  <1> QED
    BY <1>2, <1>3 DEF Kept

LEMMA GoesKept ==
  ASSUME VerifyInv, PairInv, Calm, UNCHANGED store, NEW r \in Runs, NEW p \in Pcs,
         Goto(r, p),
         p \in Sweeps \/ run[r].pc \notin Sweeps \union {"pair"} \/ r \notin fullBy,
         p \notin Holders \/ (p \in {"giveUp", "gaveUp", "start"} /\ run[r].held # None),
         Unsuspected =>
           /\ alarms' \subseteq Suspects
           /\ alarms' = {} =>
                /\ p \notin {"discard", "restart", "reset", "conclude"}
                /\ p \in {"complete", "due", "giveUp", "gaveUp", "start", "settle"} =>
                     run[r].held # None
                /\ p \in {"due", "giveUp", "gaveUp", "start"} => Covers(run[r].held.cur)
                /\ p = "resolve" => inc # None
                /\ p = "settle" => r \notin incBy
  PROVE  Kept
  <1>1. PICK n, x : x = run[r] /\ n = [x EXCEPT !.pc = p]
    OBVIOUS
  <1>2. x \in RunTyp
    BY <1>1, RunFacts
  <1>3. n.pc = p /\ n.held = x.held /\ n.persist = x.persist
    BY <1>1, <1>2 DEF RunTyp
  <1>4. run' = [run EXCEPT ![r] = n]
    BY <1>1 DEF Goto
  <1>5. ASSUME Unsuspected, alarms' = {}
        PROVE  /\ RunFine(n)
               /\ n.held # None \/ n.pc = "resolve" => inc # None
               /\ n.pc = "settle" => r \notin incBy
    <2>1. RunFine(x) /\ (x.held # None => inc # None)
      BY <1>1, <1>5 DEF Unsuspected, Fine
    <2>2. RunFine(n)
      BY <1>1, <1>3, <1>5, <2>1 DEF RunFine, Sweeps, OnTheSweep, Holders
    <2> QED
      BY <1>1, <1>3, <1>5, <2>1, <2>2
  <1>6. /\ inc' = inc /\ full' = full /\ target' = target
        /\ incBy' = incBy /\ fullBy' = fullBy
    BY DEF store
  <1>7. /\ n.pc \in Sweeps \/ run[r].pc \notin Sweeps \union {"pair"} \/ r \notin fullBy'
        /\ n.pc \notin Holders \/ (n.pc \in {"giveUp", "gaveUp", "start"} /\ n.held # None)
        /\ incBy' \subseteq incBy \union {r} /\ fullBy' \subseteq fullBy
    BY <1>1, <1>3, <1>6
  <1>8. Unsuspected =>
           /\ alarms' \subseteq Suspects
           /\ alarms' = {} => /\ RunFine(n)
                              /\ n.held # None \/ n.pc = "resolve" => inc # None
                              /\ n.pc = "settle" => r \notin incBy'
    BY <1>5, <1>6
  <1> QED
    BY <1>4, <1>6, <1>7, <1>8, OutsideKept

(* The run is over.                                                         *)
LEMMA EndKept ==
  ASSUME VerifyInv, PairInv, Calm, UNCHANGED <<inc, full, target>>, NEW r \in Runs, End(r),
         incBy' \subseteq incBy \ {r}, fullBy' \subseteq fullBy \ {r},
         Unsuspected => alarms' \subseteq Suspects
  PROVE  Kept
  <1>1. PICK n : n = Idle
    OBVIOUS
  <1>2. run' = [run EXCEPT ![r] = n]
    BY <1>1 DEF End
  <1>3. RunFine(n) /\ n.held = None /\ n.pc = "idle"
    BY <1>1, IdleFine
  <1>4. n.pc \notin Holders
    BY <1>1, IdleFine
  <1> QED
    BY <1>2, <1>3, <1>4, OutsideKept

(* An alarm deletes the rows, and is none on an intact chain.               *)
LEMMA DeleteKept ==
  ASSUME VerifyInv, PairInv, Delete, NEW r \in Runs, NEW n, run' = [run EXCEPT ![r] = n],
         n.pc \notin Holders, ~ Unsuspected
  PROVE  Kept
  <1>1. /\ Coherent' /\ incBy' = {} /\ fullBy' = {} /\ TargetLeft(r)
        /\ n.pc \notin OnTheSweep
    BY DEF Delete, Coherent, TargetLeft, Holders
  <1> QED
    BY <1>1, PairStep DEF Kept

LEMMA AlarmRings ==
  ASSUME NEW r, NEW p, NEW kind, NEW about, Alarm(r, p, kind, about)
  PROVE  alarms' # {} /\ (alarms = {} => alarms' = {kind})
  BY DEF Alarm, FirstOnly

LEMMA ReportKept ==
  ASSUME UNCHANGED report PROVE alarms' = alarms /\ (Unsuspected => alarms' \subseteq Suspects)
  BY DEF report, Unsuspected

LEMMA BeginTrusted ==
  ASSUME VerifyInv, PairInv, NEW r \in Runs, Begin(r) PROVE Kept
  <1>1. Calm /\ run[r].pc \notin Sweeps \union {"pair"}
    BY Quiet DEF Begin, Sweeps
  <1>2. PICK n : n = [Idle EXCEPT !.pc = "load", !.bound =
                        [row |-> Endless, seal |-> Len(seals), anchor |-> Len(anchors)]]
    OBVIOUS
  <1>3. run' = [run EXCEPT ![r] = n]
    BY <1>2 DEF Begin
  <1>4. Idle \in RunTyp /\ Idle.held = None /\ Idle.persist
    BY IdleSound DEF VerifyInv, RunSound, Idle
  <1>5. n.pc = "load" /\ n.held = None /\ n.persist
    BY <1>2, <1>4 DEF RunTyp
  <1>6. RunFine(n) /\ n.pc \notin Holders
    BY <1>5 DEF RunFine, OnTheSweep, Sweeps, Holders
  <1>7. UNCHANGED <<inc, full, target>> /\ incBy' = incBy /\ fullBy' = fullBy /\ UNCHANGED report
    BY DEF Begin, store
  <1> QED
    BY <1>1, <1>3, <1>5, <1>6, <1>7, OutsideKept, ReportKept

(* A run that takes a row over.                                             *)
LEMMA TakesKept ==
  ASSUME VerifyInv, PairInv, Calm, UNCHANGED <<inc, full, target, fullBy, report>>,
         NEW r \in Runs, NEW n, run' = [run EXCEPT ![r] = n],
         run[r].pc \notin Sweeps \union {"pair"},
         incBy' = incBy \union {r}, n.pc = "walk", n.persist, inc # None
  PROVE  Kept
  <1>1. RunFine(n) /\ n.pc \notin Holders
    BY DEF RunFine, OnTheSweep, Sweeps, Holders
  <1> QED
    BY <1>1, OutsideKept, ReportKept

LEMMA LoadTrusted ==
  ASSUME VerifyInv, PairInv, NEW r \in Runs, Load(r) PROVE Kept
  <1>1. Calm /\ run[r].pc = "load" /\ run[r].pc \notin Sweeps \union {"pair"}
    BY Quiet DEF Load, Sweeps
  <1>2. CASE inc = None
    <2>1. Goto(r, "orphans") /\ UNCHANGED store /\ UNCHANGED report
      BY <1>2 DEF Load, store
    <2>2. "orphans" \in Pcs /\ "orphans" \notin Holders
      BY DEF Pcs, OnTheSweep, Holders
    <2> QED
      BY <1>1, <2>1, <2>2, GoesKept, ReportKept
  <1>3. CASE inc # None /\ ~ Fits(inc.cur)
    <2>1. Goto(r, "discard") /\ UNCHANGED store
      BY <1>3 DEF Load, Alarm, store
    <2>2. ~ Unsuspected
      BY <1>3, RunFacts, SoundFits DEF Unsuspected
    <2>3. "discard" \in Pcs /\ "discard" \notin Holders
      BY DEF Pcs, OnTheSweep, Holders
    <2> QED
      BY <1>1, <2>1, <2>2, <2>3, GoesKept
  <1>4. CASE inc # None /\ Fits(inc.cur)
    <2>1. PICK n, x, i, l : /\ x = run[r] /\ i = inc /\ l = i.done
                            /\ n = [Holding(x, i) EXCEPT !.pc = "walk", !.lastFull = l]
      OBVIOUS
    <2>2. run' = [run EXCEPT ![r] = n]
      BY <1>4, <2>1 DEF Load
    <2>3. incBy' = incBy \union {r} /\ UNCHANGED <<inc, full, target, fullBy, report>>
      BY <1>4 DEF Load
    <2>4. x \in RunTyp /\ x.persist
      BY <1>1, <2>1, RunFacts DEF RunSound
    <2>5. n.pc = "walk" /\ n.persist
      <3>1. i \in IncTyp /\ l \in BOOLEAN
        BY <1>4, <2>1, RunFacts DEF IncTyp
      <3>2. n = Taking(x, i, l)
        BY <2>1 DEF Taking
      <3> QED
        BY <2>4, <3>1, <3>2, Taken
    <2> QED
      BY <1>1, <1>4, <2>2, <2>3, <2>5, TakesKept
  <1> QED
    BY <1>2, <1>3, <1>4

LEMMA OrphansTrusted ==
  ASSUME VerifyInv, PairInv, NEW r \in Runs, Orphans(r) PROVE Kept
  <1>1. /\ Calm /\ run[r].pc = "orphans" /\ run[r].pc \notin Sweeps \union {"pair"}
        /\ UNCHANGED store
    BY Quiet DEF Orphans, Sweeps
  <1>2. CASE full = None /\ target = None
    <2>1. PICK n, x : x = run[r] /\ n = AtGenesis(x)
      OBVIOUS
    <2>2. run' = [run EXCEPT ![r] = n] /\ UNCHANGED report
      BY <1>2, <2>1 DEF Orphans
    <2>3. x \in RunTyp /\ x.persist
      BY <1>1, <2>1, RunFacts DEF RunSound
    <2>4. n.pc = "walk" /\ n.persist /\ n.held = None
      BY <2>1, <2>3 DEF AtGenesis, RunTyp
    <2>5. RunFine(n) /\ n.pc \notin Holders
      BY <2>4 DEF RunFine, OnTheSweep, Sweeps, Holders
    <2>6. UNCHANGED <<inc, full, target>> /\ incBy' = incBy /\ fullBy' = fullBy
      BY <1>1 DEF store
    <2> QED
      BY <1>1, <2>2, <2>4, <2>5, <2>6, OutsideKept, ReportKept
  <1>3. CASE ~ (full = None /\ target = None)
    <2>1. Goto(r, "discard") /\ Alarm(r, "discard", "orphan", 0)
      BY <1>3 DEF Orphans, Alarm
    <2>2. Unsuspected => alarms' \subseteq Suspects /\ alarms' # {}
      BY <2>1, AlarmRings DEF Unsuspected, Suspects
    <2>3. "discard" \in Pcs /\ "discard" \notin Holders
      BY DEF Pcs, OnTheSweep, Holders
    <2> QED
      BY <1>1, <2>1, <2>2, <2>3, GoesKept
  <1> QED
    BY <1>2, <1>3

LEMMA NeverSuspected ==
  ASSUME NEW r \in Runs, run[r].pc \in {"discard", "restart", "reset"} \/ ~ run[r].persist
  PROVE  ~ Unsuspected
  BY DEF Unsuspected, Fine, RunFine

LEMMA DiscardAllTrusted ==
  ASSUME VerifyInv, PairInv, NEW r \in Runs, DiscardAll(r) PROVE Kept
  <1>1. PICK n, x : x = run[r] /\ n = [AtGenesis(x) EXCEPT !.persist = ~ x.discarded,
                                        !.discarded = TRUE, !.lastFull = FALSE]
    OBVIOUS
  <1>2. run' = [run EXCEPT ![r] = n]
    BY <1>1 DEF DiscardAll
  <1>3. n.pc = "walk" /\ n.pc \notin Holders
    <2>1. x \in RunTyp
      BY <1>1, RunFacts
    <2> QED
      BY <1>1, <2>1 DEF AtGenesis, RunTyp, Holders, OnTheSweep
  <1> QED
    BY <1>2, <1>3, DeleteKept, NeverSuspected DEF DiscardAll

LEMMA RestartTrusted ==
  ASSUME VerifyInv, PairInv, NEW r \in Runs, Restart(r) PROVE Kept
  <1>1. Calm /\ run[r].pc \notin Sweeps \union {"pair"} /\ ~ Unsuspected
    BY Quiet, NeverSuspected DEF Restart, Sweeps
  <1>2. PICK n, x : /\ x = run[r]
                    /\ n = [AtGenesis(x) EXCEPT !.restarted = TRUE, !.lastFull = FALSE]
    OBVIOUS
  <1>3. run' = [run EXCEPT ![r] = n]
    BY <1>2 DEF Restart
  <1>4. n.pc = "walk" /\ n.pc \notin Holders
    <2>1. x \in RunTyp
      BY <1>2, RunFacts
    <2> QED
      BY <1>2, <2>1 DEF AtGenesis, RunTyp, Holders, OnTheSweep
  <1>5. CASE run[r].persist
    BY <1>1, <1>3, <1>4, <1>5, DeleteKept DEF Restart
  <1>6. CASE ~ run[r].persist
    <2>1. UNCHANGED <<inc, full, target>> /\ incBy' = incBy /\ fullBy' = fullBy
      BY <1>6 DEF Restart, store
    <2> QED
      BY <1>1, <1>3, <1>4, <2>1, OutsideKept
  <1> QED
    BY <1>5, <1>6

LEMMA ResetAllTrusted ==
  ASSUME VerifyInv, PairInv, NEW r \in Runs, ResetAll(r) PROVE Kept
  <1>1. PICK n : n = Idle
    OBVIOUS
  <1>2. n.pc \notin Holders
    BY <1>1, IdleFine
  <1> QED
    BY <1>1, <1>2, DeleteKept, NeverSuspected DEF ResetAll, End

(* A run about its sweep that moves neither the sweep nor itself.           *)
LEMMA InsideKept ==
  ASSUME VerifyInv, PairInv, Calm, UNCHANGED store, NEW r \in Runs,
         NEW n, run' = [run EXCEPT ![r] = n], n.cur = run[r].cur, n.goal = run[r].goal,
         n.held = run[r].held,
         n.pc \in Sweeps, n.pc \in OnTheSweep => run[r].pc \in OnTheSweep,
         Unsuspected =>
           /\ alarms' \subseteq Suspects
           /\ alarms' = {} => /\ RunFine(n)
                              /\ n.held # None => inc # None
                              /\ n.pc = "settle" => r \notin incBy
  PROVE  Kept
  <1>1. UNCHANGED <<inc, full, target>> /\ incBy' = incBy /\ fullBy' = fullBy
    BY DEF store
  <1>2. SweepKnown(r) /\ Coherent' /\ TargetLeft(r)
    BY <1>1, PairKept DEF PairInv
  <1>3. PairInv'
    <2>1. n.pc # "pair" /\ (n.pc \in Holders => n.held # None)
      BY <1>2 DEF SweepKnown, Holders, Sweeps
    <2>2. n.pc \in OnTheSweep /\ target' # None /\ target'.sweep = n.held.sweep
            => target'.cur = n.goal
      BY <1>1, <1>2 DEF SweepKnown
    <2>3. r \in fullBy' =>
            (n.pc \in OnTheSweep => full'.cur = n.cur /\ target'.cur = n.goal)
      BY <1>1, <1>2 DEF SweepKnown
    <2> QED
      BY <1>1, <1>2, <2>1, <2>2, <2>3, PairStep
  <1>4. ASSUME Unsuspected, alarms' = {} PROVE Fine'
    <2>1. SweepFine' /\ Fine
      BY <1>1, <1>4, PairKept DEF Unsuspected, Fine, Calm
    <2>2. n.pc # "resolve" /\ n.pc # "pair"
      BY DEF Sweeps
    <2> QED
      BY <1>1, <1>2, <1>4, <2>1, <2>2, FineStep
  <1> QED
    BY <1>3, <1>4 DEF Kept

LEMMA WalkTrusted ==
  ASSUME VerifyInv, PairInv, NEW r \in Runs, Walk(r) PROVE Kept
  <1>1. Calm /\ UNCHANGED store /\ alarms' = alarms
    BY Quiet DEF Walk
  <1>2. PICK x, hit : /\ x = run[r]
                      /\ hit = WalkedRows(x.cur, BoundsIn(x), rows) \intersect altered
    OBVIOUS
  <1>3. BoundsOf(r) = BoundsIn(x)
    BY <1>2 DEF BoundsOf, BoundsIn
  <1>4. RunSound(x) /\ x \in RunTyp /\ x.pc \in {"walk", "sweepWalk"} /\ ChainInv
    BY <1>2, RunFacts DEF Walk, VerifyInv
  <1>5. /\ UNCHANGED <<inc, full, target>> /\ incBy' = incBy /\ fullBy' = fullBy
        /\ (Unsuspected => alarms' \subseteq Suspects)
    BY <1>1 DEF store, Unsuspected
  <1>6. CASE hit = {}
    <2>1. PICK n : n = [x EXCEPT !.tip = rows,
                          !.pc = IF x.pc = "walk" THEN "conclude" ELSE "sweepConclude"]
      OBVIOUS
    <2>2. run' = [run EXCEPT ![r] = n]
      BY <1>2, <1>3, <1>6, <2>1 DEF Walk
    <2>3. /\ n.cur = x.cur /\ n.goal = x.goal /\ n.held = x.held
          /\ n.bound = x.bound /\ n.persist = x.persist /\ n.tip = rows
          /\ n.pc = IF x.pc = "walk" THEN "conclude" ELSE "sweepConclude"
      BY <1>4, <2>1 DEF RunTyp
    <2>4. HasMet(n)
      <3>1. BoundsIn(n) = BoundsIn(x)
        BY <2>3 DEF BoundsIn
      <3>2. /\ BoundsIn(x).seal \in x.cur.seal .. Len(seals) /\ x.cur.seal \in Nat
            /\ BoundsIn(x).anchor \in x.cur.anchor .. Len(anchors) /\ x.cur.anchor \in Nat
        BY <1>4, Bounds
      <3>3. /\ \A s \in 1 .. Len(seals) : seals[s] \in 1 .. rows
            /\ \A a \in 1 .. Len(anchors) : anchors[a] \in 1 .. rows
            /\ Len(seals) \in Nat /\ Len(anchors) \in Nat /\ rows \in Nat
        BY <1>4, ChainFacts
      <3> QED
        BY <2>3, <3>1, <3>2, <3>3 DEF HasMet
    <2>5. x.goal.row <= rows
      BY <1>4 DEF RunSound, Sound
    <2>6. Unsuspected => RunFine(n) /\ (n.held # None => inc # None)
      <3> SUFFICES ASSUME Unsuspected PROVE RunFine(n) /\ (n.held # None => inc # None)
        OBVIOUS
      <3>1. RunFine(x) /\ (x.held # None => inc # None)
        BY <1>2 DEF Unsuspected, Fine
      <3> QED
        BY <1>4, <2>3, <2>4, <2>5, <3>1 DEF RunFine, Sweeps, OnTheSweep, Holders
    <2>7. CASE x.pc = "walk"
      <3>1. n.pc = "conclude" /\ n.pc \notin Holders /\ run[r].pc \notin Sweeps \union {"pair"}
        BY <1>2, <2>3, <2>7 DEF OnTheSweep, Sweeps, Holders
      <3> QED
        BY <1>1, <1>5, <2>2, <2>6, <3>1, OutsideKept
    <2>8. CASE x.pc = "sweepWalk"
      <3>1. n.pc = "sweepConclude" /\ n.pc \in Sweeps /\ run[r].pc \in OnTheSweep
        BY <1>2, <2>3, <2>8 DEF OnTheSweep, Sweeps, Holders
      <3> QED
        BY <1>1, <1>2, <1>5, <2>2, <2>3, <2>6, <3>1, InsideKept
    <2> QED
      BY <1>4, <2>7, <2>8
  <1>7. CASE hit # {}
    <2>1. ~ Unsuspected
      BY <1>2, <1>7 DEF Unsuspected
    <2>2. PICK n : n = [x EXCEPT !.pc = IF x.pc = "walk" THEN "due" ELSE "reset"]
      OBVIOUS
    <2>3. run' = [run EXCEPT ![r] = n]
      BY <1>2, <1>3, <1>7, <2>2 DEF Walk, Goto
    <2>4. /\ n.cur = x.cur /\ n.goal = x.goal /\ n.held = x.held
          /\ n.pc = IF x.pc = "walk" THEN "due" ELSE "reset"
      BY <1>4, <2>2 DEF RunTyp
    <2>5. CASE x.pc = "walk"
      <3>1. n.pc \notin Holders /\ run[r].pc \notin Sweeps \union {"pair"}
        BY <1>2, <2>4, <2>5 DEF OnTheSweep, Sweeps, Holders
      <3> QED
        BY <1>1, <1>5, <2>1, <2>3, <3>1, OutsideKept
    <2>6. CASE x.pc = "sweepWalk"
      <3>1. n.pc \in Sweeps /\ n.pc \notin OnTheSweep
        BY <2>4, <2>6 DEF OnTheSweep, Sweeps
      <3> QED
        BY <1>1, <1>2, <2>1, <2>3, <2>4, <3>1, InsideKept
    <2> QED
      BY <1>4, <2>5, <2>6
  <1> QED
    BY <1>6, <1>7

LEMMA ConcludeBrokenTrusted ==
  ASSUME VerifyInv, PairInv, NEW r \in Runs, ConcludeBroken(r) PROVE Kept
  <1>1. Calm /\ UNCHANGED store /\ run[r].pc \notin Sweeps \union {"pair"}
    BY Quiet DEF ConcludeBroken, Sweeps
  <1>2. ~ Unsuspected
    BY DEF ConcludeBroken, IsBroken, BrokenBelow, Unsuspected
  <1>3. PICK n, x : /\ x = run[r]
                    /\ n = [x EXCEPT !.tip = 0, !.pc = IF x.restarted THEN "due" ELSE "restart"]
    OBVIOUS
  <1>4. run' = [run EXCEPT ![r] = n]
    BY <1>3 DEF ConcludeBroken
  <1>5. n.pc \notin Holders
    <2>1. x \in RunTyp
      BY <1>3, RunFacts
    <2> QED
      BY <1>3, <2>1 DEF RunTyp, OnTheSweep, Holders
  <1>6. UNCHANGED <<inc, full, target>> /\ incBy' = incBy /\ fullBy' = fullBy
    BY <1>1 DEF store
  <1> QED
    BY <1>1, <1>2, <1>4, <1>5, <1>6, OutsideKept

LEMMA ConcludeUnstoredTrusted ==
  ASSUME VerifyInv, PairInv, NEW r \in Runs, ConcludeUnstored(r) PROVE Kept
  <1>1. Calm /\ UNCHANGED store /\ run[r].pc \notin Sweeps \union {"pair"} /\ ~ Unsuspected
    BY Quiet, NeverSuspected DEF ConcludeUnstored, Sweeps
  <1>2. PICK n, x, p : /\ x = run[r] /\ p = NextPc(r)
                       /\ n = [x EXCEPT !.cur = Outcome(r), !.tip = 0, !.pc = p]
    OBVIOUS
  <1>3. run' = [run EXCEPT ![r] = n]
    BY <1>2 DEF ConcludeUnstored
  <1>4. n.pc \notin Holders
    <2>1. x \in RunTyp /\ p \in {"walk", "due", "complete"}
      BY <1>2, RunFacts DEF NextPc
    <2>2. n.pc = p
      BY <1>2, <2>1 DEF RunTyp
    <2> QED
      BY <2>1, <2>2 DEF OnTheSweep, Holders
  <1>5. UNCHANGED <<inc, full, target>> /\ incBy' = incBy /\ fullBy' = fullBy
    BY <1>1 DEF store
  <1> QED
    BY <1>1, <1>3, <1>4, <1>5, OutsideKept

(* The row INCREMENTAL is written, and names the same sweep as before.      *)
LEMMA LineKept ==
  ASSUME VerifyInv, PairInv, Calm, UNCHANGED <<full, target, fullBy>>, NEW r \in Runs,
         NEW n, run' = [run EXCEPT ![r] = n], run[r].pc \notin Sweeps \union {"pair"},
         NEW i, inc' = i, i # None, i.sweep = IF inc = None THEN 0 ELSE inc.sweep,
         incBy' \subseteq {r}, n.pc \notin Holders, n.pc # "settle",
         Unsuspected => alarms' \subseteq Suspects /\ (alarms' = {} => RunFine(n))
  PROVE  Kept
  <1>1. r \notin fullBy' /\ TargetLeft(r)
    BY DEF PairInv, SweepKnown, TargetLeft
  <1>2. Coherent'
    BY DEF PairInv, Coherent
  <1>3. PairInv'
    <2>1. n.pc \notin OnTheSweep
      BY DEF Holders
    <2> QED
      BY <1>1, <1>2, <2>1, PairStep
  <1>4. ASSUME Unsuspected, alarms' = {} PROVE Fine'
    <2>1. SweepFine' /\ Fine
      BY <1>4 DEF Unsuspected, Fine, SweepFine, Covers, Within, Calm, chain
    <2>2. n.pc # "pair"
      BY DEF Holders
    <2> QED
      BY <1>1, <1>4, <2>1, <2>2, FineStep
  <1> QED
    BY <1>3, <1>4 DEF Kept

LEMMA ConcludeTrusted ==
  ASSUME VerifyInv, PairInv, NEW r \in Runs, Conclude(r) PROVE Kept
  <1>1. /\ Calm /\ run[r].persist /\ run[r].pc = "conclude"
        /\ run[r].pc \notin Sweeps \union {"pair"}
        /\ UNCHANGED <<full, target, fullBy>>
    BY Quiet DEF Conclude, Sweeps
  <1>2. CASE MayStore(r)
    <2>1. PICK x, y, p, i, n :
            /\ x = run[r] /\ y = Outcome(r) /\ p = NextPc(r)
            /\ i = [cur |-> y, done |-> x.held # None /\ x.held.done,
                    sweep |-> IF x.held = None THEN 0 ELSE x.held.sweep]
            /\ n = [x EXCEPT !.held = i, !.cur = y, !.tip = 0, !.pc = p]
      OBVIOUS
    <2>2. inc' = i /\ incBy' = {r}
      BY <1>2, <2>1 DEF Conclude
    <2>3. run' = [run EXCEPT ![r] = n]
      <3>1. run' = [run EXCEPT ![r].held = inc', ![r].cur = Outcome(r), ![r].tip = 0,
                               ![r].pc = NextPc(r)]
        BY <1>2 DEF Conclude
      <3>2. run' = [run EXCEPT ![r].held = i, ![r].cur = y, ![r].tip = 0, ![r].pc = p]
        BY <2>1, <2>2, <3>1
      <3> QED
        BY <2>1, <3>2
    <2>4. /\ RunSound(x) /\ x \in RunTyp /\ x.pc = "conclude" /\ HasWalked(x) /\ ChainInv
          /\ x.persist
      BY <1>1, <2>1, RunFacts DEF RunSound, VerifyInv
    <2>5. y = Advanced(x.cur, BoundsIn(x), x.tip)
      BY <2>1 DEF Outcome, BoundsOf, BoundsIn
    <2>6. /\ p \in {"walk", "due", "complete"}
          /\ p = "due" => Complete(x.cur, BoundsIn(x), x.tip)
      BY <2>1 DEF NextPc, IsComplete, BoundsOf, BoundsIn
    <2>7. i # None /\ i.cur = y /\ i.sweep = IF x.held = None THEN 0 ELSE x.held.sweep
      BY <2>1 DEF None
    <2>8. n.held = i /\ n.pc = p /\ n.persist
      BY <2>1, <2>4 DEF RunTyp
    <2>9. i.sweep = IF inc = None THEN 0 ELSE inc.sweep
      <3>1. x.held = None => inc = None
        BY <1>2, <2>1 DEF MayStore
      <3>2. x.held # None => inc # None /\ x.held = inc
        BY <1>2, <2>1, RunFacts DEF MayStore
      <3> QED
        BY <2>7, <3>1, <3>2
    <2>10. alarms' = FirstOnly(Findings(x.cur, BoundsIn(x), x.tip))
      BY <1>2, <2>1 DEF Conclude, Noted, BoundsOf, BoundsIn
    <2>11. ASSUME Unsuspected PROVE alarms' = {} /\ RunFine(n)
      <3>1. HasMet(x)
        BY <2>1, <2>4, <2>11 DEF Unsuspected, Fine, RunFine
      <3>2. Bounded(x)
        BY <2>4 DEF RunSound, Bounded, Sweeps
      <3>3. alarms' = {}
        BY <2>4, <2>10, <2>11, <3>1, <3>2, NoFindings DEF FirstOnly, Unsuspected
      <3>4. p = "due" => Covers(y)
        BY <2>4, <2>5, <2>6, <3>1, ArrivalCovers
      <3> QED
        BY <2>6, <2>7, <2>8, <3>3, <3>4 DEF RunFine, Sweeps, OnTheSweep, Holders
    <2>12. n.pc \notin Holders /\ n.pc # "settle" /\ incBy' \subseteq {r}
      BY <2>2, <2>6, <2>8 DEF OnTheSweep, Holders
    <2>13. Unsuspected => alarms' \subseteq Suspects /\ (alarms' = {} => RunFine(n))
      BY <2>11
    <2> QED
      BY <1>1, <2>2, <2>3, <2>7, <2>9, <2>12, <2>13, LineKept
  <1>3. CASE ~ MayStore(r)
    <2>1. PICK n, x : x = run[r] /\ n = [x EXCEPT !.pc = "resolve", !.tip = 0]
      OBVIOUS
    <2>2. /\ run' = [run EXCEPT ![r] = n] /\ alarms' = alarms
          /\ UNCHANGED <<inc, full, target>> /\ incBy' = incBy /\ fullBy' = fullBy
      BY <1>1, <1>3, <2>1 DEF Conclude
    <2>3. x \in RunTyp
      BY <2>1, RunFacts
    <2>4. n.pc = "resolve" /\ n.held = x.held /\ n.persist = x.persist
      BY <2>1, <2>3 DEF RunTyp
    <2>5. n.pc \notin Holders /\ n.pc # "settle"
      BY <2>4 DEF OnTheSweep, Holders
    <2>6. Unsuspected => RunFine(n) /\ inc # None
      <3> SUFFICES ASSUME Unsuspected PROVE RunFine(n) /\ inc # None
        OBVIOUS
      <3>1. x.held # None => inc # None
        BY <2>1 DEF Unsuspected, Fine
      <3>2. x.held = None => inc # None
        BY <1>3, <2>1 DEF MayStore
      <3>3. RunFine(n)
        BY <1>1, <2>1, <2>4 DEF RunFine, Sweeps, OnTheSweep, Holders
      <3> QED
        BY <3>1, <3>2, <3>3
    <2>7. Unsuspected => alarms' \subseteq Suspects
      BY <2>2 DEF Unsuspected
    <2> QED
      BY <1>1, <2>2, <2>5, <2>6, <2>7, OutsideKept
  <1> QED
    BY <1>2, <1>3

LEMMA CompleteLineTrusted ==
  ASSUME VerifyInv, PairInv, NEW r \in Runs, CompleteLine(r) PROVE Kept
  <1>1. /\ Calm /\ run[r].pc = "complete" /\ run[r].pc \notin Sweeps \union {"pair"}
        /\ UNCHANGED <<full, target, report>>
    BY Quiet DEF CompleteLine, Sweeps, store
  <1>2. alarms' = alarms /\ (Unsuspected => alarms' \subseteq Suspects)
    BY <1>1, ReportKept
  <1>3. CASE run[r].persist /\ r \notin incBy
    <2>1. Goto(r, "resolve") /\ UNCHANGED store
      BY <1>3 DEF CompleteLine
    <2>2. "resolve" \in Pcs /\ "resolve" \notin Holders
      BY DEF Pcs, OnTheSweep, Holders
    <2>3. Unsuspected => inc # None
      BY <1>1 DEF Unsuspected, Fine, RunFine
    <2> QED
      BY <1>1, <1>2, <2>1, <2>2, <2>3, GoesKept
  <1>4. CASE run[r].persist /\ r \in incBy
    <2>1. PICK h, i, n : h = inc /\ i = [h EXCEPT !.done = TRUE] /\ n = Idle
      OBVIOUS
    <2>2. /\ inc' = i /\ incBy' = {} /\ fullBy' = fullBy /\ run' = [run EXCEPT ![r] = n]
      BY <1>4, <2>1, HeldFacts DEF CompleteLine, End
    <2>3. h \in IncTyp /\ inc # None
      BY <1>4, <2>1, HeldFacts, RunFacts
    <2>4. i # None /\ i.sweep = h.sweep
      BY <2>1, <2>3 DEF IncTyp, None
    <2>5. RunFine(n) /\ n.pc \notin Holders /\ n.pc # "settle"
      BY <2>1, IdleFine DEF OnTheSweep, Holders
    <2> QED
      BY <1>1, <1>2, <2>1, <2>2, <2>3, <2>4, <2>5, LineKept
  <1>5. CASE ~ run[r].persist
    <2>1. End(r) /\ Leave(r) /\ UNCHANGED <<inc, full, target>>
      BY <1>5 DEF CompleteLine
    <2> QED
      BY <1>1, <1>2, <2>1, EndKept DEF Leave
  <1> QED
    BY <1>3, <1>4, <1>5

LEMMA ResolveConflictTrusted ==
  ASSUME VerifyInv, PairInv, NEW r \in Runs, ResolveConflict(r) PROVE Kept
  <1>1. Calm /\ run[r].pc = "resolve" /\ run[r].pc \notin Sweeps \union {"pair"}
    BY Quiet DEF ResolveConflict, Sweeps
  <1>2. CASE inc = None \/ ~ Fits(inc.cur)
    <2>1. Goto(r, "discard") /\ UNCHANGED store
      BY <1>2 DEF ResolveConflict, Alarm, store
    <2>2. ~ Unsuspected
      BY <1>1, <1>2, RunFacts, SoundFits DEF Unsuspected, Fine
    <2>3. "discard" \in Pcs /\ "discard" \notin Holders
      BY DEF Pcs, OnTheSweep, Holders
    <2> QED
      BY <1>1, <2>1, <2>2, <2>3, GoesKept
  <1>3. CASE inc # None /\ Fits(inc.cur)
    <2>1. PICK n, x, i, l : /\ x = run[r] /\ i = inc /\ l = (x.lastFull \/ i.done)
                            /\ n = [Holding(x, i) EXCEPT !.pc = "walk", !.lastFull = l]
      OBVIOUS
    <2>2. run' = [run EXCEPT ![r] = n]
      BY <1>3, <2>1 DEF ResolveConflict
    <2>3. incBy' = incBy \union {r} /\ UNCHANGED <<inc, full, target, fullBy, report>>
      BY <1>3 DEF ResolveConflict
    <2>4. x \in RunTyp /\ x.persist
      BY <1>1, <2>1, RunFacts DEF RunSound
    <2>5. n.pc = "walk" /\ n.persist
      <3>1. i \in IncTyp /\ l \in BOOLEAN
        BY <1>3, <2>1, RunFacts DEF IncTyp
      <3>2. n = Taking(x, i, l)
        BY <2>1 DEF Taking
      <3> QED
        BY <2>4, <3>1, <3>2, Taken
    <2> QED
      BY <1>1, <1>3, <2>2, <2>3, <2>5, TakesKept
  <1> QED
    BY <1>2, <1>3

LEMMA NotSweepableTrusted ==
  ASSUME VerifyInv, PairInv, NEW r \in Runs, NotSweepable(r) PROVE Kept
  <1>1. Calm /\ End(r) /\ Leave(r) /\ UNCHANGED <<inc, full, target>> /\ UNCHANGED report
    BY Quiet DEF NotSweepable
  <1> QED
    BY <1>1, ReportKept, EndKept DEF Leave

LEMMA ReadFullTrusted ==
  ASSUME VerifyInv, PairInv, NEW r \in Runs, ReadFull(r) PROVE Kept
  <1>1. /\ Calm /\ UNCHANGED <<inc, full, target>> /\ incBy' = incBy /\ UNCHANGED report
        /\ run[r].pc = "due" /\ run[r].held # None
    BY Quiet DEF ReadFull, Sweepable
  <1>2. PICK x, f, n : x = run[r] /\ f = full /\ n = [x EXCEPT !.read = f, !.pc = "pair"]
    OBVIOUS
  <1>3. run' = [run EXCEPT ![r] = n]
    BY <1>2 DEF ReadFull
  <1>4. \A q \in Runs \ {r} : q \in fullBy' => q \in fullBy
    BY DEF ReadFull
  <1>5. x \in RunTyp /\ (f = None \/ f \in SweepTyp)
    BY <1>2, RunFacts
  <1>6. /\ n.pc = "pair" /\ n.held = x.held /\ n.read = f /\ n.persist = x.persist
        /\ n.pc \notin OnTheSweep
    BY <1>2, <1>5 DEF RunTyp, OnTheSweep
  <1>7. Coherent' /\ TargetLeft(r)
    BY <1>1, PairKept DEF PairInv
  <1>8. PairInv'
    BY <1>1, <1>2, <1>3, <1>4, <1>6, <1>7, PairStep
  <1>9. ASSUME Unsuspected PROVE Fine'
    <2>1. Fine /\ SweepFine' /\ RunFine(x) /\ (x.held # None => inc # None)
      BY <1>1, <1>2, <1>9, PairKept DEF Unsuspected, Fine, Calm
    <2>2. RunFine(n)
      BY <1>1, <1>2, <1>6, <2>1 DEF RunFine, Sweeps, OnTheSweep
    <2>3. ReadFine(n)'
      <3>1. f # None => Within(f.cur, target.cur)
        BY <1>2, <2>1 DEF Fine, SweepFine
      <3> QED
        BY <1>1, <1>6, <3>1 DEF ReadFine, Within
    <2> QED
      BY <1>1, <1>3, <1>6, <1>7, <2>1, <2>2, <2>3, FineStep
  <1> QED
    BY <1>1, <1>8, <1>9, ReportKept DEF Kept

LEMMA PairProblemTrusted ==
  ASSUME VerifyInv, PairInv, NEW r \in Runs, PairProblem(r) PROVE Kept
  <1>1. Calm /\ UNCHANGED store /\ Alarm(r, "reset", "pair", 0)
    BY Quiet DEF PairProblem
  <1>2. Goto(r, "reset")
    BY <1>1 DEF Alarm
  <1>3. Unsuspected => alarms' \subseteq Suspects /\ alarms' # {}
    BY <1>1, AlarmRings DEF Unsuspected, Suspects
  <1>4. "reset" \in Pcs /\ "reset" \in Sweeps /\ "reset" \notin Holders
    BY DEF Pcs, Sweeps, OnTheSweep, Holders
  <1> QED
    BY <1>1, <1>2, <1>3, <1>4, GoesKept

LEMMA ResumeSweepTrusted ==
  ASSUME VerifyInv, PairInv, NEW r \in Runs, ResumeSweep(r) PROVE Kept
  <1>1. PICK x, f, t : x = run[r] /\ f = x.read /\ t = target
    OBVIOUS
  <1>2. /\ Calm /\ UNCHANGED store /\ x.pc = "pair" /\ f # None /\ t # None
        /\ f.sweep = x.held.sweep /\ t.sweep = x.held.sweep
    BY <1>1, Quiet DEF ResumeSweep, PairFits
  <1>3. /\ UNCHANGED <<inc, full, target>> /\ incBy' = incBy /\ fullBy' = fullBy
    BY <1>2 DEF store
  <1>4. /\ RunSound(x) /\ x \in RunTyp /\ f \in SweepTyp /\ Sound(f.cur)
        /\ t \in SweepTyp /\ Sound(t.cur)
    <2>1. RunSound(x) /\ x \in RunTyp /\ t \in SweepTyp /\ Sound(t.cur)
      BY <1>1, <1>2, RunFacts
    <2> QED
      BY <1>1, <1>2, <2>1 DEF RunSound, RunTyp
  <1>5. CASE Fits(f.cur) /\ Fits(t.cur)
    <2>1. PICK n : n = Swept(x, f, t)
      OBVIOUS
    <2>2. run' = [run EXCEPT ![r] = n] /\ UNCHANGED report
      BY <1>1, <1>5, <2>1 DEF ResumeSweep, Swept
    <2>3. /\ n.held = x.held /\ n.persist = x.persist /\ n.pc = "sweepWalk"
          /\ n.cur = f.cur /\ n.goal = t.cur
          /\ n.bound = [row |-> t.cur.row, seal |-> t.cur.seal, anchor |-> t.cur.anchor]
      BY <1>4, <2>1, SweptFields
    <2>4. n.pc \in Sweeps /\ n.pc \in OnTheSweep
      BY <2>3 DEF Sweeps, OnTheSweep
    <2>5. SweepKnown(r) /\ Coherent' /\ TargetLeft(r) /\ x.held # None
      BY <1>1, <1>2, <1>3, PairKept DEF PairInv, SweepKnown, Holders
    <2>6. PairInv'
      <3>1. r \in fullBy => full = f
        BY <1>1, <1>2, <2>5 DEF SweepKnown
      <3> QED
        BY <1>1, <1>3, <2>2, <2>3, <2>4, <2>5, <3>1, PairStep
    <2>7. ASSUME Unsuspected PROVE Fine'
      <3>1. /\ Fine /\ SweepFine' /\ RunFine(x) /\ ReadFine(x)
            /\ (x.held # None => inc # None)
        BY <1>1, <1>2, <1>3, <2>7, PairKept DEF Unsuspected, Fine, Calm
      <3>2. x.persist /\ Covers(t.cur) /\ Within(f.cur, t.cur)
        <4>1. full # None
          BY <1>1, <1>2 DEF VerifyInv, StoreInv
        <4> QED
          BY <1>1, <1>2, <3>1, <4>1 DEF RunFine, ReadFine, Fine, SweepFine
      <3>3. n.bound = [row |-> n.goal.row, seal |-> n.goal.seal, anchor |-> n.goal.anchor]
            /\ Within(n.cur, n.goal) /\ Covers(n.goal)
        BY <2>3, <3>2
      <3>4. RunFine(n)
        BY <2>3, <2>5, <3>2, <3>3 DEF RunFine
      <3> QED
        BY <1>2, <1>3, <2>2, <2>3, <2>5, <3>1, <3>4, FineStep
    <2> QED
      BY <2>2, <2>6, <2>7, ReportKept DEF Kept
  <1>6. CASE ~ (Fits(f.cur) /\ Fits(t.cur))
    <2>1. Goto(r, "reset")
      BY <1>1, <1>6 DEF ResumeSweep, Alarm
    <2>2. ~ Unsuspected
      BY <1>4, <1>6, SoundFits DEF Unsuspected
    <2>3. "reset" \in Pcs /\ "reset" \in Sweeps /\ "reset" \notin Holders
      BY DEF Pcs, Sweeps, OnTheSweep, Holders
    <2> QED
      BY <1>2, <2>1, <2>2, <2>3, GoesKept
  <1> QED
    BY <1>5, <1>6

LEMMA StalledTrusted ==
  ASSUME VerifyInv, PairInv, NEW r \in Runs, Stalled(r) PROVE Kept
  <1>1. /\ Calm /\ UNCHANGED <<inc, full, target>> /\ incBy' = incBy
        /\ fullBy' \subseteq fullBy /\ r \notin fullBy' /\ UNCHANGED report
        /\ run[r].pc = "pair"
    BY Limits DEF Stalled, Calm, VerifyInv, HarmInv
  <1>2. PICK n, x : x = run[r] /\ n = [x EXCEPT !.read = None, !.pc = "giveUp"]
    OBVIOUS
  <1>3. run' = [run EXCEPT ![r] = n]
    BY <1>2 DEF Stalled
  <1>4. x \in RunTyp /\ x.held # None
    BY <1>1, <1>2, RunFacts DEF PairInv, SweepKnown, Holders
  <1>5. n.pc = "giveUp" /\ n.held = x.held /\ n.persist = x.persist
    BY <1>2, <1>4 DEF RunTyp
  <1>6. Unsuspected => RunFine(n) /\ inc # None
    <2> SUFFICES ASSUME Unsuspected PROVE RunFine(n) /\ inc # None
      OBVIOUS
    <2>1. RunFine(x) /\ inc # None
      BY <1>2, <1>4 DEF Unsuspected, Fine
    <2> QED
      BY <1>1, <1>2, <1>5, <2>1 DEF RunFine, Sweeps, OnTheSweep
  <1> QED
    BY <1>1, <1>3, <1>4, <1>5, <1>6, ReportKept, OutsideKept

LEMMA NotDueTrusted ==
  ASSUME VerifyInv, PairInv, NEW r \in Runs, NotDue(r) PROVE Kept
  <1>1. Calm /\ End(r) /\ Leave(r) /\ UNCHANGED <<inc, full, target>> /\ UNCHANGED report
    BY Quiet DEF NotDue
  <1> QED
    BY <1>1, ReportKept, EndKept DEF Leave

LEMMA FallsDueTrusted ==
  ASSUME VerifyInv, PairInv, NEW r \in Runs, FallsDue(r) PROVE Kept
  <1>1. /\ Calm /\ UNCHANGED store /\ UNCHANGED report /\ Goto(r, "start")
        /\ run[r].pc \in {"pair", "gaveUp"}
        /\ run[r].pc = "pair" => run[r].read = None
    BY Quiet DEF FallsDue, NoneRuns
  <1>2. "start" \in Pcs
    BY DEF Pcs
  <1>3. run[r].held # None /\ r \notin fullBy
    <2>1. SweepKnown(r) /\ (fullBy # {} => full # None)
      BY DEF PairInv, VerifyInv, StoreInv
    <2> QED
      BY <1>1, <2>1 DEF SweepKnown, Holders, Sweeps
  <1>4. Unsuspected => Covers(run[r].held.cur)
    BY <1>1 DEF Unsuspected, Fine, RunFine
  <1> QED
    BY <1>1, <1>2, <1>3, <1>4, ReportKept, GoesKept

LEMMA SettlesKept ==
  ASSUME VerifyInv, PairInv, Calm, UNCHANGED store, UNCHANGED report, NEW r \in Runs,
         run[r].pc \in {"giveUp", "start"}, r \notin incBy, Goto(r, "settle")
  PROVE  Kept
  <1>1. "settle" \in Pcs /\ "settle" \notin Holders /\ run[r].pc \notin Sweeps \union {"pair"}
    BY DEF Pcs, OnTheSweep, Holders, Sweeps
  <1>2. Unsuspected => run[r].held # None
    BY DEF Unsuspected, Fine, RunFine
  <1> QED
    BY <1>1, <1>2, ReportKept, GoesKept

LEMMA GiveUpTrusted ==
  ASSUME VerifyInv, PairInv, NEW r \in Runs, GiveUp(r) PROVE Kept
  <1>1. /\ Calm /\ run[r].pc = "giveUp" /\ run[r].pc \notin Sweeps \union {"pair"}
        /\ UNCHANGED report
    BY Quiet DEF GiveUp, Sweeps
  <1>2. CASE r \in incBy
    <2>1. PICK x, h, i, n : /\ x = run[r] /\ h = inc /\ i = [h EXCEPT !.sweep = 0]
                            /\ n = [x EXCEPT !.held = i, !.pc = "gaveUp"]
      OBVIOUS
    <2>2. /\ inc' = i /\ incBy' = {r} /\ full' = None /\ target' = None /\ fullBy' = {}
      BY <1>2, <2>1, HeldFacts DEF GiveUp
    <2>3. run' = [run EXCEPT ![r] = n]
      <3>1. run' = [run EXCEPT ![r].held = inc', ![r].pc = "gaveUp"]
        BY <1>2 DEF GiveUp
      <3> QED
        BY <2>1, <2>2, <3>1
    <2>4. x \in RunTyp /\ h \in IncTyp /\ x.held = h
      BY <1>2, <2>1, RunFacts, HeldFacts
    <2>5. i.sweep = 0 /\ i.cur = h.cur /\ i # None
      BY <2>1, <2>4 DEF IncTyp, None
    <2>6. n.held = i /\ n.pc = "gaveUp" /\ n.persist = x.persist
      BY <2>1, <2>4 DEF RunTyp
    <2>7. TargetLeft(r) /\ n.held # None
      BY <2>2, <2>5, <2>6 DEF TargetLeft
    <2>8. PairInv'
      <3>1. Coherent' /\ n.pc \notin OnTheSweep /\ n.pc # "pair"
        BY <2>2, <2>5, <2>6 DEF Coherent, OnTheSweep
      <3> QED
        BY <2>2, <2>3, <2>7, <3>1, PairStep
    <2>9. ASSUME Unsuspected PROVE Fine'
      <3>1. Fine /\ RunFine(x) /\ SweepFine'
        BY <2>1, <2>2, <2>9 DEF Unsuspected, Fine, SweepFine
      <3>2. x.persist /\ Covers(h.cur)
        BY <1>1, <2>1, <2>4, <3>1 DEF RunFine
      <3>3. RunFine(n)
        BY <2>5, <2>6, <3>2 DEF RunFine, Sweeps, OnTheSweep, Holders
      <3> QED
        BY <1>1, <2>2, <2>3, <2>5, <2>6, <2>7, <3>1, <3>3, FineStep
    <2> QED
      BY <1>1, <2>8, <2>9, ReportKept DEF Kept
  <1>3. CASE r \notin incBy
    BY <1>1, <1>3, SettlesKept DEF GiveUp
  <1> QED
    BY <1>2, <1>3

LEMMA StartSweepTrusted ==
  ASSUME VerifyInv, PairInv, NEW r \in Runs, StartSweep(r) PROVE Kept
  <1>1. Calm /\ run[r].pc = "start" /\ UNCHANGED report
    BY Quiet DEF StartSweep
  <1>2. CASE r \in incBy
    <2>1. PICK x, h, k, i, f, t, m, n :
            /\ x = run[r] /\ h = inc /\ k = FreshId
            /\ i = [h EXCEPT !.sweep = k]
            /\ f = [cur |-> FirstOf(h), sweep |-> k]
            /\ t = [cur |-> h.cur, sweep |-> k]
            /\ m = [x EXCEPT !.held = i]
            /\ n = Swept(m, f, t)
      OBVIOUS
    <2>2. inc' = i /\ target' = t /\ full' = f /\ incBy' = {r} /\ fullBy' = {r}
      BY <1>2, <2>1, HeldFacts DEF StartSweep
    <2>3. run' = [run EXCEPT ![r] = n]
      <3>1. run' = [run EXCEPT ![r] = [Sweeping([run[r] EXCEPT !.held = inc'], full', target')
                                         EXCEPT !.pc = "sweepWalk"]]
        BY <1>2 DEF StartSweep
      <3>2. run' = [run EXCEPT ![r] = [Sweeping([x EXCEPT !.held = i], f, t)
                                         EXCEPT !.pc = "sweepWalk"]]
        BY <2>1, <2>2, <3>1
      <3>3. run' = [run EXCEPT ![r] = Swept(m, f, t)]
        BY <2>1, <3>2 DEF Swept
      <3> QED
        BY <2>1, <3>3
    <2>4. /\ x \in RunTyp /\ h \in IncTyp /\ Sound(h.cur) /\ x.held = h /\ k \in SweepIds
      BY <1>2, <2>1, RunFacts, HeldFacts, IdsSuffice
    <2>5. i \in IncTyp /\ i.cur = h.cur /\ i.sweep = k /\ i # None
      BY <2>1, <2>4 DEF IncTyp, None
    <2>6. /\ h.cur \in Cursor /\ h.cur.row \in Nat /\ h.cur.anchor \in Nat
          /\ Sound(FirstOf(h))
      <3>1. h.cur \in Cursor /\ h.cur.seal \in 0 .. Len(seals)
        BY <2>4, ChainFacts DEF Sound, Cursor, VerifyInv
      <3> QED
        BY <3>1, SoundGenesis DEF FirstOf, VerifyInv, Cursor
    <2>7. f \in SweepTyp /\ t \in SweepTyp /\ f.cur = FirstOf(h) /\ t.cur = h.cur
          /\ f.sweep = k /\ t.sweep = k /\ f # None /\ t # None
      BY <2>1, <2>4, <2>6 DEF SweepTyp, Sound, None
    <2>8. m \in RunTyp /\ m.held = i /\ m.persist = x.persist
      BY <2>1, <2>4, <2>5 DEF RunTyp
    <2>9. /\ n.held = i /\ n.persist = x.persist /\ n.pc = "sweepWalk"
          /\ n.cur = FirstOf(h) /\ n.goal = h.cur
          /\ n.bound = [row |-> h.cur.row, seal |-> h.cur.seal, anchor |-> h.cur.anchor]
      <3>1. n = Swept(m, f, t) /\ f \in SweepTyp /\ t \in SweepTyp /\ m \in RunTyp
        BY <2>1, <2>7, <2>8
      <3>2. /\ n.held = m.held /\ n.persist = m.persist /\ n.pc = "sweepWalk"
            /\ n.cur = f.cur /\ n.goal = t.cur
            /\ n.bound = [row |-> t.cur.row, seal |-> t.cur.seal, anchor |-> t.cur.anchor]
        BY <3>1, SweptFields
      <3> QED
        BY <2>7, <2>8, <3>2
    <2>10. n.pc \in Sweeps /\ n.pc \in OnTheSweep
      BY <2>9 DEF Sweeps, OnTheSweep, Holders
    <2>11. TargetLeft(r)
      <3>1. k \notin UsedIds
        BY <1>2, <2>1, IdsSuffice
      <3>2. \A q \in Runs : run[q].held # None => run[q].held.sweep \in UsedIds
        BY DEF UsedIds
      <3> QED
        BY <2>2, <2>7, <3>1, <3>2 DEF TargetLeft
    <2>12. PairInv'
      <3>1. Coherent' /\ n.pc # "pair"
        BY <2>2, <2>5, <2>7, <2>9 DEF Coherent
      <3> QED
        BY <2>2, <2>3, <2>5, <2>7, <2>9, <2>10, <2>11, <3>1, PairStep
    <2>13. ASSUME Unsuspected PROVE Fine'
      <3>1. Fine /\ RunFine(x)
        BY <2>1, <2>13 DEF Unsuspected, Fine
      <3>2. x.persist /\ Covers(h.cur)
        BY <1>1, <2>1, <2>4, <3>1 DEF RunFine
      <3>3. Within(FirstOf(h), h.cur)
        BY <2>6 DEF Within, FirstOf, Genesis
      <3>4. SweepFine'
        <4>1. Covers(t.cur) /\ Within(f.cur, t.cur)
          BY <2>7, <3>2, <3>3
        <4>2. seals' = seals /\ anchors' = anchors
          BY <1>1 DEF Calm, chain
        <4>3. Covers(t.cur)' /\ Within(f.cur, t.cur)'
          BY <4>1, <4>2 DEF Covers, Within
        <4> QED
          BY <2>2, <4>3 DEF SweepFine
      <3>5. RunFine(n)
        <4>1. /\ n.bound = [row |-> n.goal.row, seal |-> n.goal.seal, anchor |-> n.goal.anchor]
              /\ Within(n.cur, n.goal) /\ Covers(n.goal) /\ n.held # None
          BY <2>5, <2>9, <3>2, <3>3
        <4> QED
          BY <2>9, <3>2, <4>1 DEF RunFine
      <3> QED
        BY <1>1, <2>2, <2>3, <2>5, <2>9, <2>11, <3>1, <3>4, <3>5, FineStep
    <2> QED
      BY <1>1, <2>12, <2>13, ReportKept DEF Kept
  <1>3. CASE r \notin incBy
    BY <1>1, <1>3, SettlesKept DEF StartSweep
  <1> QED
    BY <1>2, <1>3

LEMMA SweepConcludeTrusted ==
  ASSUME VerifyInv, PairInv, NEW r \in Runs, SweepConclude(r) PROVE Kept
  <1>1. /\ Calm /\ UNCHANGED <<inc, target>> /\ run[r].pc = "sweepConclude"
        /\ run[r].pc \in OnTheSweep
    BY Quiet DEF SweepConclude, OnTheSweep, Holders
  <1>2. CASE r \in fullBy
    <2>1. PICK x, y, p, g, f, n :
            /\ x = run[r] /\ y = Outcome(r) /\ g = full /\ f = [g EXCEPT !.cur = y]
            /\ p = IF IsComplete(r) THEN "finish" ELSE "sweepWalk"
            /\ n = [x EXCEPT !.cur = y, !.tip = 0, !.pc = p]
      OBVIOUS
    <2>2. full' = f /\ full # None
      BY <1>2, <2>1, RunFacts DEF SweepConclude
    <2>3. /\ RunSound(x) /\ x \in RunTyp /\ HasWalked(x) /\ g \in SweepTyp /\ g # None
          /\ ChainInv
      BY <1>2, <2>1, RunFacts DEF SweepConclude, RunSound, VerifyInv
    <2>4. y = Advanced(x.cur, BoundsIn(x), x.tip)
      BY <2>1 DEF Outcome, BoundsOf, BoundsIn
    <2>5. f.cur = y /\ f.sweep = g.sweep /\ f # None
      BY <2>1, <2>3 DEF SweepTyp, None
    <2>6. target # None /\ target.cur = x.goal /\ x.held # None
      <3>1. SweepKnown(r) /\ target # None
        BY <2>2 DEF PairInv, VerifyInv, StoreInv
      <3> QED
        BY <1>1, <1>2, <2>1, <3>1 DEF SweepKnown, Holders
    <2>7. Coherent' /\ TargetLeft(r)
      BY <1>1, <2>1, <2>2, <2>5 DEF PairInv, Coherent, TargetLeft
    <2>8. alarms' = FirstOnly(Findings(x.cur, BoundsIn(x), x.tip))
      BY <1>2, <2>1 DEF SweepConclude, Noted, BoundsOf, BoundsIn
    <2>9. ASSUME Unsuspected
          PROVE  /\ alarms' = {} /\ Fine /\ RunFine(x) /\ x.persist /\ x.held # None
                 /\ x.bound = [row |-> x.goal.row, seal |-> x.goal.seal,
                               anchor |-> x.goal.anchor]
                 /\ Within(y, x.goal) /\ Covers(x.goal)
                 /\ p = "finish" => Confirmed(y, x.goal)
      <3>1. Fine /\ RunFine(x)
        BY <2>1, <2>9 DEF Unsuspected, Fine
      <3>2. /\ x.bound = [row |-> x.goal.row, seal |-> x.goal.seal, anchor |-> x.goal.anchor]
            /\ Within(x.cur, x.goal) /\ Covers(x.goal) /\ HasMet(x) /\ x.goal.row <= x.tip
            /\ x.persist /\ x.held # None
        BY <1>1, <2>1, <3>1 DEF RunFine, Sweeps
      <3>3. Bounded(x)
        BY <3>2 DEF Bounded
      <3>4. alarms' = {}
        BY <2>3, <2>8, <2>9, <3>2, <3>3, NoFindings DEF FirstOnly, Unsuspected
      <3>5. /\ Within(y, x.goal)
            /\ Complete(x.cur, BoundsIn(x), x.tip) => Confirmed(y, x.goal)
        BY <2>3, <2>4, <3>2, SweepAdvances
      <3>6. p = "finish" => Complete(x.cur, BoundsIn(x), x.tip)
        BY <2>1 DEF IsComplete, BoundsOf, BoundsIn
      <3> QED
        BY <3>1, <3>2, <3>4, <3>5, <3>6
    <2>10. Unsuspected => SweepFine'
      <3> SUFFICES ASSUME Unsuspected PROVE SweepFine'
        OBVIOUS
      <3>1. Covers(x.goal) /\ Within(y, x.goal)
        BY <2>9
      <3>2. Covers(x.goal)'
        BY <1>1, <3>1 DEF Calm, chain, Covers
      <3>3. target' = target /\ target'.cur = x.goal /\ full'.cur = y
        BY <1>1, <2>2, <2>5, <2>6
      <3> QED
        BY <3>1, <3>2, <3>3 DEF SweepFine, Covers, Within
    <2>11. CASE /\ run' = [run EXCEPT ![r].cur = Outcome(r), ![r].tip = 0,
                            ![r].pc = IF IsComplete(r) THEN "finish" ELSE "sweepWalk"]
                /\ fullBy' = {r} /\ UNCHANGED incBy
      <3>1. run' = [run EXCEPT ![r] = n]
        BY <2>1, <2>11
      <3>2. p \in {"finish", "sweepWalk"}
        BY <2>1
      <3>3. /\ n.pc = p /\ n.cur = y /\ n.goal = x.goal /\ n.held = x.held
            /\ n.bound = x.bound /\ n.persist = x.persist
        BY <2>1, <2>3 DEF RunTyp
      <3>4. n.pc \in Sweeps /\ n.pc # "pair"
        BY <3>2, <3>3 DEF Sweeps
      <3>5. PairInv'
        BY <1>1, <2>2, <2>5, <2>6, <2>7, <2>11, <3>1, <3>3, <3>4, PairStep
      <3>6. ASSUME Unsuspected PROVE Fine'
        <4>1. RunFine(n)
          BY <2>9, <3>2, <3>3, <3>6 DEF RunFine
        <4>2. n.held # None => inc' # None
          BY <1>1, <2>1, <2>9, <3>3, <3>6 DEF Fine
        <4>3. n.pc # "settle" /\ n.pc # "resolve"
          BY <3>2, <3>3
        <4> QED
          BY <1>1, <2>2, <2>5, <2>7, <2>9, <2>10, <2>11, <3>1, <3>4, <3>6, <4>1, <4>2, <4>3,
             FineStep
      <3> QED
        BY <2>9, <3>5, <3>6 DEF Kept
    <2>12. CASE End(r) /\ fullBy' = {} /\ incBy' = incBy \ {r}
      <3>1. PICK m : m = Idle
        OBVIOUS
      <3>2. run' = [run EXCEPT ![r] = m]
        BY <2>12, <3>1 DEF End
      <3>3. RunFine(m) /\ m.held = None /\ m.pc = "idle" /\ m.pc \notin OnTheSweep
            /\ m.pc \notin Holders
        BY <3>1, IdleFine DEF Holders
      <3>4. PairInv'
        BY <1>1, <2>7, <2>12, <3>2, <3>3, PairStep
      <3>5. ASSUME Unsuspected PROVE Fine'
        BY <1>1, <2>7, <2>9, <2>10, <2>12, <3>2, <3>3, <3>5, FineStep
      <3> QED
        BY <2>9, <3>4, <3>5 DEF Kept
    <2> QED
      BY <1>2, <2>11, <2>12 DEF SweepConclude
  <1>3. CASE r \notin fullBy
    <2>1. PICK n, x : x = run[r] /\ n = [x EXCEPT !.pc = "clash", !.tip = 0]
      OBVIOUS
    <2>2. run' = [run EXCEPT ![r] = n] /\ UNCHANGED store /\ alarms' = alarms
      BY <1>1, <1>3, <2>1 DEF SweepConclude, store
    <2>3. x \in RunTyp
      BY <2>1, RunFacts
    <2>4. /\ n.pc = "clash" /\ n.cur = x.cur /\ n.goal = x.goal /\ n.held = x.held
          /\ n.bound = x.bound /\ n.persist = x.persist
      BY <2>1, <2>3 DEF RunTyp
    <2>5. n.pc \in Sweeps /\ n.pc # "settle"
      BY <2>4 DEF Sweeps
    <2>6. Unsuspected => RunFine(n) /\ (n.held # None => inc # None)
      <3> SUFFICES ASSUME Unsuspected PROVE RunFine(n) /\ (n.held # None => inc # None)
        OBVIOUS
      <3>1. RunFine(x) /\ (x.held # None => inc # None)
        BY <2>1 DEF Unsuspected, Fine
      <3>2. /\ x.bound = [row |-> x.goal.row, seal |-> x.goal.seal, anchor |-> x.goal.anchor]
            /\ Within(x.cur, x.goal) /\ Covers(x.goal) /\ x.persist /\ x.held # None
        BY <1>1, <2>1, <3>1 DEF RunFine, Sweeps
      <3> QED
        BY <2>4, <3>1, <3>2 DEF RunFine
    <2>7. Unsuspected => alarms' \subseteq Suspects
      BY <2>2 DEF Unsuspected
    <2> QED
      BY <1>1, <2>1, <2>2, <2>4, <2>5, <2>6, <2>7, InsideKept
  <1> QED
    BY <1>2, <1>3

LEMMA ResetsKept ==
  ASSUME VerifyInv, PairInv, Calm, UNCHANGED store, NEW r \in Runs, Goto(r, "reset"),
         Unsuspected => alarms' \subseteq Suspects /\ alarms' # {}
  PROVE  Kept
  <1>1. PICK n, x : x = run[r] /\ n = [x EXCEPT !.pc = "reset"]
    OBVIOUS
  <1>2. x \in RunTyp
    BY <1>1, RunFacts
  <1>3. n.pc = "reset" /\ n.cur = x.cur /\ n.goal = x.goal /\ n.held = x.held
    BY <1>1, <1>2 DEF RunTyp
  <1>4. run' = [run EXCEPT ![r] = n] /\ n.pc \in Sweeps /\ n.pc \notin OnTheSweep
    BY <1>1, <1>3 DEF Goto, Sweeps, OnTheSweep
  <1> QED
    BY <1>1, <1>3, <1>4, InsideKept

LEMMA ClashTrusted ==
  ASSUME VerifyInv, PairInv, NEW r \in Runs, Clash(r) PROVE Kept
  <1>1. /\ Calm /\ UNCHANGED store /\ UNCHANGED report
        /\ run[r].pc = "clash" /\ run[r].pc \in OnTheSweep
    BY Quiet DEF Clash, OnTheSweep
  <1>2. PICK n, x : x = run[r] /\ n = [x EXCEPT !.pc = "clashFull"]
    OBVIOUS
  <1>3. run' = [run EXCEPT ![r] = n]
    BY <1>2 DEF Clash, Goto
  <1>4. x \in RunTyp
    BY <1>2, RunFacts
  <1>5. /\ n.pc = "clashFull" /\ n.cur = x.cur /\ n.goal = x.goal /\ n.held = x.held
        /\ n.bound = x.bound /\ n.persist = x.persist
    BY <1>2, <1>4 DEF RunTyp
  <1>6. n.pc \in Sweeps /\ n.pc # "settle"
    BY <1>5 DEF Sweeps
  <1>7. Unsuspected => RunFine(n) /\ (n.held # None => inc # None)
    <2> SUFFICES ASSUME Unsuspected PROVE RunFine(n) /\ (n.held # None => inc # None)
      OBVIOUS
    <2>1. RunFine(x) /\ (x.held # None => inc # None)
      BY <1>2 DEF Unsuspected, Fine
    <2> QED
      BY <1>1, <1>2, <1>5, <2>1 DEF RunFine, Sweeps, OnTheSweep
  <1> QED
    BY <1>1, <1>2, <1>3, <1>5, <1>6, <1>7, ReportKept, InsideKept

LEMMA ClashFullTrusted ==
  ASSUME VerifyInv, PairInv, NEW r \in Runs, ClashFull(r) PROVE Kept
  <1>1. /\ Calm /\ UNCHANGED <<inc, full, target>> /\ incBy' = incBy
        /\ run[r].pc = "clashFull" /\ run[r].pc \in OnTheSweep
    BY Quiet DEF ClashFull, OnTheSweep
  <1>2. SweepKnown(r) /\ run[r].held # None
    BY <1>1 DEF PairInv, SweepKnown, Holders
  <1>3. CASE full = None \/ full.sweep # run[r].held.sweep
    <2>1. PICK k \in {"full deleted", "foreign"} : Alarm(r, "reset", k, 0) /\ UNCHANGED fullBy
      BY <1>3 DEF ClashFull
    <2>2. UNCHANGED store /\ Goto(r, "reset")
      BY <1>1, <2>1 DEF store, Alarm
    <2>3. Unsuspected => alarms' \subseteq Suspects /\ alarms' # {}
      BY <2>1, AlarmRings, ZenonT(30) DEF Unsuspected, Suspects
    <2> QED
      BY <1>1, <2>2, <2>3, ResetsKept
  <1>4. CASE full # None /\ full.sweep = run[r].held.sweep /\ ~ Fits(full.cur)
    <2>1. Goto(r, "reset") /\ UNCHANGED store
      BY <1>1, <1>4 DEF ClashFull, Alarm, store
    <2>2. ~ Unsuspected
      BY <1>4, RunFacts, SoundFits DEF Unsuspected
    <2> QED
      BY <1>1, <2>1, <2>2, ResetsKept
  <1>5. CASE full # None /\ full.sweep = run[r].held.sweep /\ Fits(full.cur)
    <2>1. PICK x, c, n : /\ x = run[r] /\ c = full.cur
                         /\ n = [x EXCEPT !.cur = c, !.pc = "sweepWalk"]
      OBVIOUS
    <2>2. run' = [run EXCEPT ![r] = n] /\ fullBy' = fullBy \union {r} /\ UNCHANGED report
      BY <1>5, <2>1 DEF ClashFull
    <2>3. x \in RunTyp
      BY <2>1, RunFacts
    <2>4. /\ n.pc = "sweepWalk" /\ n.cur = c /\ n.goal = x.goal
          /\ n.held = x.held /\ n.bound = x.bound /\ n.persist = x.persist
      BY <2>1, <2>3 DEF RunTyp
    <2>5. n.pc \in Sweeps
      BY <2>4 DEF Sweeps
    <2>6. target # None /\ target.cur = x.goal
      <3>1. target # None /\ target.sweep = full.sweep
        BY <1>5 DEF VerifyInv, StoreInv
      <3> QED
        BY <1>1, <1>2, <1>5, <2>1, <3>1 DEF SweepKnown
    <2>7. Coherent' /\ TargetLeft(r)
      BY <1>1, PairKept DEF PairInv
    <2>8. PairInv'
      BY <1>1, <1>2, <2>1, <2>2, <2>4, <2>5, <2>6, <2>7, PairStep
    <2>9. ASSUME Unsuspected PROVE Fine'
      <3>1. Fine /\ SweepFine' /\ RunFine(x) /\ (x.held # None => inc # None)
        BY <1>1, <2>1, <2>9, PairKept DEF Unsuspected, Fine, Calm
      <3>2. /\ x.bound = [row |-> x.goal.row, seal |-> x.goal.seal, anchor |-> x.goal.anchor]
            /\ Covers(x.goal) /\ x.persist /\ x.held # None
        BY <1>1, <2>1, <3>1 DEF RunFine, Sweeps
      <3>3. Within(c, x.goal)
        BY <1>5, <2>1, <2>6, <3>1 DEF Fine, SweepFine
      <3>4. RunFine(n)
        BY <2>4, <3>2, <3>3 DEF RunFine
      <3> QED
        BY <1>1, <2>2, <2>4, <2>7, <3>1, <3>4, FineStep
    <2> QED
      BY <2>2, <2>8, <2>9, ReportKept DEF Kept
  <1> QED
    BY <1>3, <1>4, <1>5

LEMMA SettleTrusted ==
  ASSUME VerifyInv, PairInv, NEW r \in Runs, Settle(r) PROVE Kept
  <1>1. /\ Calm /\ UNCHANGED <<inc, full, target>>
        /\ run[r].pc = "settle" \/ (run[r].pc = "clash" /\ r \notin incBy)
    BY Quiet DEF Settle, Overtaken
  <1>2. CASE inc = None \/ r \in incBy \/ ~ Fits(inc.cur)
    <2>1. Goto(r, "reset") /\ UNCHANGED <<incBy, fullBy>>
      BY <1>2 DEF Settle, Alarm, Overtaken
    <2>2. UNCHANGED store
      BY <1>1, <2>1 DEF store
    <2>3. ~ Unsuspected
      <3> SUFFICES ASSUME Unsuspected PROVE FALSE
        OBVIOUS
      <3>1. run[r].held # None /\ inc # None /\ (run[r].pc = "settle" => r \notin incBy)
        BY <1>1 DEF Unsuspected, Fine, RunFine, Sweeps
      <3>2. Fits(inc.cur)
        BY <3>1, RunFacts, SoundFits DEF Unsuspected
      <3> QED
        BY <1>1, <1>2, <3>1, <3>2
    <2> QED
      BY <1>1, <2>1, <2>2, <2>3, ResetsKept
  <1>3. CASE ~ (inc = None \/ r \in incBy \/ ~ Fits(inc.cur))
    <2>1. End(r) /\ Leave(r) /\ UNCHANGED report
      BY <1>3 DEF Settle, Overtaken
    <2> QED
      BY <1>1, <2>1, ReportKept, EndKept DEF Leave
  <1> QED
    BY <1>2, <1>3

LEMMA FinishTrusted ==
  ASSUME VerifyInv, PairInv, NEW r \in Runs, Finish(r) PROVE Kept
  <1>1. Calm /\ run[r].pc = "finish" /\ run[r].pc \in OnTheSweep
    BY Quiet DEF Finish, OnTheSweep, Holders
  <1>2. CASE ~ Confirmed(run[r].cur, run[r].goal)
    <2>1. Goto(r, "reset") /\ UNCHANGED store
      BY <1>2 DEF Finish, Alarm
    <2>2. ~ Unsuspected
      BY <1>1, <1>2 DEF Unsuspected, Fine, RunFine
    <2> QED
      BY <1>1, <2>1, <2>2, ResetsKept
  <1>3. CASE Confirmed(run[r].cur, run[r].goal) /\ r \in incBy
    <2>1. PICK h, i, j, k, n :
            /\ h = inc /\ i = [h EXCEPT !.done = TRUE, !.sweep = 0]
            /\ j = [cur |-> run[r].cur, done |-> FALSE, sweep |-> 0]
            /\ k = inc' /\ n = Idle
      OBVIOUS
    <2>2. /\ k \in {i, j} /\ full' = None /\ target' = None /\ incBy' = {} /\ fullBy' = {}
          /\ run' = [run EXCEPT ![r] = n] /\ UNCHANGED report
      BY <1>3, <2>1, HeldFacts DEF Finish, End
    <2>3. h \in IncTyp
      BY <1>3, <2>1, HeldFacts
    <2>4. k.sweep = 0 /\ k # None
      <3>1. i.sweep = 0 /\ i # None
        BY <2>1, <2>3 DEF IncTyp, None
      <3>2. j.sweep = 0 /\ j # None
        BY <2>1 DEF None
      <3> QED
        BY <2>2, <3>1, <3>2
    <2>5. PairInv'
      <3>1. Coherent' /\ TargetLeft(r)
        BY <2>1, <2>2, <2>4 DEF Coherent, TargetLeft
      <3>2. n.pc = "idle" /\ n.pc \notin OnTheSweep /\ n.pc \notin Holders
        BY <2>1, IdleFine DEF Holders
      <3> QED
        BY <2>2, <3>1, <3>2, PairStep
    <2>6. ASSUME Unsuspected PROVE Fine'
      <3>1. Fine /\ SweepFine' /\ TargetLeft(r)
        BY <2>2, <2>6 DEF Unsuspected, SweepFine, TargetLeft
      <3>2. RunFine(n) /\ n.held = None /\ n.pc = "idle"
        BY <2>1, IdleFine
      <3> QED
        BY <1>1, <2>1, <2>2, <2>4, <3>1, <3>2, FineStep
    <2> QED
      BY <2>2, <2>5, <2>6, ReportKept DEF Kept
  <1>4. CASE Confirmed(run[r].cur, run[r].goal) /\ r \notin incBy
    <2>1. PICK n, x : x = run[r] /\ n = [x EXCEPT !.pc = "settle"]
      OBVIOUS
    <2>2. run' = [run EXCEPT ![r] = n] /\ UNCHANGED store /\ UNCHANGED report
      BY <1>4, <2>1 DEF Finish, Goto
    <2>3. x \in RunTyp
      BY <2>1, RunFacts
    <2>4. /\ n.pc = "settle" /\ n.cur = x.cur /\ n.goal = x.goal /\ n.held = x.held
          /\ n.persist = x.persist
      BY <2>1, <2>3 DEF RunTyp
    <2>5. n.pc \in Sweeps
      BY <2>4 DEF Sweeps
    <2>6. Unsuspected => RunFine(n) /\ (n.held # None => inc # None)
      <3> SUFFICES ASSUME Unsuspected PROVE RunFine(n) /\ (n.held # None => inc # None)
        OBVIOUS
      <3>1. RunFine(x) /\ (x.held # None => inc # None)
        BY <2>1 DEF Unsuspected, Fine
      <3>2. x.persist /\ x.held # None
        BY <1>1, <2>1, <3>1 DEF RunFine, Sweeps
      <3> QED
        BY <2>4, <3>1, <3>2 DEF RunFine, OnTheSweep, Holders
    <2> QED
      BY <1>1, <1>4, <2>1, <2>2, <2>4, <2>5, <2>6, ReportKept, InsideKept
  <1> QED
    BY <1>2, <1>3, <1>4

LEMMA CrashTrusted ==
  ASSUME VerifyInv, PairInv, NEW r \in Runs, Crash(r) PROVE Kept
  <1>1. Calm
    BY Limits DEF Crash, Calm, VerifyInv, HarmInv
  <1>2. UNCHANGED report
    BY DEF Crash
  <1> QED
    BY <1>1, <1>2, ReportKept, EndKept DEF Crash, Leave

(* The chain grows behind what the cursors cover.                           *)
LEMMA FineGrows ==
  ASSUME VerifyInv, ChainInv', Grows, UNCHANGED <<store, run>>, Fine
  PROVE  Fine'
  <1>1. /\ ChainInv /\ Len(seals) \in Nat /\ Len(anchors) \in Nat
        /\ \A s \in 1 .. Len(seals) : seals'[s] = seals[s]
        /\ \A a \in 1 .. Len(anchors) : anchors'[a] = anchors[a]
    BY ChainFacts DEF VerifyInv, Grows
  <1>2. ASSUME NEW c, Sound(c), Covers(c) PROVE Covers(c)'
    <2>1. c.seal \in Nat /\ c.anchor \in Nat /\ c.seal <= Len(seals) /\ c.anchor <= Len(anchors)
      BY <1>2 DEF Sound, Cursor
    <2> QED
      BY <1>1, <1>2, <2>1 DEF Covers
  <1>3. ASSUME NEW x, RunSound(x), RunFine(x) PROVE RunFine(x)'
    <2>1. HasMet(x) => HasMet(x)'
      <3>1. /\ BoundsIn(x).seal \in x.cur.seal .. Len(seals) /\ x.cur.seal \in Nat
            /\ BoundsIn(x).anchor \in x.cur.anchor .. Len(anchors) /\ x.cur.anchor \in Nat
        BY <1>1, <1>3, Bounds
      <3>2. PICK S, A, k : S = BoundsIn(x).seal /\ A = BoundsIn(x).anchor /\ k = x.tip
        OBVIOUS
      <3>3. HasMet(x) <=> /\ \A s \in 1 .. S : seals[s] <= k
                          /\ \A a \in 1 .. A : anchors[a] <= k
        BY <3>2 DEF HasMet
      <3>4. HasMet(x)' <=> /\ \A s \in 1 .. S : seals'[s] <= k
                           /\ \A a \in 1 .. A : anchors'[a] <= k
        BY <3>2 DEF HasMet, BoundsIn
      <3>5. S \in Nat /\ A \in Nat /\ S <= Len(seals) /\ A <= Len(anchors)
        BY <1>1, <3>1, <3>2
      <3>6. /\ \A s \in 1 .. S : seals'[s] = seals[s]
            /\ \A a \in 1 .. A : anchors'[a] = anchors[a]
        BY <1>1, <3>5
      <3> QED
        BY <3>3, <3>4, <3>6
    <2>2. /\ Sound(x.goal) /\ (x.held # None => Sound(x.held.cur))
      BY <1>3 DEF RunSound
    <2>3. /\ Covers(x.goal) => Covers(x.goal)'
          /\ x.held # None /\ Covers(x.held.cur) => Covers(x.held.cur)'
      BY <1>2, <2>2
    <2>4. x.pc \in {"due", "pair", "giveUp", "gaveUp", "start"} => Covers(x.held.cur)'
      BY <1>3, <2>3 DEF RunFine
    <2> QED
      BY <1>3, <2>1, <2>3, <2>4 DEF RunFine, Within, Confirmed
  <1>4. /\ inc' = inc /\ full' = full /\ target' = target /\ incBy' = incBy /\ run' = run
    BY DEF store
  <1>5. SweepFine'
    <2>1. PICK f, t : f = full /\ t = target
      OBVIOUS
    <2>2. f # None => Sound(t.cur) /\ Covers(t.cur) /\ Within(f.cur, t.cur)
      BY <2>1 DEF VerifyInv, StoreInv, Fine, SweepFine
    <2>3. f # None => Covers(t.cur)' /\ Within(f.cur, t.cur)
      BY <1>2, <2>2
    <2> QED
      BY <1>4, <2>1, <2>3 DEF SweepFine, Within
  <1>6. ASSUME NEW r \in Runs PROVE RunFine(run[r])' /\ ReadFine(run[r])'
    <2>1. PICK x : x = run[r]
      OBVIOUS
    <2>2. RunFine(x)' /\ ReadFine(x)'
      <3>1. RunSound(x) /\ RunFine(x) /\ ReadFine(x)
        BY <2>1, RunFacts DEF Fine
      <3> QED
        BY <1>3, <1>4, <3>1 DEF ReadFine, Within
    <2> QED
      BY <1>4, <2>1, <2>2
  <1> QED
    BY <1>4, <1>5, <1>6 DEF Fine

LEMMA ChainTrusted ==
  ASSUME VerifyInv, PairInv, Record \/ Seal \/ Anchor \/ Alter PROVE Kept
  <1>1. VerifyInv' /\ Grows
    BY ChainGrows
  <1>2. UNCHANGED <<store, run>> /\ alarms' = alarms
    BY DEF Record, Seal, Anchor, Alter, report
  <1>3. PairInv'
    BY <1>2 DEF PairInv, SweepKnown, Coherent, store
  <1>4. Unsuspected => Fine'
    BY <1>1, <1>2, FineGrows DEF Unsuspected, VerifyInv
  <1> QED
    BY <1>2, <1>3, <1>4 DEF Kept, Unsuspected

(* The first alarm stays, and the alteration that caused it.                *)
LEMMA AlarmsStay ==
  ASSUME [Next]_vars
  PROVE  /\ alarms # {} => alarms' = alarms
         /\ altered \subseteq altered'
  <1>1. CASE Record \/ Seal \/ Anchor \/ Alter \/ UNCHANGED vars
    BY <1>1 DEF Record, Seal, Anchor, Alter, vars, chain, report
  <1>2. ASSUME NEW r \in Runs, Begin(r) \/ Step(r) \/ Crash(r)
        PROVE  (alarms # {} => alarms' = alarms) /\ altered' = altered
    <2>1. CASE \/ Begin(r) \/ Crash(r) \/ DiscardAll(r) \/ Walk(r) \/ ConcludeBroken(r)
               \/ Restart(r) \/ CompleteLine(r) \/ NotSweepable(r) \/ ReadFull(r)
               \/ Stalled(r) \/ NotDue(r) \/ Clash(r) \/ FallsDue(r) \/ GiveUp(r)
               \/ StartSweep(r) \/ ResetAll(r)
      BY <2>1 DEF Begin, Crash, DiscardAll, Walk, ConcludeBroken, Restart, CompleteLine,
         NotSweepable, ReadFull, Stalled, NotDue, Clash, FallsDue, GiveUp, StartSweep, ResetAll,
         chain, report
    <2>2. CASE Load(r) \/ Orphans(r) \/ ResolveConflict(r) \/ PairProblem(r) \/ ResumeSweep(r)
      BY <2>2 DEF Load, Orphans, ResolveConflict, PairProblem, ResumeSweep, Alarm, FirstOnly,
         chain, report
    <2>3. CASE ClashFull(r) \/ Settle(r) \/ Finish(r)
      BY <2>3 DEF ClashFull, Settle, Finish, Alarm, FirstOnly, chain, report
    <2>4. CASE ConcludeUnstored(r) \/ Conclude(r) \/ SweepConclude(r)
      BY <2>4 DEF ConcludeUnstored, Conclude, SweepConclude, Noted, FirstOnly, chain
    <2> QED
      BY <1>2, <2>1, <2>2, <2>3, <2>4 DEF Step
  <1> QED
    BY <1>1, <1>2 DEF Next

LEMMA StepTrusted ==
  ASSUME VerifyInv, PairInv, NEW r \in Runs, Begin(r) \/ Step(r) \/ Crash(r) PROVE Kept
  <1>1. CASE Begin(r) \/ Crash(r)
    BY <1>1, BeginTrusted, CrashTrusted
  <1>2. CASE \/ Load(r) \/ Orphans(r) \/ DiscardAll(r)
             \/ Walk(r) \/ ConcludeBroken(r) \/ Restart(r) \/ ConcludeUnstored(r)
             \/ Conclude(r) \/ CompleteLine(r) \/ ResolveConflict(r)
    BY <1>2, LoadTrusted, OrphansTrusted, DiscardAllTrusted, WalkTrusted,
       ConcludeBrokenTrusted, RestartTrusted, ConcludeUnstoredTrusted, ConcludeTrusted,
       CompleteLineTrusted, ResolveConflictTrusted
  <1>3. CASE \/ NotSweepable(r) \/ ReadFull(r) \/ PairProblem(r) \/ ResumeSweep(r) \/ Stalled(r)
             \/ NotDue(r) \/ FallsDue(r) \/ GiveUp(r) \/ StartSweep(r)
             \/ SweepConclude(r) \/ Clash(r) \/ ClashFull(r) \/ Settle(r) \/ Finish(r)
             \/ ResetAll(r)
    BY <1>3, NotSweepableTrusted, ReadFullTrusted, PairProblemTrusted, ResumeSweepTrusted,
       StalledTrusted,
       NotDueTrusted, FallsDueTrusted, GiveUpTrusted, StartSweepTrusted,
       SweepConcludeTrusted, ClashTrusted, ClashFullTrusted, SettleTrusted, FinishTrusted,
       ResetAllTrusted
  <1> QED
    BY <1>1, <1>2, <1>3 DEF Step

LEMMA TrustInit == Init => TrustInv
  <1> SUFFICES ASSUME Init PROVE TrustInv
    OBVIOUS
  <1>1. PairInv
    BY IdleFine DEF Init, PairInv, Coherent, SweepKnown, Holders
  <1>2. Fine
    BY IdleFine DEF Init, Fine, SweepFine, ReadFine
  <1> QED
    BY <1>1, <1>2 DEF Init, TrustInv, FineInv, OnlySplitReadsErr

LEMMA TrustStep == VerifyInv /\ TrustInv /\ [Next]_vars => TrustInv'
  <1> SUFFICES ASSUME VerifyInv, TrustInv, [Next]_vars PROVE TrustInv'
    OBVIOUS
  <1>1. PairInv /\ FineInv /\ OnlySplitReadsErr
    BY DEF TrustInv
  <1>2. (alarms # {} => alarms' = alarms) /\ altered \subseteq altered'
    BY AlarmsStay
  <1>3. CASE Next
    <2>1. Kept
      BY <1>1, <1>3, ChainTrusted, StepTrusted DEF Next
    <2>2. altered = {} /\ alarms = {} => Unsuspected
      BY <1>1 DEF FineInv, Unsuspected
    <2>3. FineInv' /\ OnlySplitReadsErr'
      <3>1. ASSUME altered' = {}
            PROVE  alarms' \subseteq Suspects /\ (alarms' = {} => Fine')
        BY <1>1, <1>2, <2>1, <2>2, <3>1 DEF Kept, OnlySplitReadsErr, Suspects
      <3> QED
        BY <3>1 DEF FineInv, OnlySplitReadsErr, Suspects
    <2> QED
      BY <2>1, <2>3 DEF Kept, TrustInv
  <1>4. CASE UNCHANGED vars
    <2>1. UNCHANGED <<store, run, chain, alarms>>
      BY <1>4 DEF vars, report
    <2>2. PairInv'
      BY <1>1, <2>1 DEF PairInv, SweepKnown, Coherent, store
    <2>3. Fine => Fine'
      <3>1. ChainInv /\ ChainInv' /\ Grows
        <4>1. ChainInv
          BY DEF VerifyInv
        <4> QED
          BY <2>1, <4>1, ChainFacts DEF chain, ChainInv, Grows
      <3> QED
        BY <2>1, <3>1, FineGrows
    <2> QED
      BY <1>1, <2>1, <2>2, <2>3 DEF TrustInv, FineInv, OnlySplitReadsErr, chain
  <1> QED
    BY <1>3, <1>4

(* OverlapIsHarmless: runs that overlap, however many and wherever they are *)
(* cut off, hide no alteration from each other, and on an intact chain no   *)
(* check of a row against the chain and no takeover of INCREMENTAL is the   *)
(* first to be wrong, though every two rows are read by two statements.     *)
THEOREM OverlapsAreHarmless == Spec => []OverlapIsHarmless
  <1>1. VerifyInv /\ TrustInv => OverlapIsHarmless
    <2>1. VerifyInv => CheckedRowsWereIntact
      BY DEF CheckedRowsWereIntact, Stored, VerifyInv, StoreInv, Sound
    <2>2. TrustInv => TakeoversAreTrusted
      BY DEF TrustInv, OnlySplitReadsErr, TakeoversAreTrusted, Suspects
    <2> QED
      BY <2>1, <2>2 DEF OverlapIsHarmless
  <1>2. Spec => []TrustInv
    BY TrustInit, TrustStep, VerifyInvariant, PTL DEF Spec
  <1> QED
    BY <1>1, <1>2, VerifyInvariant, PTL

-----------------------------------------------------------------------------
(* A run that nobody overlaps with. *)

LEMMA Blames ==
  ASSUME NEW r \in Runs, Begin(r) \/ Step(r) \/ Crash(r), alarms = {},
         NEW k \in Suspects, k \in alarms'
  PROVE  \/ PairProblem(r) \/ ClashFull(r)
         \/ Orphans(r) /\ ~ (full = None /\ target = None)
  <1>1. CASE \/ Begin(r) \/ Crash(r) \/ DiscardAll(r) \/ Walk(r) \/ ConcludeBroken(r)
             \/ Restart(r) \/ CompleteLine(r) \/ NotSweepable(r) \/ ReadFull(r) \/ Stalled(r)
             \/ NotDue(r) \/ FallsDue(r) \/ GiveUp(r) \/ StartSweep(r) \/ Clash(r)
             \/ ResetAll(r)
    BY <1>1 DEF Begin, Crash, DiscardAll, Walk, ConcludeBroken, Restart, CompleteLine,
       NotSweepable, ReadFull, Stalled, NotDue, FallsDue, GiveUp, StartSweep, Clash, ResetAll,
       report
  <1>2. CASE Load(r) \/ ResolveConflict(r) \/ ResumeSweep(r)
    BY <1>2 DEF Load, ResolveConflict, ResumeSweep, Alarm, FirstOnly, report, Suspects
  <1>3. CASE Settle(r) \/ Finish(r)
    BY <1>3 DEF Settle, Finish, Alarm, FirstOnly, report, Suspects
  <1>4. CASE ConcludeUnstored(r) \/ Conclude(r) \/ SweepConclude(r)
    BY <1>4 DEF ConcludeUnstored, Conclude, SweepConclude, Noted, FirstOnly, Findings, Suspects
  <1>5. CASE Orphans(r) \/ PairProblem(r) \/ ClashFull(r)
    BY <1>5 DEF Orphans, report
  <1> QED
    BY <1>1, <1>2, <1>3, <1>4, <1>5 DEF Step

(* How a run comes to the steps that compare two rows.                      *)
Comparing == {"orphans", "due", "pair", "sweepWalk", "sweepConclude", "clash", "clashFull"}

LEMMA Becomes ==
  ASSUME VerifyInv, Unsuspected, NEW r \in Runs, AloneAt(r),
         Begin(r) \/ Step(r) \/ Crash(r)
  PROVE  AloneAt(r)'
  <1>1. run \in [Runs -> RunTyp] /\ run[r] \in RunTyp
    BY RunFacts DEF VerifyInv, RunInv
  <1>2. ASSUME NEW n, run' = [run EXCEPT ![r] = n] PROVE run'[r] = n
    BY <1>1, <1>2
  <1>3. ASSUME NEW p, Goto(r, p), p \notin Comparing PROVE AloneAt(r)'
    <2>1. run'[r].pc = p
      BY <1>1, <1>3 DEF Goto, RunTyp
    <2> QED
      BY <1>3, <2>1 DEF AloneAt, Comparing
  <1>4. ASSUME NEW n, run' = [run EXCEPT ![r] = n], n.pc \notin Comparing PROVE AloneAt(r)'
    BY <1>2, <1>4 DEF AloneAt, Comparing
  <1>5. CASE \/ NotSweepable(r) \/ NotDue(r) \/ ResetAll(r) \/ Crash(r) \/ Settle(r)
             \/ Finish(r) \/ CompleteLine(r)
    <2>1. Idle.pc \notin Comparing
      BY DEF Idle, Comparing
    <2>2. CASE End(r)
      BY <1>4, <2>1, <2>2 DEF End
    <2>3. ASSUME NEW p \in {"reset", "settle", "resolve"}, Goto(r, p) PROVE AloneAt(r)'
      BY <1>3, <2>3 DEF Comparing
    <2> QED
      BY <1>5, <2>2, <2>3 DEF NotSweepable, NotDue, ResetAll, Crash, Settle, Finish,
         CompleteLine, Alarm
  <1>6. CASE DiscardAll(r) \/ Restart(r) \/ ConcludeUnstored(r) \/ ConcludeBroken(r)
    BY <1>6, NeverSuspected DEF DiscardAll, Restart, ConcludeUnstored, ConcludeBroken,
       IsBroken, BrokenBelow, Unsuspected
  <1>7. CASE Load(r) \/ ResolveConflict(r)
    <2>1. CASE Goto(r, "discard")
      BY <1>3, <2>1 DEF Comparing
    <2>2. CASE Goto(r, "orphans") /\ inc = None /\ UNCHANGED inc
      <3>1. run'[r].pc = "orphans"
        BY <1>1, <2>2 DEF Goto, RunTyp
      <3> QED
        BY <2>2, <3>1 DEF AloneAt
    <2>3. ASSUME NEW l, run' = [run EXCEPT ![r] = [Holding(run[r], inc) EXCEPT !.pc = "walk",
                                                                          !.lastFull = l]]
          PROVE  AloneAt(r)'
      <3>1. PICK n : n = [Holding(run[r], inc) EXCEPT !.pc = "walk", !.lastFull = l]
        OBVIOUS
      <3>2. n.pc = "walk"
        BY <1>1, <3>1 DEF Holding, RunTyp
      <3> QED
        BY <1>4, <2>3, <3>1, <3>2 DEF Comparing
    <2>4. CASE Load(r)
      BY <2>1, <2>2, <2>3, <2>4 DEF Load, Alarm
    <2>5. CASE ResolveConflict(r)
      BY <2>1, <2>3, <2>5 DEF ResolveConflict, Alarm
    <2> QED
      BY <1>7, <2>4, <2>5
  <1>8. CASE Orphans(r)
    <2>1. CASE Goto(r, "discard")
      BY <1>3, <2>1 DEF Comparing
    <2>2. CASE run' = [run EXCEPT ![r] = AtGenesis(run[r])]
      <3>1. PICK n : n = AtGenesis(run[r])
        OBVIOUS
      <3>2. n.pc = "walk"
        BY <1>1, <3>1 DEF AtGenesis, RunTyp
      <3> QED
        BY <1>4, <2>2, <3>1, <3>2 DEF Comparing
    <2> QED
      BY <1>8, <2>1, <2>2 DEF Orphans, Alarm
  <1>9. CASE Walk(r)
    <2>1. PICK x, n : x = run[r] /\ n = [x EXCEPT !.tip = rows,
                        !.pc = IF x.pc = "walk" THEN "conclude" ELSE "sweepConclude"]
      OBVIOUS
    <2>2. run' = [run EXCEPT ![r] = n] /\ UNCHANGED store
      BY <1>9, <2>1 DEF Walk, Unsuspected
    <2>3. run'[r].pc = IF x.pc = "walk" THEN "conclude" ELSE "sweepConclude"
      BY <1>1, <1>2, <2>1, <2>2 DEF RunTyp
    <2>4. x.pc = "sweepWalk" => r \in fullBy
      BY <2>1 DEF AloneAt
    <2> QED
      BY <1>9, <2>1, <2>2, <2>3, <2>4 DEF Walk, AloneAt, store
  <1>10. CASE Conclude(r)
    <2>1. CASE MayStore(r)
      <3>1. incBy' = {r} /\ run'[r].pc = NextPc(r)
        BY <1>1, <1>10, <2>1 DEF Conclude, RunTyp
      <3> QED
        BY <3>1 DEF NextPc, AloneAt
    <2>2. CASE ~ MayStore(r)
      <3>1. run'[r].pc = "resolve"
        BY <1>1, <1>10, <2>2 DEF Conclude, RunTyp
      <3> QED
        BY <3>1 DEF AloneAt
    <2> QED
      BY <2>1, <2>2
  <1>11. CASE ReadFull(r)
    <2>1. PICK x, f, n : x = run[r] /\ f = full /\ n = [x EXCEPT !.read = f, !.pc = "pair"]
      OBVIOUS
    <2>2. run' = [run EXCEPT ![r] = n] /\ UNCHANGED <<incBy, full>>
      BY <1>11, <2>1 DEF ReadFull
    <2>3. run'[r].pc = "pair" /\ run'[r].read = f
      BY <1>1, <1>2, <2>1, <2>2 DEF RunTyp
    <2>4. r \in incBy
      BY <1>11 DEF ReadFull, AloneAt
    <2>5. full # None => r \in fullBy'
      BY <1>11 DEF ReadFull
    <2> QED
      BY <2>1, <2>2, <2>3, <2>4, <2>5 DEF AloneAt
  <1>12. CASE PairProblem(r) \/ FallsDue(r)
    BY <1>3, <1>12 DEF PairProblem, FallsDue, Alarm, Comparing
  <1>13. CASE Stalled(r)
    <2>1. run'[r].pc = "giveUp"
      BY <1>1, <1>13 DEF Stalled, RunTyp
    <2> QED
      BY <2>1 DEF AloneAt
  <1>14. CASE ResumeSweep(r)
    <2>1. CASE Goto(r, "reset")
      BY <1>3, <2>1 DEF Comparing
    <2>2. CASE Fits(run[r].read.cur) /\ Fits(target.cur)
      <3>1. PICK n, x, f, t : x = run[r] /\ f = x.read /\ t = target /\ n = Swept(x, f, t)
        OBVIOUS
      <3>2. run' = [run EXCEPT ![r] = n]
        BY <1>14, <2>2, <3>1 DEF ResumeSweep, Swept
      <3>3. x \in RunTyp /\ f # None /\ f \in SweepTyp /\ t \in SweepTyp
        BY <1>1, <1>14, <3>1, RunFacts DEF ResumeSweep, PairFits, RunTyp
      <3>4. /\ n \in RunTyp /\ n.pc = "sweepWalk" /\ n.held = x.held
            /\ n.persist = x.persist /\ n.cur = f.cur /\ n.goal = t.cur /\ n.read = None
            /\ n.bound = [row |-> t.cur.row, seal |-> t.cur.seal, anchor |-> t.cur.anchor]
        BY <3>1, <3>3, SweptFields
      <3>5. r \in fullBy /\ fullBy' = fullBy
        BY <1>14, <3>1, <3>3 DEF ResumeSweep, AloneAt, store
      <3> QED
        BY <1>2, <3>2, <3>4, <3>5 DEF AloneAt
    <2> QED
      BY <1>14, <2>1, <2>2 DEF ResumeSweep, Alarm
  <1>15. CASE GiveUp(r) \/ StartSweep(r)
    <2>1. CASE Goto(r, "settle")
      BY <1>3, <2>1 DEF Comparing
    <2>2. CASE GiveUp(r) /\ r \in incBy
      <3>1. run'[r].pc = "gaveUp"
        BY <1>1, <2>2 DEF GiveUp, RunTyp
      <3> QED
        BY <3>1 DEF AloneAt
    <2>3. CASE StartSweep(r) /\ r \in incBy
      <3>1. fullBy' = {r} /\ run'[r].pc = "sweepWalk"
        BY <1>1, <2>3 DEF StartSweep, Sweeping, RunTyp
      <3> QED
        BY <3>1 DEF AloneAt
    <2> QED
      BY <1>15, <2>1, <2>2, <2>3 DEF GiveUp, StartSweep
  <1>16. CASE SweepConclude(r)
    <2>1. r \in fullBy
      BY <1>16 DEF SweepConclude, AloneAt
    <2>2. CASE End(r)
      <3>1. Idle.pc \notin Comparing
        BY DEF Idle, Comparing
      <3> QED
        BY <1>4, <2>2, <3>1 DEF End
    <2>3. CASE /\ run' = [run EXCEPT ![r].cur = Outcome(r), ![r].tip = 0,
                            ![r].pc = IF IsComplete(r) THEN "finish" ELSE "sweepWalk"]
               /\ fullBy' = {r}
      <3>1. run'[r].pc \in {"finish", "sweepWalk"}
        BY <1>1, <2>3 DEF RunTyp
      <3> QED
        BY <2>3, <3>1 DEF AloneAt
    <2> QED
      BY <1>16, <2>1, <2>2, <2>3 DEF SweepConclude
  <1>17. CASE Clash(r) \/ ClashFull(r)
    BY <1>17 DEF Clash, ClashFull, AloneAt
  <1>18. CASE Begin(r)
    <2>1. run'[r].pc = "load"
      BY <1>1, <1>18 DEF Begin, Idle
    <2> QED
      BY <2>1 DEF AloneAt
  <1> QED
    BY <1>5, <1>6, <1>7, <1>8, <1>9, <1>10, <1>11, <1>12, <1>13, <1>14, <1>15, <1>16,
       <1>17, <1>18 DEF Step

LEMMA AloneStep ==
  ASSUME VerifyInv, TrustInv, TrustInv', [Next]_vars, NEW v, Runs = {v},
         Alone, NoFalseAlarm
  PROVE  Alone' /\ NoFalseAlarm'
  <1>1. SUFFICES ASSUME altered' = {} PROVE alarms' = {} /\ AloneAt(v)'
    BY DEF Alone, NoFalseAlarm
  <1>2. altered = {} /\ alarms = {} /\ alarms' \subseteq Suspects /\ Unsuspected
    <2>1. altered = {} /\ alarms = {}
      BY <1>1, AlarmsStay DEF NoFalseAlarm
    <2> QED
      BY <1>1, <2>1 DEF TrustInv, FineInv, OnlySplitReadsErr, Suspects, Unsuspected
  <1>3. AloneAt(v)
    BY <1>2 DEF Alone
  <1>4. CASE Begin(v) \/ Step(v) \/ Crash(v)
    <2>1. ~ PairProblem(v)
      <3> SUFFICES ASSUME PairProblem(v) PROVE FALSE
        OBVIOUS
      <3>1. /\ run[v].held = inc /\ inc # None /\ (full = None) = (target = None)
            /\ run[v].read = full
        BY <1>3, RunFacts DEF PairProblem, AloneAt
      <3>2. full # None => full.sweep = target.sweep /\ full.sweep # 0
        <4>1. full # None => full \in SweepTyp
          BY DEF VerifyInv, StoreInv
        <4>2. full # None => full.sweep # 0
          BY <4>1 DEF SweepTyp, SweepIds
        <4> QED
          BY <4>2 DEF VerifyInv, StoreInv
      <3> QED
        BY <3>1, <3>2 DEF PairProblem, PairFits, TrustInv, PairInv, Coherent
    <2>2. Orphans(v) => full = None /\ target = None
      BY <1>3, RunFacts DEF Orphans, AloneAt, TrustInv, PairInv, Coherent
    <2>3. ~ ClashFull(v)
      BY <1>3 DEF ClashFull, AloneAt
    <2>4. alarms' = {}
      BY <1>2, <1>4, <2>1, <2>2, <2>3, Blames
    <2> QED
      BY <1>2, <1>3, <1>4, <2>4, Becomes
  <1>5. CASE Record \/ Seal \/ Anchor \/ Alter \/ UNCHANGED vars
    BY <1>2, <1>3, <1>5 DEF AloneAt, Record, Seal, Anchor, Alter, vars, store, report
  <1> QED
    BY <1>4, <1>5 DEF Next

(* NoFalseAlarm: as long as runs do not overlap, however many of them die,  *)
(* none of the checks is ever wrong about an intact chain.                  *)
THEOREM SingleRunsAreTrusted ==
  ASSUME NEW v, Runs = {v} PROVE Spec => []NoFalseAlarm
  <1>1. Init => Alone /\ NoFalseAlarm
    BY DEF Init, Alone, AloneAt, NoFalseAlarm, Idle
  <1>2. /\ VerifyInv /\ TrustInv /\ TrustInv' /\ [Next]_vars /\ Alone /\ NoFalseAlarm
           => Alone' /\ NoFalseAlarm'
    BY AloneStep
  <1>3. Spec => []TrustInv
    BY TrustInit, TrustStep, VerifyInvariant, PTL DEF Spec
  <1> QED
    BY <1>1, <1>2, <1>3, VerifyInvariant, PTL DEF Spec

=============================================================================
