\* One run after the other, each of which may die, with seals and anchors that
\* come late, and a sweep that may be given up.
SPECIFICATION FairSpec
CONSTANTS
  v1 = v1
  v2 = v2
  Runs = {v1}
  SegmentRows = 1
  SegmentAnchors = 1
  MaxRows = 2
  MaxSeals = 1
  MaxAnchors = 2
  MaxAltered = 1
  MaxCrashes = 1
  MaxStalls = 1
INVARIANTS
  TypeOK
  NothingSkipped
  NoFalseAlarm
PROPERTIES
  AlteredRowIsFound
