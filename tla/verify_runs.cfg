\* Two overlapping runs over a growing chain of which one row may be altered.
SPECIFICATION Spec
CONSTANTS
  v1 = v1
  v2 = v2
  Runs = {v1, v2}
  SegmentRows = 1
  SegmentAnchors = 1
  MaxRows = 2
  MaxSeals = 0
  MaxAnchors = 0
  MaxAltered = 1
  MaxCrashes = 0
  MaxStalls = 0
SYMMETRY RunSymmetry
INVARIANTS
  OverlapIsHarmless
