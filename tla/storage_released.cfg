\* An upload that takes too long, and a cleanup whose call fails.
\* The instance is over when its uploads are and their rows are closed.
CHECK_DEADLOCK FALSE
SPECIFICATION Spec
CONSTANTS
  u1 = u1
  u2 = u2
  c1 = c1
  c2 = c2
  NoJob = NoJob
  Uploads = {u1}
  Cleaners = {c1}
  Locked = {}
  Prompt = {}
  Grace = 1
  ClaimStale = 1
  Retention = 2
  MaxFaults = 1
  MaxClock = 5
INVARIANTS
  ReferencedIsStored
