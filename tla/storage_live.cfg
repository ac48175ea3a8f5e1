\* An upload that is over in time and two cleanups that race; calls fail, runs die or stall.
\* The instance is over when its uploads are and their rows are closed.
CHECK_DEADLOCK FALSE
SPECIFICATION LiveSpec
CONSTANTS
  u1 = u1
  u2 = u2
  c1 = c1
  c2 = c2
  NoJob = NoJob
  Uploads = {u1}
  Cleaners = {c1, c2}
  Locked = {u1}
  Prompt = {u1}
  Grace = 1
  ClaimStale = 1
  Retention = 2
  MaxFaults = 3
  MaxClock = 20
INVARIANTS
  TypeOK
  ReferencedIsStored
  JournalIsTrue
PROPERTIES
  EveryRowCloses
