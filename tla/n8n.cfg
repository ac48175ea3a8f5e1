\* Two routes, two executions, one administrator with one decision; one thing fails.
\* A settled event is the end.
SPECIFICATION FairSpec
CONSTANTS
  d1 = d1
  d2 = d2
  w1 = w1
  w2 = w2
  a1 = a1
  Deliveries = {d1, d2}
  Workers = {w1, w2}
  Admins = {a1}
  MaxAttempts = 2
  MaxFaults = 1
  MaxClicks = 1
INVARIANTS
  TypeOK
  OutboxTold
  OneSender
PROPERTIES
  ConclusionsHold
  EveryDeliveryEnds
CHECK_DEADLOCK FALSE
