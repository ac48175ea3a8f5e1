\* One order at a time, to the contacts of a client or for a TCMS message whose
\* code expires; the run may die and starts again.
SPECIFICATION LiveSpec
CONSTANTS
  o1 = o1
  o2 = o2
  w1 = w1
  w2 = w2
  p1 = p1
  NoOrder = NoOrder
  Orders = {o1, o2}
  Workers = {w1}
  Processes = {p1}
  ProcessOf <- OneProcess
  Contacts = {o2}
  Tcms = {o1}
  Expiring = {o1}
  MaxOrders = 1
  MaxRecipients = 2
  MaxAttempts = 2
  RetryDelay <- Doubling
  InFlightTimeout = 1
  ResendWindow = 1
  Retention = 0
  ValidFor = 2
  BatchSize = 1
  MaxCycles = 2
  MaxCrashes = 1
INVARIANTS
  TableChecks
  NoAutomaticDuplicate
PROPERTIES
  EveryOrderEnds
  AnonymizedIsErased
