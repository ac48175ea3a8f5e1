\* One order, two runs of the job that race over it.
SPECIFICATION Spec
CONSTANTS
  o1 = o1
  o2 = o2
  w1 = w1
  w2 = w2
  p1 = p1
  NoOrder = NoOrder
  Orders = {o1}
  Workers = {w1, w2}
  Processes = {p1}
  ProcessOf <- OneProcess
  Contacts = {}
  Tcms = {}
  Expiring = {}
  MaxOrders = 1
  MaxRecipients = 1
  MaxAttempts = 2
  RetryDelay <- Doubling
  InFlightTimeout = 1
  ResendWindow = 0
  Retention = 0
  ValidFor = 1
  BatchSize = 1
  MaxCycles = 2
  MaxCrashes = 0
SYMMETRY Symmetry
INVARIANTS
  TypeOK
  DuplicateOnlyConfirmed
  StatusIsTrue
  ToldOnce
PROPERTIES
  NotGivenUpEarly
  ImplementsDelivery
