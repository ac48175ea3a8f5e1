\* Two overlapping runs that take turns under the lease; requests end before it does.
SPECIFICATION FairSpec
CONSTANTS
  r1 = r1
  r2 = r2
  Runs = {r1, r2}
  Leaseless = {}
  Modes = {"rfc3161", "local"}
  MaxRows = 2
  TTL = 2
  Timeout = 1
  Prompt = TRUE
  MinInterval = 1
  MaxDelay = 2
  MaxTime = 0
  MaxFaults = 2
INVARIANTS
  TypeOK
  OneRequestPerTip
  StatusTruthful
PROPERTIES
  RefinesChain
  EventuallyAnchored
