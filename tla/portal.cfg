\* Two requests of one form, up to two rows under its key, one death or failed transaction.
\* It stops when all requests have ended and nothing is left to clear up.
SPECIFICATION FairSpec
CONSTANTS
  r1 = r1
  r2 = r2
  r3 = r3
  Anfragen = {r1, r2}
  MaxVorgaenge = 2
  MaxAbstuerze = 1
INVARIANTS
  TypeOK
PROPERTIES
  DocumentsFollowEvents
  ContentGoes
CHECK_DEADLOCK FALSE
