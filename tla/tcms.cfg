\* Two runs, a message to a contact ahead of one to a member of staff, one
\* message per fetch: the first blocks the second until it is settled.
SPECIFICATION FairSpec
CONSTANTS
  l1 = l1
  l2 = l2
  Laeufe = {l1, l2}
  Kontakt = {1}
  Kanzlei = {2}
  Limit = 1
  MaxStoerungen = 1
  MaxAenderungen = 1
INVARIANTS
  TypeOK
  PlannedOnce
  ReportIsTrue
PROPERTIES
  EveryMessageSettled
