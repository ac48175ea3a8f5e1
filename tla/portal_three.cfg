\* Three requests of one form, up to three rows under its key, nothing fails: one of
\* them counts before and begins after another one has sent.
SPECIFICATION Spec
CONSTANTS
  r1 = r1
  r2 = r2
  r3 = r3
  Anfragen = {r1, r2, r3}
  MaxVorgaenge = 3
  MaxAbstuerze = 0
SYMMETRY AnyRequest
INVARIANTS
  EventsAndLocksAgree
CHECK_DEADLOCK FALSE
