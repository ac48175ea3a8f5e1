\* One attachment, two requests that upload it and two that accept it at a time, three faults.
SPECIFICATION FairSpec
CONSTANTS
  a1 = a1
  a2 = a2
  u1 = u1
  u2 = u2
  s1 = s1
  s2 = s2
  Attachments = {a1}
  Uploads = {u1, u2}
  Staff = {s1, s2}
  MaxFaults = 3
INVARIANTS
  TypeOK
  ReviewableIsKept
  DecisionsHold
PROPERTIES
  StagingGoes
