SPECIFICATION FairSpec
CONSTANTS
  s1 = s1
  s2 = s2
  r1 = r1
  r2 = r2
  Shipment = {s1, s2}
  Request = {r1, r2}
  Total = {0, 3}
  Minimum = 2
  MaxVersion = 3
INVARIANTS
  StatusIsTheMoney
  Gapless
  RemainderIsAccepted
PROPERTIES
  DueIsNoticed
  ImplementsAccount
CHECK_DEADLOCK FALSE
