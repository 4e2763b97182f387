SPECIFICATION MCSpec
CONSTANTS
  m1 = m1
  m2 = m2
  c1 = c1
  c2 = c2
  a = a
  b = b
  u1 = u1
  r1 = r1
  r2 = r2
  Manager = {m1, m2}
  Clerk = {c1, c2}
  MaxSubs = 2
  MaxUnits = 2
  OrgType = {"BRANCH", "WAREHOUSE"}
  PlanRows <- TwoPlans
  MaxRow = 3
  Value = {a, b}
  AnyValue = AnyValue
  Spelled = b
  Place = {1, 2}
  Unit = {u1}
  Limit = 1
  MaxChanges = 2
  Lists <- AllLists
  Run = {r1, r2}
SYMMETRY Symmetry
INVARIANTS
  PagesCoverWhatStays
  QuietListIsReadWhole
  OneActiveSubscription
  UnitsWithinLimit
  SeedsWhatItLists
CHECK_DEADLOCK FALSE
