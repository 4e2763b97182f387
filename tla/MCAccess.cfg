SPECIFICATION MCSpec
CONSTANTS
  l1 = l1
  l2 = l2
  h1 = h1
  h2 = h2
  u1 = u1
  u2 = u2
  r1 = r1
  p1 = p1
  q1 = q1
  k1 = k1
  k2 = k2
  Line = {l1, l2}
  Handler = {h1, h2}
  MaxSessions = 4
  UserRows <- Users
  Unit = {u1, u2}
  Desk = {u1}
  Role = {r1}
  Permission = {p1}
  Needed = {p1}
  Request = {q1}
  Clerk = {k1, k2}
  MaxChanges = 3
INVARIANTS
  LinesNeverFork
  PassesWithGivenRoles
PROPERTIES
  GuardsCatchUp
CHECK_DEADLOCK FALSE
