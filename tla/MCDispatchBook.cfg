SPECIFICATION Spec
CONSTANTS
  t1 = t1
  t2 = t2
  m1 = m1
  m2 = m2
  p1 = p1
  d1 = d1
  r1 = r1
  r2 = r2
  Trip = {t1, t2}
  NoTrip = NoTrip
  Manifest = {m1, m2}
  Parcel = {p1}
  Driver = {d1}
  Request = {r1, r2}
  Op = {"add", "remove", "finalize", "reopen", "createTrip", "assign", "start", "cancel", "load", "unload"}
  Assembled <- NothingAssembled
SYMMETRY Interchangeable
PROPERTIES
  ClaimedOnce
CHECK_DEADLOCK FALSE
