SPECIFICATION Spec
CONSTANTS
  t1 = t1
  t2 = t2
  m1 = m1
  m2 = m2
  p1 = p1
  p2 = p2
  p3 = p3
  d1 = d1
  r1 = r1
  r2 = r2
  r3 = r3
  Trip = {t1, t2}
  NoTrip = NoTrip
  Manifest = {m1}
  Parcel = {p1, p2, p3}
  Driver = {d1}
  Request = {r1, r2, r3}
  Op = {"createTrip", "update", "assign", "start", "complete", "cancel", "load", "unload", "missing"}
  Assembled <- OneFullManifest
SYMMETRY Interchangeable
INVARIANTS
  TypeOK
  LoadedMeansOnTheRoad
  InTransitMeansLoaded
  NeverDepartsEmpty
PROPERTIES
  ManifestStepAllowed
CHECK_DEADLOCK FALSE
