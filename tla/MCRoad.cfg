SPECIFICATION RoadSpec
CONSTANTS
  t1 = t1
  t2 = t2
  d1 = d1
  d2 = d2
  s1 = s1
  s2 = s2
  p1 = p1
  p2 = p2
  c1 = c1
  v1 = v1
  v2 = v2
  h1 = h1
  h2 = h2
  k1 = k1
  k2 = k2
  u1 = u1
  Trip = {t1}
  Driver = {d1, d2}
  NoDriver = NoDriver
  Server = {s1, s2}
  Position = {p1, p2}
  MaxRequests = 2
  RoomTrip = {t1, t2}
  Client = {c1}
  Unit = {u1}
  Route = {{u1}, {}}
  MaxMovements = 2
  Vehicle = {v1, v2}
  Plate = {"A", "B"}
  NoPlate = NoPlate
  Holder = {h1, h2}
  Clerk = {k1, k2}
  MaxAssignments = 2
  MaxReleases = 2
  VehicleStatus = {"ACTIVE"}
INVARIANTS
  InOnePlace
  OnlyItsDriver
  OneDriverOneVehicle
PROPERTIES
  EndedTripFallsSilent
  BufferIsFlushed
  RevokedClientLeaves
CHECK_DEADLOCK FALSE
