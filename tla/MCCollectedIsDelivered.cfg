SPECIFICATION Spec
CONSTANTS
  p1 = p1
  p2 = p2
  s1 = s1
  r1 = r1
  r2 = r2
  hub = hub
  dest = dest
  Parcel = {p1, p2}
  Shipment = {s1}
  ShipmentOf <- OneShipment
  Unit = {hub, dest}
  Origin = hub
  Destination = dest
  Request = {r1, r2}
  MaxVersion = 6
SYMMETRY Interchangeable
INVARIANTS
  CollectedIsDelivered
CHECK_DEADLOCK FALSE
