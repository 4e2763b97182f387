SPECIFICATION FairSpec
CONSTANTS
  q1 = q1
  q2 = q2
  none = none
  c1 = c1
  c2 = c2
  Quotation = {q1}
  Manual = {}
  NoQuotation = none
  Session = {c1, c2}
  Op = {"approve", "accept", "reject", "cancel", "convert"}
  MaxShipments = 1
INVARIANTS
  NothingWithoutAgreement
PROPERTIES
  StaleCopyGoes
CHECK_DEADLOCK FALSE
