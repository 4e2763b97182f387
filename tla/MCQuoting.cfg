SPECIFICATION Spec
CONSTANTS
  q1 = q1
  q2 = q2
  none = none
  c1 = c1
  c2 = c2
  Quotation = {q1, q2}
  Manual = {q2}
  NoQuotation = none
  Session = {c1, c2}
  Op = {"approve", "requestPrice", "submitPrice"}
  MaxShipments = 1
INVARIANTS
  OneAgreement
  AgreementHasPrice
CHECK_DEADLOCK FALSE
