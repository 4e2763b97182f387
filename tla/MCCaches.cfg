SPECIFICATION MCSpec
CONSTANTS
  Row = {r1, r2}
  Request = {q1}
  Editor = {e1}
  MaxVersion = 2
  MaxLate = 1
  None = None
INVARIANTS
  StaleNeedsAnExcuse
  EveryRowIsAnswered
CHECK_DEADLOCK FALSE
