SPECIFICATION MCSpec
CONSTANTS
  Client = {c1, c2}
  Painter = {a1, a2}
  MaxCodes = 3
  MaxDelayed = 1
  MaxFiles = 4
  MaxNow = 2
  Ttl = 2
  Cooldown = 1
  MaxRequests = 2
  MaxAttempts = 1
INVARIANTS
  LastMailedCodeCounts
  PictureIsThere
CHECK_DEADLOCK FALSE
