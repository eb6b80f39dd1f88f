SPECIFICATION Spec
CONSTANTS
  g1 = g1
  c1 = c1
  c2 = c2
  w1 = w1
  w2 = w2
  None = None
  Gates = {g1}
  Customers = {c1, c2}
  Passwords = {w1}
  LongNames = {}
  Validities <- AllValidities
  Relay = TRUE
  ShortWrites = FALSE
  InPlaceRestart = FALSE
  MaxTime = 2
  MaxRequests = 3
  MaxRestarts = 1
INVARIANTS
  DiskHonoursAnswers
  SentIsTable
