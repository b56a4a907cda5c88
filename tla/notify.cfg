SPECIFICATION FairSpec
CONSTANTS
  p1 = p1  p2 = p2  m1 = m1  m2 = m2  good = good  bad = bad
  None = None
  Procs = {p1, p2}
  Jobs = {1, 2}
  Msgs = {m1, m2}
  Results = {good}
  Good = {good}
  MaxAttempts = 1
  WallSeconds = 1
  LeaseSeconds = 1
  ScanLimit = 1
  DrainLimit = 1
  MaxLocalClaims = 1
  MaxClock = 0
  EnqueueBy = 0
  Offered <- ServeAndRecover
  Reachable = {2}
  MaxFaults = 0
PROPERTIES NotificationDelivered
CHECK_DEADLOCK FALSE
