SPECIFICATION Spec
CONSTANTS
  p1 = p1  p2 = p2  m1 = m1  m2 = m2  good = good  bad = bad
  None = None
  Procs = {p1, p2}
  Jobs = {1}
  Msgs = {m1, m2}
  Results = {good, bad}
  Good = {good}
  MaxAttempts = 2
  WallSeconds = 2
  LeaseSeconds = 1
  ScanLimit = 1
  DrainLimit = 1
  MaxLocalClaims = 1
  MaxClock = 2
  EnqueueBy = 0
  Reachable = {}
  MaxFaults = 1
  Offered <- CoreCalls
SYMMETRY Symmetry
INVARIANTS TypeOK CompletionReplayable AcksAreDurable NotificationsTellOutcome
  TriggerNotLost
PROPERTY ImplementsFlashJob
CHECK_DEADLOCK FALSE
