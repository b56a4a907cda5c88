SPECIFICATION Spec
CONSTANTS
  p1 = p1  p2 = p2  m1 = m1  m2 = m2  good = good  bad = bad
  None = None
  Procs = {p1, p2}
  Jobs = {1}
  Msgs = {m1, m2}
  Results = {good, bad}
  Good = {good}
  MaxAttempts = 2
  WallSeconds = 3
  LeaseSeconds = 2
  ScanLimit = 1
  DrainLimit = 1
  MaxLocalClaims = 2
  MaxClock = 3
  EnqueueBy = 0
  Reachable = {}
  MaxFaults = 0
  Offered <- AllCalls
SYMMETRY Symmetry
INVARIANTS AcceptedUnderCurrentClaim LiveClaimIsCurrent BudgetsAreKept
PROPERTY OutcomeIsFinal
CHECK_DEADLOCK FALSE
