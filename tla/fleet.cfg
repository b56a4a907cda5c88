SPECIFICATION Spec
CONSTANTS
  c1 = c1  c2 = c2  v1 = v1  v2 = v2  l1 = l1  l2 = l2  a1 = a1  a2 = a2  k1 = k1  k2 = k2
  None = None
  Controllers = {c1, c2}
  Vessels = {v1, v2}
  LeaseIds = {l1, l2}
  Attempts = {a1, a2}
  Missions = {k1, k2}
  MaxClock = 2
  Offered <- OneWriter
  Offers <- MCOffers
SYMMETRY Symmetry
INVARIANTS TypeOK MissionTracksAttempts LostLeaseEndsAttempts
PROPERTY EndIsFinal
CHECK_DEADLOCK FALSE
