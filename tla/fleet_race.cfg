SPECIFICATION Spec
CONSTANTS
  c1 = c1  c2 = c2  v1 = v1  v2 = v2  l1 = l1  l2 = l2  a1 = a1  a2 = a2  k1 = k1  k2 = k2
  None = None
  Controllers = {c1, c2}
  Vessels = {v1}
  LeaseIds = {l1, l2}
  Attempts = {a1}
  Missions = {k1}
  MaxClock = 1
  Offered <- TwoWriters
  Offers <- MCOffers
PROPERTY StartOnAvailableLease
CHECK_DEADLOCK FALSE
