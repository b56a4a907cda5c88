SPECIFICATION FairSpec
CONSTANTS
  MaxSessions = 2
  MaxToggles = 2
INVARIANTS TypeOK NoOrphans ShownSessionExists PausedWhileHidden
PROPERTY StopTakesEffect
CHECK_DEADLOCK FALSE
