SPECIFICATION Spec
CONSTANTS
  MaxSessions = 2
  MaxToggles = 1
INVARIANT StoppedMeansNoWorker
CHECK_DEADLOCK FALSE
