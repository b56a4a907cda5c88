SPECIFICATION WorkSpec
CONSTANTS
  Callers = {k1, k2}
  Submissions = {good, good2, bad, nan}
  Sound = {good, good2}
  Unencodable = {nan}
  NoSubmission = none
  BudgetAttempts = 2
  BudgetSeconds = 3
  FixtureSeconds = 2
  FixtureClock = 4
  Candidates = {c1, c2}
  NoCandidate = nocandidate
  Contract <- MCContract
  Artifacts = {"artifact"}
  Tools = {"read", "bash", "edit"}
  RecentWindow = 3
  RepeatedCallLimit = 3
  ConsecutiveLimit = 3
  RepeatedFailureLimit = 2
  MaxNoProgress = 3
  MaxSteps = 5
  Texts <- MCTexts
  FailureIds <- MCFailureIds
  LineSize <- MCLineSize
  HeaderSize = 3
  TitleSize = 2
  DigestSizes = {2, 7, 10}
  MaxEvents = 3
  Members = {n1, n2, o1}
  Participants = {n1, n2}
  Scopes = {s1, s2}
  NoChoice = nochoice
INVARIANTS
  WorkTypeOK
  AcceptedLeaseStays
  AcceptedCandidateHolds
  MonitorSeesHistory
  CheckpointSaysLog
  DigestIsFull
  EveryoneHeard
PROPERTIES
  AcceptedWithinBudget
  FixtureKeepsPromise
\* A part stops at its bounds.
CHECK_DEADLOCK FALSE
