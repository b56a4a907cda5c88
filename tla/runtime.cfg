SPECIFICATION RuntimeSpec
CONSTANTS
  Requests <- MCRequests
  MaxFiles = 3
  FewFiles = 2
  Binaries <- UpgradedAndRolledBack
  MaxRuns = 2
  Profiles <- MCProfiles
  Vessels <- MCVessels
  Capacity <- MCCapacity
  GoodLinks <- MCGoodLinks
  Missions <- MCMissions
  KnowableValidations <- MCValidations
  KnowableBenchmarks <- MCBenchmarks
  KnowableRuntimes <- MCRuntimes
  ScheduleClock = 1
  MaxRecords = 2
  MaxMeasurements = 3
  ServerRequests <- MCServerRequests
  MaxServerRequests = 2
  MaxCount = 2
  Runners = {w1}
  Importers = {w2}
  ManifestProfiles <- MCManifestProfiles
  Repetitions <- MCRepetitions
  LastBuild = 2
  Imports <- MCImports
  MaxObservations = 2
INVARIANTS
  RuntimeTypeOK
  ChoiceIsMeasured
  NoProbeLeft
  ReportBacked
  OneBuildUnlessRolledBack
  ChoiceIsUncontradicted
  WorkIsOwnedUp
  SuccessIsInTime
  ReplaySelectsMeasured
PROPERTIES
  ReferenceEnds
\* A part stops at its bounds.
CHECK_DEADLOCK FALSE
