SPECIFICATION FairSpec
CONSTANTS
  Containers <- MCContainers
  RecoveryId <- MCRecoveryId
  HashNode <- AllToZero
  RecoveryAmount = 2
  Self = 0
  Interval = 2
  Misses = 2
  MaxDelay = 1
  MaxOversleep = 1
  DockerTimeout = 5
  MaxCrashes = 2
  MaxFailures = 1
INVARIANTS TypeOK FirstRestartJustified
PROPERTIES HeardIsNotRestarted DownComesBack
