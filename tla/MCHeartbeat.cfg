\* Either bus; on the late one ticker, consensus and delivery together take up the grace period.
CONSTANTS
  MinDeadlineDelta = 2
  MaxDeadlineDelta = 5
  GracePeriod = 3
  SuspectToDead = 1
  Settings <- MCSettings
  PollInterval = 1
  Lateness = 1
  Start = 11
  Horizon = 18
  MaxLives = 2
SPECIFICATION HeartbeatSpec
INVARIANTS NoFalseSuspicion HeartbeatsAreTaken WatchReports NewestCounts
CHECK_DEADLOCK FALSE
