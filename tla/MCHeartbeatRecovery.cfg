\* A seller that goes offline, comes back and goes offline again under one watch.
CONSTANTS
  MinDeadlineDelta = 2
  MaxDeadlineDelta = 5
  GracePeriod = 3
  SuspectToDead = 1
  Settings <- MCLate
  PollInterval = 1
  Lateness = 1
  Start = 11
  Horizon = 18
  MaxLives = 2
SPECIFICATION HeartbeatSpec
PROPERTIES EveryCrossingEmits
CHECK_DEADLOCK FALSE
