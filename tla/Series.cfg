SPECIFICATION FairSpec
CONSTANTS
  MaxRows = 4
  PauseCap = 1
  MaxCommands = 2
  MaxDeaths = 1
  MaxHostCrashes = 1
INVARIANTS
  
  FailuresArePaused
PROPERTIES
  PauseHolds
  CancelHolds
  SpentSessionsClose
CHECK_DEADLOCK FALSE
