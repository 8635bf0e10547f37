SPECIFICATION FairSpec
CONSTANTS
  Messages = {m1, m2}
  Accumulated = {}
  Scripted = {m1}
  RunnerCommands = {m2}
  ClearCommands = {}
  PromptLimit = 2
  MaxTries = 2
  MaxCrashes = 2
  MaxHostCrashes = 1
  CountCrashes = TRUE
PROPERTIES
  ImplementsLedger
  
  
