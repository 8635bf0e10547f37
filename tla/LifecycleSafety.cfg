SPECIFICATION Spec
CONSTANTS
  Messages = {m1, m2, m3}
  Accumulated = {m2}
  Scripted = {m1}
  RunnerCommands = {m3}
  ClearCommands = {m3}
  PromptLimit = 2
  MaxTries = 1
  MaxCrashes = 1
  MaxHostCrashes = 1
  CountCrashes = TRUE
INVARIANTS
  OneContainer
  DatabasesAgree
  
PROPERTIES
  ChargedOnlyAfterDeath
