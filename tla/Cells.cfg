SPECIFICATION FairSpec
CONSTANTS
  Sessions = {s1, s2}
  NoSession = NoSession
  MaxStarts = 2
  MaxRows = 3
  MaxAnswers = 1
  PumpFailures = 2
  CheckEvery = 1
  MaxFaults = 1
INVARIANTS
  HeldByTheRunning
  BelievedIsThere
PROPERTIES
  DeadServiceNoticed
CHECK_DEADLOCK FALSE
