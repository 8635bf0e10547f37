SPECIFICATION FairSpec
CONSTANTS
  r1 = r1
  r2 = r2
  r3 = r3
  s1 = s1
  s2 = s2
  Rows = {r1, r2, r3}
  Sessions = {s1, s2}
  SessionOf <- TwoSessions
  NoSession = NoSession
  TaskSessions = {s2}
  Denials = {r2}
  WithFiles = {r1}
  Unroutable = {r3}
  Restricted = {r2}
  MaxAttempts = 2
  MaxStarts = 1
  MaxFaults = 1
  MaxHostCrashes = 1
INVARIANTS
  DeliveredWasShown
  
PROPERTIES
  ShownTwiceOnlyAfterFailure
  RowsSettle
