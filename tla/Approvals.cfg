SPECIFICATION FairSpec
CONSTANTS
  u1 = u1
  Approvals = {a1, a2}
  Users = {u1}
  ApproverOf <- OneAdmin
  Unhandled = {a2}
  Clicks = {c1, c2}
  NoApproval = NoApproval
  MaxHostCrashes = 1
INVARIANTS
  NoSilentEnd
PROPERTIES
  RejectedNeverApplied
  HoldsEnd
CHECK_DEADLOCK FALSE
