SPECIFICATION Spec
CONSTANTS
  N = 3
  Op <- MCLinkOp
  LinkTo <- MCLink
  MaxEdits = 0
  MaxCrashes = 1
  MaxFaults = 0
CHECK_DEADLOCK FALSE
INVARIANTS
  RecoveredRestoresAll
