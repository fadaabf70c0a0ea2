SPECIFICATION Spec
CONSTANTS
  N = 3
  Op <- MCOp
  LinkTo <- MCNoLink
  MaxEdits = 2
  MaxCrashes = 2
  MaxFaults = 2
CHECK_DEADLOCK FALSE
INVARIANTS
  TypeOK
  OriginalKept
  UndoneIsRestored
  ManualIsJustified
PROPERTIES
  ImplementsContract
