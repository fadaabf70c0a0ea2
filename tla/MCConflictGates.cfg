SPECIFICATION Spec
CONSTANTS
  repo = repo
  sub = sub
  other = other
  inSub = inSub
  inRepo = inRepo
  inOther = inOther
  Landings = {inSub, inRepo, inOther}
  Roots <- MCRoots
  Overlaps <- MCOverlaps
  RootOf <- MCRootOf
  GateOf <- MCGateOf
  MaxBlocks = 3
  Cleaners = {c1, c2}
  NoGate = NoGate
  MaxRestarts = 1
SYMMETRY CleanerSymmetry
CHECK_DEADLOCK FALSE
INVARIANTS
  TypeOK
  NoLandingOverGatedMarkers
  BlockedByListedGate
PROPERTIES
  SerialClearsOnlyValidated
