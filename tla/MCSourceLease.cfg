SPECIFICATION FairSpec
CONSTANTS
  repo = repo
  left = left
  right = right
  atRepo = atRepo
  atLeft = atLeft
  atRight = atRight
  Landings = {atRepo, atLeft, atRight}
  Roots <- MCRoots
  Overlaps <- MCOverlaps
  RootOf <- MCRootOf
  MaxBlocks = 1
CHECK_DEADLOCK FALSE
INVARIANTS
  MutualExclusion
  ServedInOrder
  LeaseInv
PROPERTIES
  ImplementsAccess
  EveryLandingServed
