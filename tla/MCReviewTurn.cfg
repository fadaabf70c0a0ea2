SPECIFICATION Spec
CONSTANTS
  i1 = i1
  c1 = c1
  c2 = c2
  c3 = c3
  none = none
  closed = closed
  Inputs <- McInputs
  Contents <- McContents
  Nothing <- none
  NoExchange <- closed
  MaxCycles = 1
  MaxWindows = 2
  MaxRuns = 2
  MaxEvents = 2
SYMMETRY McSymmetry
INVARIANTS TypeOK FlagsOwned LedgerBacked NoLostWake
PROPERTIES AutomaticCloseIsClean
