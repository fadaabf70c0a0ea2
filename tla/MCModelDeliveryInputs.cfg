SPECIFICATION Spec
CONSTANTS
  Notes = {}
  Receipted = {}
  InputCount = 2
  Callers = {c1}
  Releasers = {r1, r2}
  NoDelivery = NoDelivery
  NoProc = NoProc
  MaxRestarts = 1
CHECK_DEADLOCK FALSE
SYMMETRY ReleaserSymmetry
INVARIANTS
  CancelledNeverSent
PROPERTIES
  NeverOvertaken
