SPECIFICATION Spec
CONSTANTS
  p1 = p1
  p2 = p2
  p3 = p3
  p4 = p4
  Instances = {p1, p2, p3, p4}
  NoLease = NoLease
SYMMETRY InstanceSymmetry
CHECK_DEADLOCK FALSE
INVARIANTS
  TypeOK
  SerialExclusion
  ReleasedNeverReturns
