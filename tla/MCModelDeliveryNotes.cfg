SPECIFICATION Spec
CONSTANTS
  Notes = {n1, n2}
  Receipted = {n1}
  InputCount = 0
  Callers = {c1}
  Releasers = {}
  NoDelivery = NoDelivery
  NoProc = NoProc
  MaxRestarts = 1
CHECK_DEADLOCK FALSE
INVARIANTS
  TypeOK
  AtMostOnce
  DeliveredWasSent
PROPERTIES
  ImplementsContract
