SPECIFICATION Spec
CONSTANTS
  t1 = t1
  t2 = t2
  t3 = t3
  e1 = e1
  e2 = e2
  wide = wide
  narrow = narrow
  None = None
  Tasks <- McTasks
  Entries <- McEntries
  Configs <- McConfigs
  Route <- McRoute
  Capacity <- McCapacity
  MaxWorkers <- McMaxWorkers
  Restored <- McRestored
  Pinned <- McPinned
  Groups <- McGroups
  Derived <- McDerived
  MaxWorks <- McWorks
  MaxTasks = 2
  MaxFaults = 1
CHECK_DEADLOCK FALSE
INVARIANTS TypeOK SlotsAccounted WaitersBlocked NoStrandedTask
PROPERTIES LaunchesWhatWasSelected EveryWaiterAnswered
