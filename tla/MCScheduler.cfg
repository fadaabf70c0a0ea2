SPECIFICATION Spec
CONSTANTS
  e1 = e1
  Save = Save
  Entries <- McEntries
  OneShots <- McEntries
  MaxMinute = 2
  MaxMenus = 2
  MaxEvents = 2
CHECK_DEADLOCK FALSE
INVARIANTS TypeOK RunsOnce LatchRecorded
PROPERTIES AdmitsCurrentDefinition StartsAlone StartsOnceAMinute
