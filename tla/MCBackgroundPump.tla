-------------------------- MODULE MCBackgroundPump --------------------------
(* Three tasks in two groups and two entries.  The first was taken over    *)
(* from an earlier session, is pinned to the second entry and is continued *)
(* twice; the second fails over under a copy of the settings, the third    *)
(* under those in force.  The second settings prefer the other entry, have *)
(* one worker, and none for the pinned task.                               *)
EXTENDS BackgroundPump

CONSTANTS t1, t2, t3, e1, e2, wide, narrow

McTasks    == {t1, t2, t3}
McGroups   == <<{t1}, {t2, t3}>>
McRestored == {t1}
McDerived  == {t2}
McPinned   == {t1}
McEntries  == {e1, e2}
McConfigs  == {wide, narrow}
McRoute ==
  [c \in McConfigs |->
     [t \in Tasks |->
        CASE c = wide   -> IF t = t1 THEN <<e2>> ELSE <<e1, e2>>
          [] c = narrow -> IF t = t1 THEN <<>> ELSE <<e2, e1>>]]
McCapacity ==
  [c \in McConfigs |-> [e \in McEntries |-> IF c = wide /\ e = e1 THEN 2 ELSE 1]]
McWorks == [t \in Tasks |-> IF t = t1 THEN 3 ELSE 1]
McMaxWorkers == [c \in McConfigs |-> IF c = wide THEN 2 ELSE 1]
=============================================================================
