SPECIFICATION GoFairSpec
CONSTANTS
  t1 = t1
  t2 = t2
  t3 = t3
  Task <- ThreeTasks
  MaxConcurrentTasks = 2
INVARIANTS
  GoTypeOK
  StatusIsExact
  SlotsBelongToTasks
PROPERTIES
  EveryRunEnds
CHECK_DEADLOCK FALSE
