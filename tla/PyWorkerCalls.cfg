SPECIFICATION PyFairSpec
CONSTANTS
  t1 = t1
  t2 = t2
  t3 = t3
  t4 = t4
  s1 = s1
  Task <- FourTasks
  Needs <- FirstNeedsSecond
  Status <- OneStatus
  MaxConcurrentTasks = 1
  PoolSize = 4
INVARIANTS
  PyTypeOK
  PyStatusIsExact
  PermitsAreAccounted
PROPERTIES
  EveryCallIsAnswered
  QueueDrains
CHECK_DEADLOCK FALSE
