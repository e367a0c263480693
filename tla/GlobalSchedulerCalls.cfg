SPECIFICATION GSFairSpec
CONSTANTS
  n1 = n1
  n2 = n2
  u1 = u1
  task = task
  f1 = f1
  near = near
  least = least
  ZeroNode = ZeroNode
  ZeroUid = ZeroUid
  ZeroName = ZeroName
  Node <- TwoNodes
  Uid <- ArgumentAndTask
  Name <- OneName
  Call <- TwoCalls
  Request <- Requests
  Report <- Reports
  MaxConcurrentTasks = 2
  LiveNodeTimeout = 1
  ObjectSize <- Sizes
  MaxCopies = 2
INVARIANTS
  GSTypeOK
  PickIsBest
  FullNodeIsNotPreferred
  LocalityPickIsBest
PROPERTIES
  EveryCallIsDecided
CHECK_DEADLOCK FALSE
