SPECIFICATION ClusterFairSpec
CONSTANTS
  u1 = u1
  a1 = a1
  n1 = n1
  n2 = n2
  c1 = c1
  f1 = f1
  ZeroNode = ZeroNode
  NoUid = NoUid
  ZeroName = ZeroName
  Uid <- OneUid
  Node <- TwoNodes
  Client <- OneClient
  Name <- OneName
  Home <- FirstNode
  Task <- NearArgument
  Argument <- OneArgument
  MaxTasks = 1
  Pins <- SecondNode
  SqlVariables = 1
  MaxCopies = 1
  MaxPending = 1
  MaxSchedules = 1
  MaxRestarts = 1
  MaxFuncRestarts = 1
  MaxFaults = 1
INVARIANTS
  ClusterTypeOK
  EndsOnlyAfterFault
  RunningIsProtected
PROPERTIES
  TaskIsAnnounced
  WaiterIsAnswered
CHECK_DEADLOCK FALSE
