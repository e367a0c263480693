SPECIFICATION ClusterFairSpec
CONSTANTS
  u1 = u1
  a1 = a1
  n1 = n1
  n2 = n2
  c1 = c1
  f1 = f1
  ZeroNode = ZeroNode
  NoUid = NoUid
  ZeroName = ZeroName
  Uid <- OneUid
  Node <- TwoNodes
  Client <- OneClient
  Name <- OneName
  Home <- FirstNode
  Task <- AnyNode
  Argument <- OneArgument
  MaxTasks = 1
  Pins <- SecondNode
  SqlVariables = 8
  MaxCopies = 1
  MaxPending = 1
  MaxSchedules = 1
  MaxRestarts = 1
  MaxFuncRestarts = 1
  MaxFaults = 1
PROPERTIES
  TaskSurvivesKill
CHECK_DEADLOCK FALSE
