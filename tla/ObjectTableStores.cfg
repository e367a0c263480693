SPECIFICATION FairSpec
CONSTANTS
  u1 = u1
  u2 = u2
  n1 = n1
  c1 = c1
  ZeroNode = ZeroNode
  Uid <- TwoUids
  Node <- OneNode
  Client <- OneClient
  SqlVariables = 3
  MaxCopies = 2
  MaxPending = 2
INVARIANTS
  EmptyListMeansNoRows
  StoresNameHolders
PROPERTIES
  StaysDurable
  ForgetsOnlyOnRestart
  BecomesDurable
