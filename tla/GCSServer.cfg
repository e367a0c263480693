SPECIFICATION GCSFairSpec
CONSTANTS
  u1 = u1
  n1 = n1
  n2 = n2
  c1 = c1
  ZeroNode = ZeroNode
  NoUid = NoUid
  Uid <- OneUid
  Node <- TwoNodes
  Client <- OneClient
  SqlVariables = 8
  MaxCopies = 1
  MaxPending = 2
  MaxSchedules = 1
  MaxRestarts = 1
INVARIANTS
  GCSTypeOK
  NoStrandedWaiter
  RegeneratesFromLineage
PROPERTIES
  Rendezvous
  DeadTaskIsRescheduled
