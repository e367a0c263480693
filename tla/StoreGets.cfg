SPECIFICATION LOSFairSpec
CONSTANTS
  u1 = u1
  n1 = n1
  n2 = n2
  g1 = g1
  g2 = g2
  ZeroNode = ZeroNode
  NoChannel = NoChannel
  Uid <- OneUid
  Node <- TwoNodes
  Client <- TwoNodes
  Getter <- TwoGetters
  Request <- CopyAndWait
  SqlVariables = 8
  MaxCopies = 2
  MaxPending = 2
  LiveSets <- AllOrNone
  MaxFaults = 1
INVARIANTS
  LOSTypeOK
  AnnouncedIsStored
  StoredCanBeFound
  SizeMissingOnlyAfterGet
  NoSendOnNil
  OneWakeupPerGet
PROPERTIES
  SomeGetReturns
