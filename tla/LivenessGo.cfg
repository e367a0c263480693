SPECIFICATION LivenessFairSpec
CONSTANTS
  n1 = n1
  Node <- OneNode
  Timeout = 4
  RpcTicks = 2
  BackoffTicks = 10
  StatusBlocks = FALSE
  MaxErrors = 2
INVARIANTS
  LivenessTypeOK
  HealthyNodeStaysLive
PROPERTIES
  KilledNodeIsNoticed
  RevivedNodeIsLive
