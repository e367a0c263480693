SPECIFICATION LivenessFairSpec
CONSTANTS
  n1 = n1
  Node <- OneNode
  Timeout = 4
  RpcTicks = 2
  BackoffTicks = 10
  StatusBlocks = TRUE
  MaxErrors = 0
PROPERTIES
  RevivedNodeIsLive
