SPECIFICATION FairSpec
CONSTANTS
  Width = 9
  Pow2 <- MCPow2
  ByteBits = 3
  Bytes = 3
  Parameters <- Deployments
  Observations <- Thresholds
INVARIANTS
  NeverTheWrongWay
  MovesAtItsPace
  BytesAgree
PROPERTIES
  SlowBlocksRecover
  FastBlocksRampUp
