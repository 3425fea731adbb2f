SPECIFICATION Spec
CONSTANTS
  me = me
  rival = rival
  Miners = {me, rival}
  Me = me
  BlockTtlSec = 0
  Skew <- Right
  NodesMayLag = {FALSE, TRUE}
  MaxNumber = 3
  MaxTime = 1
INVARIANTS
  SessionIsWalletsGrowth
  AcceptedAreCounted
CHECK_DEADLOCK FALSE
