SPECIFICATION FairSpec
CONSTANTS
  me = me
  rival = rival
  Miners = {me}
  Me = me
  BlockTtlSec = 1
  Skew <- Fast
  NodesMayLag = {FALSE}
  MaxNumber = 2
  MaxTime = 3
PROPERTIES
  FollowsTheChain
  StopEndsBothThreads
CHECK_DEADLOCK FALSE
