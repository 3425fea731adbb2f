SPECIFICATION FairSpec
CONSTANTS
  old = old
  new = new
  NoNonce = NoNonce
  NonceSpace = 12
  Engines <- Both
  BatchSize = 3
  GpuBatchSize = 3
  Threads = 2
  MaxWorkGroupSize = 2
  RequestedLocalWorkSize = 2
  Challenges = {old, new}
  Targets = {1, 2}
  StartNonces <- AtTheEnd
  HashFunctions <- TwoWinners
  MaxRounds = 2
INVARIANTS
  SolutionIffThereIsOne
  NoNonceTwice
PROPERTY RoundEnds
CHECK_DEADLOCK FALSE
