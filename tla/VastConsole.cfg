SPECIFICATION FairSpec
CONSTANTS
  Fee = 1
  FallbackFee = 2
  Rent = 1
  MaxSweeps = 2
  Required = 3
  SubmissionCost = 2
  Deposits = {4}
  Amounts = {1, 9}
  MaxSol = 5
  MaxBloc = 1
INVARIANTS
  ReportedIsReceived
  TransferIsCovered
PROPERTY MinesWhenFunded
CHECK_DEADLOCK FALSE
