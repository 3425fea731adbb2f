SPECIFICATION Spec
CONSTANTS
  BlockhashLife = 1
  SenderUrls = {TRUE, FALSE}
  MaxSlot = 3
INVARIANTS
  InstructionHasItsAccounts
PROPERTIES
  ImplementsDelivery
CHECK_DEADLOCK FALSE
