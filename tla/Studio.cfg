SPECIFICATION Spec
CONSTANTS
  FreshKeys = {k1}
  ForeignKeys = {old}
  k1 = k1
  old = old
  MaxFailures = 2
INVARIANTS
  OneWalletAtATime
  BalanceIsOfActiveWallet
  AcknowledgedWasShown
  SessionPhraseRestores
PROPERTIES
  KeysAreKept
CHECK_DEADLOCK FALSE
