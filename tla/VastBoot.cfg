SPECIFICATION Spec
CONSTANTS
  FreshKeys = {k1, k2}
  GivenKey = given
  k1 = k1
  k2 = k2
  given = given
  Environments = {"Nothing", "Seed", "PrivateKey", "Invalid"}
INVARIANTS
  ShownTogether
  OnlyBackedUpKeys
PROPERTY KeepsTheWallet
