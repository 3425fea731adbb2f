SPECIFICATION Spec
CONSTANTS
  ann = ann
  bob = bob
  dev = dev
  nick = nick
  NoWallet = NoWallet
  RewardVault = RewardVault
  NoNickname = NoNickname
  Wallets = {ann, bob}
  Treasury = ann
  Nicknames = {}
  RewardEras <- OneEra
  EmittedAtEraStart <- OneEraEmitted
  ScarcityStartBlock = 1
  ScarcityBaseReward = 50
  ScarcityFullRewardBlocks = 1
  ScarcityFinalPartialReward = 30
  TotalProtocolEmissions <- OneEraTotal
  Width <- MCWidth
  Pow2 <- MCPow2
  Hashes = {0}
  MinDifficultyBits = 1
  InitialDifficultyBits = 2
  MaxDifficultyBits = 3
  TargetBlockTimeSec = 4
  BlockTtlSec = 0
  TreasuryFeeBps = 100
  SubmitFeeLamports = 1
  SessionExpiries = {0, 2}
  SessionCaps = {0, 2}
  TransferAmounts = {}
  VaultFundings <- OneEraFunded
  InitialLamports <- Budget
  MaxTime = 3
INVARIANTS
  GrantWithinCap
  GrantCountsItsOwnUses
  FeesPaidBySigner
