SPECIFICATION FairSpec
CONSTANTS
  ann = ann
  bob = bob
  dev = dev
  nick = nick
  NoWallet = NoWallet
  RewardVault = RewardVault
  NoNickname = NoNickname
  Wallets = {ann, dev}
  Treasury = dev
  Nicknames = {nick}
  RewardEras <- MCRewardEras
  EmittedAtEraStart <- MCEmittedAtEraStart
  ScarcityStartBlock = 2
  ScarcityBaseReward = 50
  ScarcityFullRewardBlocks = 1
  ScarcityFinalPartialReward = 30
  TotalProtocolEmissions <- MCTotal
  Width <- MCWidth
  Pow2 <- MCPow2
  Hashes <- MCHashes
  MinDifficultyBits = 1
  InitialDifficultyBits = 2
  MaxDifficultyBits = 4
  TargetBlockTimeSec = 8
  BlockTtlSec = 2
  TreasuryFeeBps = 100
  SubmitFeeLamports = 1
  SessionExpiries = {}
  SessionCaps = {}
  TransferAmounts = {100}
  VaultFundings <- Fundings
  InitialLamports <- Rich
  MaxTime = 8
INVARIANTS
  AccountsAddUp
  ConfigMatchesBlock
  OpenWhileRewardsRemain
  VaultCoversSchedule
PROPERTIES
  StatsNeverReset
  UnsolvableBlockGivesWay
  BlockFixedUnderItsNumber
  ImplementsEmission
  ImplementsBlockChain
  ExpiredBlockIsReplaced
