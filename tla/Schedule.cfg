SPECIFICATION MCSpec
CONSTANTS
  Miners = {"miner"}
  FeeBps = 100
  RewardEras <- REWARD_ERAS
  EmittedAtEraStart <- CumulativeEmissions
  ScarcityStartBlock <- SCARCITY_START_BLOCK
  ScarcityBaseReward <- SCARCITY_BASE_REWARD
  ScarcityFullRewardBlocks <- SCARCITY_FULL_REWARD_BLOCKS
  ScarcityFinalPartialReward <- SCARCITY_FINAL_PARTIAL_REWARD
  TotalProtocolEmissions <- TOTAL_PROTOCOL_EMISSIONS
INVARIANTS
  PaidBySchedule
  ExhaustedExactly
CHECK_DEADLOCK FALSE
