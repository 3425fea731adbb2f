------------------------------ MODULE Rewards ------------------------------
(***************************************************************************)
(* The emission schedule of math/rewards.rs.  Fourteen eras cover the      *)
(* blocks below the start of Scarcity, which is a capped tail: a number of *)
(* full rewards, one partial reward, then nothing.  The schedule is        *)
(* indexed by the number of blocks settled so far, not by block numbers.   *)
(*                                                                         *)
(* The table is a parameter.  EmittedAtEraStart is the column "Cumulative  *)
(* emissions" of MINING_CURVE.md: what the eras before each one emit.      *)
(***************************************************************************)
EXTENDS Integers, Sequences

CONSTANTS
  RewardEras,                 \* sequence of [start_block, end_block_exclusive, reward]
  EmittedAtEraStart,          \* one entry per era, and one for Scarcity
  ScarcityStartBlock,
  ScarcityBaseReward,
  ScarcityFullRewardBlocks,
  ScarcityFinalPartialReward,
  TotalProtocolEmissions

Eras == 1 .. Len(RewardEras)

\* The eras are contiguous, from block 0 to the start of Scarcity.
EraTableAssumption ==
  /\ RewardEras \in Seq([start_block: Nat, end_block_exclusive: Nat, reward: Nat \ {0}])
  /\ Len(RewardEras) > 0
  /\ RewardEras[1].start_block = 0
  /\ RewardEras[Len(RewardEras)].end_block_exclusive = ScarcityStartBlock
  /\ \A i \in Eras : RewardEras[i].start_block < RewardEras[i].end_block_exclusive
  /\ \A i \in Eras \ {1} :
       RewardEras[i].start_block = RewardEras[i - 1].end_block_exclusive

\* The tail, the cumulative column, and the total they add up to.
EmissionAssumption ==
  /\ ScarcityStartBlock \in Nat
  /\ ScarcityFullRewardBlocks \in Nat
  /\ ScarcityBaseReward \in Nat \ {0}
  /\ ScarcityFinalPartialReward \in Nat \ {0}
  /\ EmittedAtEraStart \in [1 .. Len(RewardEras) + 1 -> Nat]
  /\ EmittedAtEraStart[1] = 0
  /\ \A i \in Eras :
       EmittedAtEraStart[i + 1] = EmittedAtEraStart[i]
         + (RewardEras[i].end_block_exclusive - RewardEras[i].start_block)
             * RewardEras[i].reward
  /\ TotalProtocolEmissions =
       EmittedAtEraStart[Len(RewardEras) + 1]
         + ScarcityFullRewardBlocks * ScarcityBaseReward
         + ScarcityFinalPartialReward

ASSUME ScheduleAssumption == EraTableAssumption /\ EmissionAssumption

\* A mistake at the edge of an era.
InRangeToTheEnd(i, n) ==
  RewardEras[i].start_block <= n /\ n <= RewardEras[i].end_block_exclusive

InRange(i, n) ==
  RewardEras[i].start_block <= n /\ n < RewardEras[i].end_block_exclusive

\* The first era in the table that holds block n; the last one if none does.
EraIndex(n) ==
  IF \E i \in Eras : InRange(i, n)
  THEN CHOOSE i \in Eras : InRange(i, n) /\ \A j \in 1 .. i - 1 : ~InRange(j, n)
  ELSE Len(RewardEras)

\* Mistakes in the tail: it loses the partial reward, or the partial reward is a
\* full one.
ScarcityRewardCutShort(offset) ==
  IF offset < ScarcityFullRewardBlocks THEN ScarcityBaseReward ELSE 0

ScarcityRewardOneTooMany(offset) ==
  IF offset <= ScarcityFullRewardBlocks THEN ScarcityBaseReward ELSE 0

ScarcityReward(offset) ==
  IF offset < ScarcityFullRewardBlocks THEN ScarcityBaseReward
  ELSE IF offset = ScarcityFullRewardBlocks THEN ScarcityFinalPartialReward
  ELSE 0

RewardForBlock(n) ==
  IF n >= ScarcityStartBlock
  THEN ScarcityReward(n - ScarcityStartBlock)
  ELSE RewardEras[EraIndex(n)].reward

----------------------------------------------------------------------------
\* What the schedule promises, from the cumulative column: the sum of the
\* gross rewards of blocks 0 .. n-1.
EmittedBefore(n) ==
  IF n >= ScarcityStartBlock
  THEN LET offset == n - ScarcityStartBlock
       IN  EmittedAtEraStart[Len(RewardEras) + 1]
             + IF offset <= ScarcityFullRewardBlocks
               THEN offset * ScarcityBaseReward
               ELSE ScarcityFullRewardBlocks * ScarcityBaseReward
                      + ScarcityFinalPartialReward
  ELSE LET i == EraIndex(n)
       IN  EmittedAtEraStart[i]
             + (n - RewardEras[i].start_block) * RewardEras[i].reward

\* The number of blocks that pay anything.
RewardedBlocks == ScarcityStartBlock + ScarcityFullRewardBlocks + 1
=============================================================================
