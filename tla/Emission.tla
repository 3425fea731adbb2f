------------------------------ MODULE Emission ------------------------------
(***************************************************************************)
(* What the program promises to those who never look at a block: rewards   *)
(* leave the vault one at a time, in the order of the schedule, each split *)
(* between one miner and the treasury.  height counts the blocks opened,   *)
(* mined the blocks that paid.  The on-chain program of Blockmine.tla      *)
(* implements this specification.                                          *)
(***************************************************************************)
EXTENDS Rewards, Functions, FiniteSets

CONSTANTS
  Miners,
  FeeBps          \* the treasury's part of a reward, in ten thousandths

ASSUME PayeeAssumption == IsFiniteSet(Miners) /\ FeeBps \in 0 .. 10000

VARIABLES
  height,         \* number of the current block
  mined,          \* blocks settled
  earned,         \* miner -> net rewards
  treasury        \* treasury's share of the rewards

emissionVars == <<height, mined, earned, treasury>>

TreasuryShare(reward) == (reward * FeeBps) \div 10000

EmissionTypeOK ==
  /\ height \in Nat
  /\ mined \in 0 .. RewardedBlocks
  /\ earned \in [Miners -> Nat]
  /\ treasury \in Nat

EmissionInit ==
  /\ height = 0
  /\ mined = 0
  /\ earned = [m \in Miners |-> 0]
  /\ treasury = 0

\* Block number height pays m the next reward of the schedule.
Settle(m) ==
  LET reward == RewardForBlock(mined)
      fee == TreasuryShare(reward)
  IN  /\ reward > 0
      /\ height' = height + 1
      /\ mined' = mined + 1
      /\ earned' = [earned EXCEPT ![m] = @ + reward - fee]
      /\ treasury' = treasury + fee

\* An unsolved block is replaced and pays nothing.
Reopen ==
  /\ RewardForBlock(mined) > 0
  /\ height' = height + 1
  /\ UNCHANGED <<mined, earned, treasury>>

EmissionNext == Reopen \/ \E m \in Miners : Settle(m)

EmissionSpec == EmissionInit /\ [][EmissionNext]_emissionVars

----------------------------------------------------------------------------
\* What the miners and the treasury have received between them is, at every block,
\* what the cumulative column of the published curve says: the split loses nothing
\* and no edge of an era pays a reward of its neighbour.
PaidBySchedule == SumFunctionOnSet(earned, Miners) + treasury = EmittedBefore(mined)

\* Rewards are paid until the whole emission is out, and not one block longer:
\* no era, edge or tail leaves a remainder in the vault or asks for more.
ExhaustedExactly ==
  /\ EmittedBefore(mined) <= TotalProtocolEmissions
  /\ RewardForBlock(mined) = 0 <=> EmittedBefore(mined) = TotalProtocolEmissions
=============================================================================
