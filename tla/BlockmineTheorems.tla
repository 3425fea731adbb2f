------------------------- MODULE BlockmineTheorems -------------------------
(***************************************************************************)
(* Theorems about the on-chain program, for every deployment: any          *)
(* schedule, width of hashes, set of wallets, TTL and arguments.           *)
(*                                                                         *)
(* First the operators of the crate's math module.  The schedule adds up,  *)
(* for every era table that satisfies ScheduleAssumption: each block's     *)
(* reward is the next step of the cumulative sum, the sum never passes the *)
(* total, and rewards stop exactly when it is reached.  What holds of the  *)
(* difficulty is taken from RetargetTheorems.  Then the program: its       *)
(* accounts, difficulty, emission, grants, books, fees and events.         *)
(***************************************************************************)
EXTENDS BlockmineAudit, Emission, FiniteSetTheorems, TLAPS

----------------------------------------------------------------------------
(* The deployment, and what RetargetTheorems says of its difficulty *)

\* The constants, as the proofs use them.
LEMMA Deployment ==
  /\ Treasury \in Wallets /\ RewardVault \notin Wallets
  /\ MinDifficultyBits \in Bits /\ InitialDifficultyBits \in Bits
  /\ MaxDifficultyBits \in Bits
  /\ MinDifficultyBits <= InitialDifficultyBits
  /\ InitialDifficultyBits <= MaxDifficultyBits
  /\ TreasuryFeeBps = 100 /\ TargetBlockTimeSec \in Nat /\ BlockTtlSec \in Int
  /\ SubmitFeeLamports \in Nat
  /\ SessionExpiries \subseteq Nat /\ SessionCaps \subseteq Nat
  /\ TransferAmounts \subseteq Nat /\ VaultFundings \subseteq Nat
  /\ InitialLamports \in [Wallets -> Nat]
BY WalletAssumption, DeploymentAssumption
   DEF WalletAssumption, DeploymentAssumption, ParameterAssumption

\* The life of the difficulty the config holds, as Retarget.tla has it: the program's
\* parameters, and any time a block may take.  Bytes play no part in what is said of it.
Parameters ==
  [min_bits |-> MinDifficultyBits, max_bits |-> MaxDifficultyBits,
   expected_seconds |-> TargetBlockTimeSec]

Life == INSTANCE RetargetTheorems WITH
  Parameters <- {Parameters}, Observations <- Nat \ {0}, ByteBits <- 1, Bytes <- Width,
  parameters <- Parameters, observed <- 0,
  difficulty <- [difficulty_bits |-> config.difficulty_bits,
                 target |-> config.difficulty_target]

\* The deployment is one that module speaks of.
LEMMA LifeAssumptions ==
  Life!WidthAssumption /\ Life!BytesAssumption /\ Life!RetargetAssumption
<1>1. Width \in Nat /\ Width >= 2
  BY WidthAssumption DEF WidthAssumption
<1>2. Life!WidthAssumption
  BY WidthAssumption DEF WidthAssumption, Life!WidthAssumption
<1>3. Life!BytesAssumption
  BY <1>1 DEF Life!BytesAssumption
<1>4. Life!Bits = Bits
  BY DEF Life!Bits, Bits
<1>5. MinDifficultyBits \in Bits /\ MaxDifficultyBits \in Bits /\ TargetBlockTimeSec \in Nat
      /\ MinDifficultyBits <= MaxDifficultyBits
  BY <1>1, Deployment DEF Bits
<1>6. Life!RetargetAssumption
  BY <1>4, <1>5 DEF Life!RetargetAssumption, Parameters
<1>7. QED BY <1>2, <1>3, <1>6

\* The instance computes with the same arithmetic.
LEMMA SameArithmetic ==
  /\ Life!Bits = Bits
  /\ \A bits : Life!TargetFromDifficultyBits(bits) = TargetFromDifficultyBits(bits)
  /\ \A target : Life!DifficultyBitsFromTarget(target) = DifficultyBitsFromTarget(target)
  /\ \A a, b : Life!Greatest(a, b) = Greatest(a, b)
  /\ \A a, b : Life!Least(a, b) = Least(a, b)
  /\ \A target, seconds, expected, low, high :
       Life!NextTarget(target, seconds, expected, low, high)
         = NextTarget(target, seconds, expected, low, high)
<1>1. /\ \A a, b : Life!Greatest(a, b) = Greatest(a, b)
      /\ \A a, b : Life!Least(a, b) = Least(a, b)
      /\ \A a, b, c : Life!ClampTarget(a, b, c) = ClampTarget(a, b, c)
      /\ \A a : Life!TargetFromDifficultyBits(a) = TargetFromDifficultyBits(a)
      /\ Life!TargetScaleDenominatorBps = TargetScaleDenominatorBps
      /\ Life!MaxTarget = MaxTarget
  BY DEF Life!Greatest, Greatest, Life!Least, Least, Life!ClampTarget, ClampTarget,
         Life!TargetFromDifficultyBits, TargetFromDifficultyBits,
         Life!TargetScaleDenominatorBps, TargetScaleDenominatorBps, Life!MaxTarget, MaxTarget
<1>2. \A a, b : Life!SmoothedObserved(a, b) = SmoothedObserved(a, b)
  BY <1>1 DEF Life!SmoothedObserved, SmoothedObserved
<1>3. \A a, b : Life!ClampedObserved(a, b) = ClampedObserved(a, b)
  BY <1>1, <1>2 DEF Life!ClampedObserved, ClampedObserved
<1>4. \A a, b : Life!RatioBps(a, b) = RatioBps(a, b)
  BY <1>1, <1>3 DEF Life!RatioBps, RatioBps
<1>5. \A a, b, c : Life!ScaleTarget(a, b, c) = ScaleTarget(a, b, c)
  BY <1>1 DEF Life!ScaleTarget, ScaleTarget
<1>6. ASSUME NEW target, NEW seconds, NEW expected, NEW low, NEW high
      PROVE  Life!NextTarget(target, seconds, expected, low, high)
               = NextTarget(target, seconds, expected, low, high)
  BY <1>1, <1>4, <1>5 DEF Life!NextTarget, NextTarget
<1>7. \A target : Life!DifficultyBitsFromTarget(target) = DifficultyBitsFromTarget(target)
  <2>1. \A S : Life!Cardinality(S) = Cardinality(S)
    BY DEF Life!Cardinality, Cardinality
  <2>2. QED BY <2>1 DEF Life!DifficultyBitsFromTarget, DifficultyBitsFromTarget
<1>8. Life!Bits = Bits
  BY DEF Life!Bits, Bits
<1>9. QED BY <1>1, <1>6, <1>7, <1>8

\* So its lemmas are about the operators of this module too: the least number of a set.
LEMMA LeastNat ==
  ASSUME NEW T, T \subseteq Nat, T # {}
  PROVE  \E x \in T : \A y \in T : x <= y
BY LifeAssumptions, Life!LeastNat

\* Induction over a set.
LEMMA SetInduction ==
  ASSUME NEW S, 0 \in S, \A n \in Nat : n \in S => n + 1 \in S
  PROVE  Nat \subseteq S
BY LifeAssumptions, Life!SetInduction

\* The powers, one by one.
LEMMA PowerTypes ==
  /\ Width \in Nat /\ Width >= 2
  /\ \A b \in 0 .. Width : Pow2[b] \in Nat
  /\ \A b \in 0 .. Width - 1 : Pow2[b + 1] = 2 * Pow2[b]
  /\ Pow2[0] = 1
BY LifeAssumptions, Life!PowerTypes

\* More bits never mean a larger target.
LEMMA TargetFalls ==
  ASSUME NEW a \in Bits, NEW b \in Bits, a <= b
  PROVE  /\ TargetFromDifficultyBits(a) \in Nat
         /\ TargetFromDifficultyBits(b) <= TargetFromDifficultyBits(a)
BY LifeAssumptions, SameArithmetic, Life!TargetFalls

\* A retarget stays in its range.
LEMMA RetargetInRange ==
  ASSUME NEW target \in Nat, NEW seconds \in Nat, NEW expected \in Nat,
         NEW min_bits \in Bits, NEW max_bits \in Bits, min_bits <= max_bits
  PROVE  LET next == NextTarget(target, seconds, expected, min_bits, max_bits)
         IN  /\ next \in Nat
             /\ TargetFromDifficultyBits(max_bits) <= next
             /\ next <= TargetFromDifficultyBits(min_bits)
BY LifeAssumptions, SameArithmetic, Life!RetargetInRange

\* A retarget errs on the right side.
LEMMA RetargetDirection ==
  ASSUME NEW seconds \in Nat, NEW expected \in Nat,
         NEW min_bits \in Bits, NEW max_bits \in Bits, min_bits <= max_bits,
         NEW target \in Nat,
         TargetFromDifficultyBits(max_bits) <= target,
         target <= TargetFromDifficultyBits(min_bits)
  PROVE  LET next == NextTarget(target, seconds, expected, min_bits, max_bits)
         IN  /\ seconds <= Greatest(expected, 1) => next <= target
             /\ seconds >= Greatest(expected, 1) => next >= target
BY LifeAssumptions, SameArithmetic, Life!RetargetDirection

\* A retarget keeps its pace.
LEMMA RetargetPace ==
  ASSUME NEW seconds \in Nat \ {0}, NEW expected \in Nat,
         NEW min_bits \in Bits, NEW max_bits \in Bits, min_bits <= max_bits,
         NEW target \in Nat,
         TargetFromDifficultyBits(max_bits) <= target,
         target <= TargetFromDifficultyBits(min_bits)
  PROVE  LET next == NextTarget(target, seconds, expected, min_bits, max_bits)
             hardest == TargetFromDifficultyBits(max_bits)
             easiest == TargetFromDifficultyBits(min_bits)
         IN  /\ next \in target \div 14 .. 8 * target
             /\ 2 * seconds <= Greatest(expected, 1) => next <= Greatest(hardest, target \div 2)
             /\ seconds > 2 * Greatest(expected, 1) => next >= Least(easiest, (7 * target) \div 4)
BY LifeAssumptions, SameArithmetic, Life!RetargetPace

\* The bits of a target fit the account's field.
LEMMA BitsType ==
  ASSUME NEW target
  PROVE  DifficultyBitsFromTarget(target) \in Bits
BY LifeAssumptions, SameArithmetic, Life!BitsType

\* The bits a target was made for are those read back from it.
LEMMA BitsReadBack ==
  ASSUME NEW bits \in Bits
  PROVE  DifficultyBitsFromTarget(TargetFromDifficultyBits(bits)) = bits
BY LifeAssumptions, SameArithmetic, Life!BitsReadBack

----------------------------------------------------------------------------
(* math/rewards.rs *)

Start(i) == RewardEras[i].start_block
End(i) == RewardEras[i].end_block_exclusive

\* The typing of the table, era by era.
LEMMA EraTypes ==
  /\ Len(RewardEras) \in Nat \ {0}
  /\ ScarcityStartBlock \in Nat
  /\ \A i \in Eras : Start(i) \in Nat /\ End(i) \in Nat
                     /\ RewardEras[i].reward \in Nat \ {0}
<1> DEFINE R == [start_block: Nat, end_block_exclusive: Nat, reward: Nat \ {0}]
<1>1. RewardEras \in Seq(R) /\ Len(RewardEras) > 0 /\ ScarcityStartBlock \in Nat
  BY ScheduleAssumption DEF ScheduleAssumption, EraTableAssumption, EmissionAssumption
<1>2. Len(RewardEras) \in Nat \ {0}
  <2> HIDE DEF R
  <2> QED BY <1>1
<1>3. \A i \in Eras : RewardEras[i] \in R
  <2> HIDE DEF R
  <2> QED BY <1>1 DEF Eras
<1>4. \A i \in Eras : Start(i) \in Nat /\ End(i) \in Nat
                     /\ RewardEras[i].reward \in Nat \ {0}
  BY <1>3 DEF Start, End
<1>5. QED BY <1>1, <1>2, <1>4

\* How the table hangs together, era by era.
LEMMA EraChain ==
  /\ Start(1) = 0 /\ End(Len(RewardEras)) = ScarcityStartBlock
  /\ \A i \in Eras : Start(i) < End(i)
  /\ \A i \in Eras : i < Len(RewardEras) => i + 1 \in Eras /\ Start(i + 1) = End(i)
<1>1. ASSUME NEW i \in Eras, i < Len(RewardEras)
      PROVE  i + 1 \in Eras /\ Start(i + 1) = End(i)
  <2>1. i + 1 \in Eras \ {1} /\ (i + 1) - 1 = i
    BY <1>1, EraTypes DEF Eras
  <2>2. QED BY <2>1, ScheduleAssumption
             DEF ScheduleAssumption, EraTableAssumption, Start, End
<1>2. QED BY <1>1, ScheduleAssumption
           DEF ScheduleAssumption, EraTableAssumption, Start, End

\* The eras end later and later.
LEMMA EndsIncrease ==
  ASSUME NEW j \in Eras
  PROVE  \A i \in 1 .. j : End(i) <= End(j)
<1> DEFINE S == {n \in Nat : n \in Eras => \A i \in 1 .. n : End(i) <= End(n)}
<1>1. 0 \in S
  BY DEF Eras
<1>2. ASSUME NEW n \in Nat, n \in S PROVE n + 1 \in S
  <2>1. SUFFICES ASSUME n + 1 \in Eras, NEW i \in 1 .. n + 1
                 PROVE  End(i) <= End(n + 1)
    OBVIOUS
  <2>2. End(n + 1) \in Nat
    BY <2>1, EraTypes
  <2>3. CASE i = n + 1
    BY <2>2, <2>3
  <2>4. CASE i # n + 1
    <3>1. n \in Eras /\ i \in 1 .. n /\ n < Len(RewardEras) /\ i \in Eras
      BY <2>1, <2>4, EraTypes DEF Eras
    <3>2. End(i) <= End(n)
      BY <1>2, <3>1
    <3>3. End(n) <= End(n + 1)
      <4>1. Start(n + 1) = End(n) /\ Start(n + 1) < End(n + 1)
        BY <2>1, <3>1, EraChain
      <4>2. QED BY <2>1, <3>1, <4>1, EraTypes
    <3>4. QED BY <2>2, <3>1, <3>2, <3>3, EraTypes
  <2>5. QED BY <2>3, <2>4
<1>3. Nat \subseteq S
  <2> HIDE DEF S
  <2> QED BY <1>1, <1>2, SetInduction
<1>4. j \in Nat
  BY EraTypes DEF Eras
<1>5. QED BY <1>3, <1>4

\* Below Scarcity the era of a block is the one era that holds it, and the eras
\* before it are over.
LEMMA EraIndexFound ==
  ASSUME NEW n \in Nat, n < ScarcityStartBlock
  PROVE  /\ EraIndex(n) \in Eras /\ InRange(EraIndex(n), n)
         /\ \A j \in Eras : j < EraIndex(n) => End(j) <= n
<1> DEFINE T == {i \in Eras : n < End(i)}
<1>1. Len(RewardEras) \in T
  BY EraTypes, EraChain DEF Eras
<1>2. \A i \in Eras : i \in Nat
  BY EraTypes DEF Eras
<1>3. PICK k \in T : \A i \in T : k <= i
  <2>1. T \subseteq Nat /\ T # {}
    BY <1>1, <1>2
  <2> HIDE DEF T
  <2>2. QED BY <2>1, LeastNat
<1>4. \A j \in Eras : j < k => End(j) <= n
  BY <1>2, <1>3, EraTypes
<1>5. InRange(k, n)
  <2>1. CASE k = 1
    BY <2>1, EraChain DEF InRange, Start, End
  <2>2. CASE k # 1
    <3>1. k - 1 \in Eras /\ k - 1 < k /\ k - 1 < Len(RewardEras) /\ (k - 1) + 1 = k
      BY <2>2, EraTypes DEF Eras
    <3>2. End(k - 1) <= n /\ Start(k) = End(k - 1)
      BY <3>1, <1>4, EraChain
    <3>3. QED BY <3>2 DEF InRange, Start, End
  <2>3. QED BY <2>1, <2>2
<1>6. \A j \in 1 .. k - 1 : ~InRange(j, n)
  <2>1. SUFFICES ASSUME NEW j \in 1 .. k - 1 PROVE ~InRange(j, n)
    OBVIOUS
  <2>2. j \in Eras /\ j < k
    BY EraTypes DEF Eras
  <2>3. End(j) <= n /\ End(j) \in Nat
    BY <2>2, <1>4, EraTypes
  <2>4. QED BY <2>3 DEF InRange, End
<1>7. EraIndex(n) = k
  <2>1. \A i \in Eras : InRange(i, n) /\ (\A j \in 1 .. i - 1 : ~InRange(j, n)) => i = k
    <3>1. SUFFICES ASSUME NEW i \in Eras, InRange(i, n), i # k,
                          \A j \in 1 .. i - 1 : ~InRange(j, n)
                   PROVE  FALSE
      OBVIOUS
    <3>2. i \in T
      BY <3>1 DEF InRange, End
    <3>3. k \in 1 .. i - 1
      BY <3>1, <3>2, <1>2, <1>3 DEF Eras
    <3>4. QED BY <3>1, <3>3, <1>5
  <2>2. EraIndex(n) = CHOOSE i \in Eras : InRange(i, n) /\ \A j \in 1 .. i - 1 : ~InRange(j, n)
    BY <1>5 DEF EraIndex
  <2>3. k \in Eras
    OBVIOUS
  <2> HIDE DEF T
  <2>4. QED BY <2>1, <2>2, <2>3, <1>5, <1>6
<1>8. QED BY <1>4, <1>5, <1>7

\* Conversely, an era that holds n after all the eras before it are over is the
\* era of n.
LEMMA EraIndexUnique ==
  ASSUME NEW n \in Nat, n < ScarcityStartBlock, NEW k \in Eras, InRange(k, n),
         \A j \in Eras : j < k => End(j) <= n
  PROVE  EraIndex(n) = k
<1> DEFINE e == EraIndex(n)
<1>1. e \in Eras /\ InRange(e, n) /\ \A j \in Eras : j < e => End(j) <= n
  BY EraIndexFound
<1>2. e \in Nat /\ k \in Nat /\ End(e) \in Nat /\ End(k) \in Nat
  BY <1>1, EraTypes DEF Eras
<1>3. n < End(e) /\ n < End(k)
  BY <1>1 DEF InRange, End
<1>4. ~(e < k) /\ ~(k < e)
  BY <1>1, <1>2, <1>3
<1>5. QED BY <1>2, <1>4

----------------------------------------------------------------------------
Emitted(i) == EmittedAtEraStart[i]
Reward(i) == RewardEras[i].reward
EraCount == Len(RewardEras)

\* The cumulative column, entry by entry.
LEMMA ColumnStep ==
  /\ Emitted(1) = 0
  /\ \A i \in 1 .. EraCount + 1 : Emitted(i) \in Nat
  /\ \A i \in Eras : Emitted(i + 1) = Emitted(i) + (End(i) - Start(i)) * Reward(i)
BY ScheduleAssumption
   DEF ScheduleAssumption, EmissionAssumption, Emitted, Reward, Start, End, EraCount

\* The tail, number by number.
LEMMA TailTypes ==
  /\ ScarcityFullRewardBlocks \in Nat
  /\ ScarcityBaseReward \in Nat \ {0}
  /\ ScarcityFinalPartialReward \in Nat \ {0}
  /\ TotalProtocolEmissions =
       Emitted(EraCount + 1) + ScarcityFullRewardBlocks * ScarcityBaseReward
         + ScarcityFinalPartialReward
BY ScheduleAssumption DEF ScheduleAssumption, EmissionAssumption, Emitted, EraCount

\* Products of the numbers above, which the solver does not expand by itself.
LEMMA Products ==
  ASSUME NEW a \in Nat, NEW b \in Nat, NEW c \in Nat
  PROVE  /\ a * b \in Nat
         /\ (a + 1) * b = a * b + b
         /\ a <= c => a * b <= c * b
OBVIOUS

\* The cumulative column never falls.
LEMMA ColumnIncreases ==
  ASSUME NEW j \in 1 .. EraCount + 1
  PROVE  \A i \in 1 .. j : Emitted(i) <= Emitted(j)
<1> DEFINE S == {n \in Nat : n \in 1 .. EraCount + 1 =>
                               \A i \in 1 .. n : Emitted(i) <= Emitted(n)}
<1>1. 0 \in S
  OBVIOUS
<1>2. ASSUME NEW n \in Nat, n \in S PROVE n + 1 \in S
  <2>1. SUFFICES ASSUME n + 1 \in 1 .. EraCount + 1, NEW i \in 1 .. n + 1
                 PROVE  Emitted(i) <= Emitted(n + 1)
    OBVIOUS
  <2>2. Emitted(n + 1) \in Nat
    BY <2>1, ColumnStep
  <2>3. CASE i = n + 1
    BY <2>2, <2>3
  <2>4. CASE i # n + 1
    <3>1. /\ n \in 1 .. EraCount + 1 /\ n \in Eras /\ i \in 1 .. n
          /\ i \in 1 .. EraCount + 1
      BY <2>1, <2>4, EraTypes DEF Eras, EraCount
    <3>2. Emitted(i) <= Emitted(n)
      BY <1>2, <3>1
    <3>3. End(n) - Start(n) \in Nat
      BY <3>1, EraTypes, EraChain
    <3>4. (End(n) - Start(n)) * Reward(n) \in Nat
      BY <3>1, <3>3, EraTypes, Products DEF Reward
    <3>5. Emitted(n) <= Emitted(n + 1)
      BY <3>1, <3>4, ColumnStep
    <3>6. QED BY <2>2, <3>1, <3>2, <3>5, ColumnStep
  <2>5. QED BY <2>3, <2>4
<1>3. Nat \subseteq S
  <2> HIDE DEF S
  <2> QED BY <1>1, <1>2, SetInduction
<1>4. j \in Nat
  BY EraTypes DEF EraCount
<1>5. QED BY <1>3, <1>4

----------------------------------------------------------------------------
\* What an era pays, and what was emitted by one of its blocks.
LEMMA EraReward ==
  ASSUME NEW n \in Nat, n < ScarcityStartBlock
  PROVE  LET k == EraIndex(n)
         IN  /\ RewardForBlock(n) = Reward(k)
             /\ EmittedBefore(n) = Emitted(k) + (n - Start(k)) * Reward(k)
             /\ n - Start(k) \in Nat
             /\ n < End(k)
             /\ Reward(k) \in Nat \ {0}
             /\ k \in Eras
<1> DEFINE k == EraIndex(n)
<1>1. k \in Eras /\ InRange(k, n)
  BY EraIndexFound
<1>2. Start(k) \in Nat /\ Start(k) <= n /\ n < End(k) /\ Reward(k) \in Nat \ {0}
  BY <1>1, EraTypes DEF InRange, Start, End, Reward
<1>3. ~(n >= ScarcityStartBlock)
  BY EraTypes
<1>4. QED BY <1>1, <1>2, <1>3 DEF RewardForBlock, EmittedBefore, Reward, Emitted, Start

\* The same for the tail.
LEMMA TailReward ==
  ASSUME NEW k \in Nat
  PROVE  /\ RewardForBlock(ScarcityStartBlock + k) = ScarcityReward(k)
         /\ EmittedBefore(ScarcityStartBlock + k) = Emitted(EraCount + 1)
              + IF k <= ScarcityFullRewardBlocks
                THEN k * ScarcityBaseReward
                ELSE ScarcityFullRewardBlocks * ScarcityBaseReward
                       + ScarcityFinalPartialReward
<1>1. /\ ScarcityStartBlock + k >= ScarcityStartBlock
      /\ (ScarcityStartBlock + k) - ScarcityStartBlock = k
  BY EraTypes
<1>2. QED BY <1>1 DEF RewardForBlock, EmittedBefore, Emitted, EraCount

\* A block at or above the start of Scarcity is a block of the tail.
LEMMA TailOffset ==
  ASSUME NEW n \in Nat, n >= ScarcityStartBlock
  PROVE  n - ScarcityStartBlock \in Nat /\ n = ScarcityStartBlock + (n - ScarcityStartBlock)
BY EraTypes

\* Every block pays something exactly up to the last block of the tail: the
\* program never opens a block of reward zero in the middle of the schedule.
THEOREM RewardsEndOnce ==
  ASSUME NEW n \in Nat
  PROVE  /\ RewardForBlock(n) \in Nat
         /\ RewardForBlock(n) > 0 <=> n < RewardedBlocks
         /\ RewardedBlocks \in Nat
<1>1. RewardedBlocks \in Nat
  BY EraTypes, TailTypes DEF RewardedBlocks
<1>2. CASE n < ScarcityStartBlock
  BY <1>1, <1>2, EraReward, EraTypes, TailTypes DEF RewardedBlocks
<1>3. CASE n >= ScarcityStartBlock
  <2> DEFINE k == n - ScarcityStartBlock
  <2>1. k \in Nat /\ RewardForBlock(n) = ScarcityReward(k)
    BY <1>3, TailOffset, TailReward
  <2>2. n < RewardedBlocks <=> k <= ScarcityFullRewardBlocks
    BY EraTypes, TailTypes DEF RewardedBlocks
  <2> HIDE DEF k
  <2>3. QED BY <1>1, <2>1, <2>2, TailTypes DEF ScarcityReward
<1>4. QED BY <1>2, <1>3, EraTypes

\* The cumulative sum starts at zero and grows by each block's reward, across
\* the edges of the eras and into the tail.
THEOREM EmissionStep ==
  ASSUME NEW n \in Nat
  PROVE  EmittedBefore(n + 1) = EmittedBefore(n) + RewardForBlock(n)
<1>1. CASE n + 1 < ScarcityStartBlock
  <2> DEFINE k == EraIndex(n)
  <2>1. n < ScarcityStartBlock /\ n + 1 \in Nat
    BY <1>1, EraTypes
  <2>2. /\ RewardForBlock(n) = Reward(k) /\ k \in Eras
        /\ EmittedBefore(n) = Emitted(k) + (n - Start(k)) * Reward(k)
        /\ n - Start(k) \in Nat /\ n < End(k) /\ Reward(k) \in Nat
    BY <2>1, EraReward
  <2>3. \A j \in Eras : j < k => End(j) <= n
    BY <2>1, EraIndexFound
  <2>4. ((n - Start(k)) + 1) * Reward(k) = (n - Start(k)) * Reward(k) + Reward(k)
    BY <2>2, Products
  <2>5. /\ Start(k) \in Nat /\ End(k) \in Nat /\ k \in Nat
        /\ (n - Start(k)) + 1 = (n + 1) - Start(k)
    BY <2>2, EraTypes DEF Eras
  <2>6. (n - Start(k)) * Reward(k) \in Nat /\ Emitted(k) \in Nat
    BY <2>2, Products, ColumnStep, EraTypes DEF Eras, EraCount
  <2>7. CASE n + 1 < End(k)
    <3>1. InRange(k, n + 1)
      BY <2>2, <2>5, <2>7 DEF InRange, Start, End
    <3>2. \A j \in Eras : j < k => End(j) <= n + 1
      BY <2>3, EraTypes
    <3>3. EraIndex(n + 1) = k
      BY <1>1, <2>1, <2>2, <3>1, <3>2, EraIndexUnique
    <3>4. EmittedBefore(n + 1) = Emitted(k) + ((n + 1) - Start(k)) * Reward(k)
      BY <1>1, <2>1, <3>3, EraReward
    <3> HIDE DEF k
    <3>5. QED BY <2>2, <2>4, <2>5, <2>6, <3>4
  <2>8. CASE ~(n + 1 < End(k))
    <3>1. n + 1 = End(k)
      BY <2>2, <2>5, <2>8
    <3>2. k < Len(RewardEras)
      BY <1>1, <2>2, <3>1, EraChain, EraTypes DEF Eras
    <3>3. k + 1 \in Eras /\ Start(k + 1) = n + 1 /\ Start(k + 1) < End(k + 1)
      BY <2>2, <3>1, <3>2, EraChain
    <3>4. InRange(k + 1, n + 1)
      BY <3>3, EraTypes DEF InRange, Start, End
    <3>5. \A j \in Eras : j < k + 1 => End(j) <= n + 1
      <4>1. SUFFICES ASSUME NEW j \in Eras, j < k + 1 PROVE End(j) <= n + 1
        OBVIOUS
      <4>2. j \in 1 .. k
        BY <2>5, <4>1 DEF Eras
      <4>3. QED BY <2>2, <3>1, <4>2, EndsIncrease
    <3>6. EraIndex(n + 1) = k + 1
      BY <1>1, <2>1, <3>3, <3>4, <3>5, EraIndexUnique
    <3>7. EmittedBefore(n + 1) = Emitted(k + 1) + ((n + 1) - Start(k + 1)) * Reward(k + 1)
      BY <1>1, <2>1, <3>6, EraReward
    <3>8. ((n + 1) - Start(k + 1)) * Reward(k + 1) = 0
      BY <2>1, <3>3, EraTypes DEF Reward
    <3>9. Emitted(k + 1) = Emitted(k) + (End(k) - Start(k)) * Reward(k)
      BY <2>2, ColumnStep
    <3>10. End(k) - Start(k) = (n - Start(k)) + 1
      BY <2>5, <3>1
    <3> HIDE DEF k
    <3>11. QED BY <2>2, <2>4, <2>6, <3>7, <3>8, <3>9, <3>10
  <2>9. QED BY <2>7, <2>8
<1>2. CASE n + 1 = ScarcityStartBlock
  <2> DEFINE k == EraIndex(n)
  <2>1. n < ScarcityStartBlock
    BY <1>2, EraTypes
  <2>2. /\ RewardForBlock(n) = Reward(k) /\ k \in Eras
        /\ EmittedBefore(n) = Emitted(k) + (n - Start(k)) * Reward(k)
        /\ n - Start(k) \in Nat /\ n < End(k) /\ Reward(k) \in Nat
    BY <2>1, EraReward
  <2>3. Start(k) \in Nat /\ End(k) \in Nat /\ k \in Nat
    BY <2>2, EraTypes DEF Eras
  <2>4. k = Len(RewardEras)
    <3>1. SUFFICES ASSUME k < Len(RewardEras) PROVE FALSE
      BY <2>2, EraTypes DEF Eras
    <3>2. k + 1 \in Eras /\ End(k) < End(k + 1)
      BY <2>2, <3>1, EraChain
    <3>3. Len(RewardEras) \in Eras /\ k + 1 \in 1 .. Len(RewardEras)
      BY <3>2, EraTypes DEF Eras
    <3>4. End(k + 1) <= ScarcityStartBlock
      BY <3>3, EndsIncrease, EraChain
    <3>5. QED BY <1>2, <2>2, <2>3, <3>2, <3>4, EraTypes
  <2>5. End(k) = n + 1 /\ End(k) - Start(k) = (n - Start(k)) + 1
    BY <1>2, <2>3, <2>4, EraChain
  <2>6. ((n - Start(k)) + 1) * Reward(k) = (n - Start(k)) * Reward(k) + Reward(k)
    BY <2>2, Products
  <2>7. Emitted(EraCount + 1) = Emitted(k) + (End(k) - Start(k)) * Reward(k)
    BY <2>2, <2>4, ColumnStep DEF EraCount
  <2>8. (n - Start(k)) * Reward(k) \in Nat /\ Emitted(k) \in Nat
    BY <2>2, Products, ColumnStep, EraTypes DEF Eras, EraCount
  <2>9. EmittedBefore(n + 1) = Emitted(EraCount + 1)
    <3>1. ScarcityStartBlock + 0 = n + 1 /\ 0 * ScarcityBaseReward = 0
      BY <1>2, EraTypes, TailTypes
    <3>2. Emitted(EraCount + 1) \in Nat
      BY ColumnStep, EraTypes DEF EraCount
    <3>3. QED BY <3>1, <3>2, TailReward, TailTypes
  <2> HIDE DEF k
  <2>10. QED BY <2>2, <2>5, <2>6, <2>7, <2>8, <2>9
<1>3. CASE n >= ScarcityStartBlock
  <2> DEFINE k == n - ScarcityStartBlock
  <2>1. k \in Nat /\ n = ScarcityStartBlock + k /\ n + 1 = ScarcityStartBlock + (k + 1)
    BY <1>3, EraTypes
  <2>2. RewardForBlock(n) = ScarcityReward(k)
    BY <2>1, TailReward
  <2>3. (k + 1) * ScarcityBaseReward = k * ScarcityBaseReward + ScarcityBaseReward
    BY <2>1, Products, TailTypes
  <2>4. /\ k * ScarcityBaseReward \in Nat
        /\ ScarcityFullRewardBlocks * ScarcityBaseReward \in Nat
        /\ Emitted(EraCount + 1) \in Nat
    BY <2>1, Products, TailTypes, ColumnStep, EraTypes DEF EraCount
  <2>5. k + 1 \in Nat
    BY <2>1
  <2> HIDE DEF k
  <2>6. QED BY <2>1, <2>2, <2>3, <2>4, <2>5, TailReward, TailTypes DEF ScarcityReward
<1>4. QED BY <1>1, <1>2, <1>3, EraTypes

\* The sum never passes the total, which the vault was funded with, and is the
\* total once the last reward is paid.
THEOREM EmissionBounded ==
  ASSUME NEW n \in Nat
  PROVE  /\ EmittedBefore(n) \in Nat
         /\ EmittedBefore(n) <= TotalProtocolEmissions
         /\ n >= RewardedBlocks => EmittedBefore(n) = TotalProtocolEmissions
<1>1. /\ Emitted(EraCount + 1) \in Nat
      /\ ScarcityFullRewardBlocks * ScarcityBaseReward \in Nat
      /\ RewardedBlocks \in Nat
  BY ColumnStep, Products, TailTypes, EraTypes DEF EraCount, RewardedBlocks
<1>2. CASE n < ScarcityStartBlock
  <2> DEFINE k == EraIndex(n)
  <2>1. /\ k \in Eras /\ Reward(k) \in Nat /\ n - Start(k) \in Nat /\ n < End(k)
        /\ EmittedBefore(n) = Emitted(k) + (n - Start(k)) * Reward(k)
    BY <1>2, EraReward
  <2>2. /\ Start(k) \in Nat /\ End(k) \in Nat
        /\ k \in 1 .. EraCount + 1 /\ k + 1 \in 1 .. EraCount + 1
        /\ EraCount + 1 \in 1 .. EraCount + 1
    BY <2>1, EraTypes DEF Eras, EraCount
  <2>3. End(k) - Start(k) \in Nat /\ n - Start(k) <= End(k) - Start(k)
    BY <2>1, <2>2
  <2>4. /\ (n - Start(k)) * Reward(k) <= (End(k) - Start(k)) * Reward(k)
        /\ (n - Start(k)) * Reward(k) \in Nat
        /\ (End(k) - Start(k)) * Reward(k) \in Nat
    <3> DEFINE a == n - Start(k)
               c == End(k) - Start(k)
               b == Reward(k)
    <3>1. a \in Nat /\ b \in Nat /\ c \in Nat /\ a <= c
      BY <2>1, <2>3
    <3> HIDE DEF a, b, c
    <3>2. a * b <= c * b /\ a * b \in Nat /\ c * b \in Nat
      BY <3>1, Products
    <3>3. QED BY <3>2 DEF a, b, c
  <2>5. Emitted(k + 1) = Emitted(k) + (End(k) - Start(k)) * Reward(k)
    BY <2>1, ColumnStep
  <2>6. Emitted(k + 1) <= Emitted(EraCount + 1) /\ Emitted(k) \in Nat
    BY <2>2, ColumnIncreases, ColumnStep
  <2>7. ~(n >= RewardedBlocks)
    BY <1>2, EraTypes, TailTypes DEF RewardedBlocks
  <2> HIDE DEF k
  <2>8. EmittedBefore(n) \in Nat /\ EmittedBefore(n) <= Emitted(EraCount + 1)
    BY <2>1, <2>4, <2>5, <2>6, <1>1
  <2>9. QED BY <2>7, <2>8, <1>1, TailTypes
<1>3. CASE n >= ScarcityStartBlock
  <2> DEFINE k == n - ScarcityStartBlock
  <2>1. k \in Nat /\ n = ScarcityStartBlock + k
    BY <1>3, EraTypes
  <2>2. n >= RewardedBlocks <=> ~(k <= ScarcityFullRewardBlocks)
    BY EraTypes, TailTypes DEF RewardedBlocks
  <2> HIDE DEF k
  <2>3. /\ k * ScarcityBaseReward \in Nat
        /\ k <= ScarcityFullRewardBlocks =>
             k * ScarcityBaseReward <= ScarcityFullRewardBlocks * ScarcityBaseReward
    BY <2>1, Products, TailTypes
  <2> DEFINE p == k * ScarcityBaseReward
             q == ScarcityFullRewardBlocks * ScarcityBaseReward
  <2>4. EmittedBefore(n) = Emitted(EraCount + 1)
          + IF k <= ScarcityFullRewardBlocks THEN p ELSE q + ScarcityFinalPartialReward
    BY <2>1, TailReward
  <2>5. /\ p \in Nat /\ q \in Nat
        /\ k <= ScarcityFullRewardBlocks => p <= q
        /\ TotalProtocolEmissions = Emitted(EraCount + 1) + q + ScarcityFinalPartialReward
    BY <1>1, <2>3, TailTypes
  <2> HIDE DEF p, q
  <2>6. QED BY <1>1, <2>2, <2>4, <2>5, TailTypes
<1>4. QED BY <1>2, <1>3, EraTypes

\* The whole emission is out exactly when no reward is left to pay.
THEOREM EmissionEnds ==
  ASSUME NEW n \in Nat
  PROVE  RewardForBlock(n) = 0 <=> EmittedBefore(n) = TotalProtocolEmissions
<1>1. /\ RewardForBlock(n) \in Nat /\ RewardedBlocks \in Nat
      /\ RewardForBlock(n) > 0 <=> n < RewardedBlocks
  BY RewardsEndOnce
<1>2. CASE n >= RewardedBlocks
  BY <1>1, <1>2, EmissionBounded
<1>3. CASE n < RewardedBlocks
  <2>1. EmittedBefore(n + 1) = EmittedBefore(n) + RewardForBlock(n)
    BY EmissionStep
  <2>2. /\ EmittedBefore(n) \in Nat
        /\ EmittedBefore(n + 1) \in Nat /\ EmittedBefore(n + 1) <= TotalProtocolEmissions
    BY EmissionBounded
  <2>3. TotalProtocolEmissions \in Nat
    <3>1. RewardedBlocks >= RewardedBlocks
      BY <1>1
    <3>2. QED BY <1>1, <3>1, EmissionBounded
  <2>4. QED BY <1>1, <1>3, <2>1, <2>2, <2>3
<1>4. QED BY <1>1, <1>2, <1>3

\* The first block has nothing before it.
LEMMA NothingEmittedYet == EmittedBefore(0) = 0
<1>1. 0 < ScarcityStartBlock
  <2>1. Len(RewardEras) \in Eras
    BY EraTypes DEF Eras
  <2>2. QED BY <2>1, EraChain, EraTypes
<1>2. EraIndex(0) = 1
  <2>1. 1 \in Eras /\ InRange(1, 0)
    BY EraTypes, EraChain DEF Eras, InRange, Start, End
  <2>2. \A j \in Eras : ~(j < 1)
    BY EraTypes DEF Eras
  <2>3. QED BY <1>1, <2>1, <2>2, EraIndexUnique
<1>3. EmittedBefore(0) = Emitted(1) + (0 - Start(1)) * Reward(1)
  BY <1>1, <1>2, EraReward
<1>4. Start(1) = 0 /\ Emitted(1) = 0 /\ Reward(1) \in Nat
  BY EraChain, ColumnStep, EraTypes DEF Reward, Eras
<1>5. QED BY <1>3, <1>4

----------------------------------------------------------------------------
(* Accounts *)

\* The treasury's share is a part of the reward.
LEMMA FeeIsPart ==
  ASSUME NEW reward \in Nat
  PROVE  /\ TreasuryFee(reward) \in Nat
         /\ TreasuryFee(reward) <= reward
         /\ reward - TreasuryFee(reward) \in Nat
BY Deployment DEF TreasuryFee

\* A transfer that the balance covers leaves balances, and touches two of them.
LEMMA MoveBalances ==
  ASSUME NEW S, NEW balance \in [S -> Nat], NEW from \in S, NEW to \in S,
         NEW amount \in Nat, amount <= balance[from]
  PROVE  /\ Move(balance, from, to, amount) \in [S -> Nat]
         /\ from # to => Move(balance, from, to, amount)[from] = balance[from] - amount
         /\ \A a \in S : a # from =>
              Move(balance, from, to, amount)[a] >= balance[a]
BY DEF Move

LEMMA ExpiryType ==
  ASSUME NEW t \in Nat PROVE NextExpiry(t) \in Nat
BY Deployment DEF NextExpiry

\* The block that follows is well formed.
LEMMA NextBlockType ==
  ASSUME NEW number \in Nat, NEW reward \in Nat, NEW bits \in Bits, NEW target \in Nat,
         now \in Nat
  PROVE  BlockAfter(number, reward, bits, target) \in Blocks
BY ExpiryType DEF BlockAfter, Blocks

\* The retarget of a settlement, in its range.
LEMMA RetargetTypes ==
  ASSUME NEW target \in Nat, NEW observed \in Nat
  PROVE  LET next == CalculateNextDifficulty(target, observed, TargetBlockTimeSec,
                                             MinDifficultyBits, MaxDifficultyBits)
         IN  /\ next.difficulty_bits \in Bits
             /\ next.difficulty_bits = DifficultyBitsFromTarget(next.target)
             /\ next.target \in Nat
             /\ TargetFromDifficultyBits(MaxDifficultyBits) <= next.target
             /\ next.target <= TargetFromDifficultyBits(MinDifficultyBits)
<1>1. MinDifficultyBits <= MaxDifficultyBits
  BY Deployment, PowerTypes DEF Bits
<1>2. QED BY <1>1, Deployment, RetargetInRange, BitsType DEF CalculateNextDifficulty

----------------------------------------------------------------------------
LEMMA TypeInit == Init => TypeOK
<1> SUFFICES ASSUME Init PROVE TypeOK
  OBVIOUS
<1>1. config \in Configs /\ block \in Blocks
  BY PowerTypes DEF Init, Configs, Blocks, Bits
<1>2. stats \in [Wallets -> MinerStats] /\ session \in [Wallets -> MiningSessions]
  BY DEF Init, MinerStats, MiningSessions, Nickname
<1>3. token \in [Accounts -> Nat] /\ lamports \in [Wallets -> Nat]
  BY Deployment DEF Init
<1>4. /\ now \in Nat /\ settled \in Seq(BlockSolved)
      /\ signed \in Seq(Signatures) /\ granted \in [Wallets -> Nat]
  BY DEF Init
<1>5. QED BY <1>1, <1>2, <1>3, <1>4 DEF TypeOK

\* A settlement keeps the types of all it touches.
LEMMA SubmissionType ==
  ASSUME TypeOK, NEW miner \in Wallets, NEW payer \in Wallets,
         NEW hash \in Hashes,
         ProcessSubmission(miner, payer, hash)
  PROVE  /\ config' \in Configs /\ block' \in Blocks
         /\ stats' \in [Wallets -> MinerStats]
         /\ token' \in [Accounts -> Nat] /\ lamports' \in [Wallets -> Nat]
         /\ now' \in Nat /\ settled' \in Seq(BlockSolved)
<1> DEFINE reward == block.block_reward
           fee == TreasuryFee(reward)
           number == block.block_number + 1
           observed == Greatest(now - block.opened_at, 1)
           next == CalculateNextDifficulty(config.difficulty_target, observed,
                     TargetBlockTimeSec, MinDifficultyBits, MaxDifficultyBits)
<1>1. /\ config \in Configs /\ block \in Blocks /\ now \in Nat
      /\ config.total_blocks_mined \in Nat /\ reward \in Nat /\ number \in Nat
      /\ config.difficulty_target \in Nat
      /\ config.total_rewards_distributed \in Nat
      /\ config.total_treasury_fees_distributed \in Nat
      /\ block.opened_at \in Nat /\ block.block_number \in Nat
  BY DEF TypeOK, Configs, Blocks
<1>2. observed \in Nat
  BY <1>1 DEF Greatest
<1>3. next.difficulty_bits \in Bits /\ next.target \in Nat
  BY <1>1, <1>2, RetargetTypes
<1>4. fee \in Nat /\ fee <= reward /\ reward - fee \in Nat
  BY <1>1, FeeIsPart
<1>5. RewardForBlock(config.total_blocks_mined + 1) \in Nat
  BY <1>1, RewardsEndOnce
<1>6. config' \in Configs
  <2>1. config' = [current_block_number |-> number,
                   total_blocks_mined |-> config.total_blocks_mined + 1,
                   total_rewards_distributed |->
                     config.total_rewards_distributed + reward,
                   total_treasury_fees_distributed |->
                     config.total_treasury_fees_distributed + fee,
                   difficulty_bits |-> next.difficulty_bits,
                   difficulty_target |-> next.target]
    BY DEF ProcessSubmission
  <2> HIDE DEF next, fee, number, reward
  <2>2. QED BY <1>1, <1>3, <1>4, <2>1 DEF Configs
<1>7. block' \in Blocks
  <2>1. block' = BlockAfter(number, RewardForBlock(config.total_blocks_mined + 1),
                            next.difficulty_bits, next.target)
    BY DEF ProcessSubmission
  <2> HIDE DEF next, number
  <2>2. QED BY <1>1, <1>3, <1>5, <2>1, NextBlockType
<1>8. stats' \in [Wallets -> MinerStats]
  <2> DEFINE account == [stats[miner] EXCEPT
                           !.valid_blocks_found = @ + 1,
                           !.total_rewards_earned = @ + (reward - fee)]
  <2>1. stats' = [stats EXCEPT ![miner] = account]
    BY DEF ProcessSubmission, Credited
  <2>2. stats \in [Wallets -> MinerStats]
    BY DEF TypeOK
  <2>3. account \in MinerStats
    <3>1. stats[miner] \in MinerStats
      BY <2>2
    <3>2. /\ stats[miner].valid_blocks_found + 1 \in Nat
          /\ stats[miner].total_rewards_earned + (reward - fee) \in Nat
      <4> HIDE DEF fee, reward
      <4>1. /\ stats[miner].valid_blocks_found \in Nat
            /\ stats[miner].total_rewards_earned \in Nat
        BY <3>1 DEF MinerStats
      <4>2. QED BY <1>4, <4>1
    <3>3. QED BY <3>1, <3>2 DEF MinerStats
  <2> HIDE DEF account
  <2>4. QED BY <2>1, <2>2, <2>3
<1>9. token' \in [Accounts -> Nat]
  <2>1. token' = Move(Move(token, RewardVault, miner, reward - fee), RewardVault, Treasury, fee)
        /\ token[RewardVault] >= reward
    BY DEF ProcessSubmission, PayOut
  <2>2. /\ RewardVault \in Accounts /\ miner \in Accounts /\ Treasury \in Accounts
        /\ RewardVault # miner /\ token \in [Accounts -> Nat]
    BY Deployment DEF Accounts, TypeOK
  <2>3. token[RewardVault] \in Nat /\ reward - fee <= token[RewardVault]
    BY <1>1, <1>4, <2>1, <2>2
  <2> HIDE DEF fee, reward
  <2>4. /\ Move(token, RewardVault, miner, reward - fee) \in [Accounts -> Nat]
        /\ Move(token, RewardVault, miner, reward - fee)[RewardVault]
             = token[RewardVault] - (reward - fee)
    BY <1>4, <2>2, <2>3, MoveBalances
  <2>5. fee <= Move(token, RewardVault, miner, reward - fee)[RewardVault]
    BY <1>1, <1>4, <2>1, <2>3, <2>4
  <2>6. QED BY <1>4, <2>1, <2>2, <2>4, <2>5, MoveBalances
<1>10. lamports' \in [Wallets -> Nat]
  <2>1. lamports' = Move(lamports, payer, Treasury, SubmitFeeLamports)
        /\ lamports[payer] >= SubmitFeeLamports
    BY DEF ProcessSubmission
  <2>2. lamports \in [Wallets -> Nat] /\ lamports[payer] \in Nat
    BY DEF TypeOK
  <2>3. SubmitFeeLamports <= lamports[payer]
    BY <2>1, <2>2, Deployment
  <2>4. QED BY <2>1, <2>2, <2>3, Deployment, MoveBalances
<1>11. now' \in Nat
  BY <1>1 DEF ProcessSubmission
<1>12. settled' \in Seq(BlockSolved)
  <2> DEFINE event == [block_number |-> block.block_number, winner |-> miner,
                       reward |-> reward, miner_reward |-> reward - fee]
  <2>1. settled' = Append(settled, event)
    BY DEF ProcessSubmission, SolvedEvent
  <2>2. event \in BlockSolved
    <3> HIDE DEF fee, reward
    <3> QED BY <1>1, <1>4 DEF BlockSolved
  <2>3. settled \in Seq(BlockSolved)
    BY DEF TypeOK
  <2> HIDE DEF event
  <2>4. QED BY <2>1, <2>2, <2>3
<1>13. QED BY <1>6, <1>7, <1>8, <1>9, <1>10, <1>11, <1>12

\* Every action keeps the types.
LEMMA TypeStep == TypeOK /\ [Next]_vars => TypeOK'
<1> SUFFICES ASSUME TypeOK, [Next]_vars PROVE TypeOK'
  OBVIOUS
<1> USE DEF TypeOK
<1>1. CASE InitializeProtocol
  <2> DEFINE target == TargetFromDifficultyBits(InitialDifficultyBits)
  <2>1. target \in Nat
    BY Deployment, TargetFalls, PowerTypes DEF Bits
  <2>2. RewardForBlock(0) \in Nat /\ NextExpiry(now) \in Nat
    BY RewardsEndOnce, ExpiryType
  <2>3. config' \in Configs
    <3> HIDE DEF target
    <3> QED BY <1>1, <2>1, Deployment DEF InitializeProtocol, Configs, target
  <2>4. block' \in Blocks
    <3>1. block' = [status |-> "Open", block_number |-> 0,
                    block_reward |-> RewardForBlock(0),
                    difficulty_bits |-> InitialDifficultyBits,
                    difficulty_target |-> target,
                    opened_at |-> now, expires_at |-> NextExpiry(now)]
      BY <1>1 DEF InitializeProtocol
    <3> HIDE DEF target
    <3>2. QED BY <2>1, <2>2, <3>1, Deployment DEF Blocks
  <2>5. QED BY <1>1, <2>3, <2>4 DEF InitializeProtocol, history
<1>2. ASSUME NEW m \in Wallets, NEW n \in Nickname, RegisterMiner(m, n)
      PROVE  TypeOK'
  <2>1. stats[m] \in MinerStats
    OBVIOUS
  <2>2. stats' \in [Wallets -> MinerStats]
    BY <1>2, <2>1 DEF RegisterMiner, MinerStats
  <2>3. QED BY <1>2, <2>2 DEF RegisterMiner, history
<1>3. ASSUME NEW m \in Wallets, NEW n \in Nickname, UpdateNickname(m, n)
      PROVE  TypeOK'
  <2>1. stats' \in [Wallets -> MinerStats]
    BY <1>3 DEF UpdateNickname, MinerStats
  <2>2. QED BY <1>3, <2>1 DEF UpdateNickname, history
<1>4. ASSUME NEW m \in Wallets, NEW h \in Hashes, SubmitSolution(m, h)
      PROVE  TypeOK'
  <2>1. ProcessSubmission(m, m, h) /\ session' = session /\ granted' = granted
    BY <1>4 DEF SubmitSolution
  <2>2. signed' \in Seq(Signatures)
    BY <1>4 DEF SubmitSolution, Signatures
  <2>3. QED BY <2>1, <2>2, SubmissionType
<1>5. ASSUME NEW m \in Wallets, NEW d \in Wallets \cup {NoWallet},
             NEW e \in SessionExpiries, NEW c \in SessionCaps,
             AuthorizeMiningSession(m, d, e, c)
      PROVE  TypeOK'
  <2>1. e \in Nat /\ c \in Nat
    BY Deployment
  <2>2. session' \in [Wallets -> MiningSessions]
    BY <1>5, <2>1 DEF AuthorizeMiningSession, MiningSessions
  <2>3. granted' \in [Wallets -> Nat]
    BY <1>5 DEF AuthorizeMiningSession
  <2>4. QED BY <1>5, <2>2, <2>3 DEF AuthorizeMiningSession
<1>6. ASSUME NEW m \in Wallets, NEW d \in Wallets, NEW h \in Hashes,
             SubmitSolutionWithSession(d, m, h)
      PROVE  TypeOK'
  <2>1. ProcessSubmission(m, d, h) /\ granted' = granted
    BY <1>6 DEF SubmitSolutionWithSession
  <2> DEFINE used == session[m].submissions_used + 1
             active == ~(/\ session[m].max_submissions > 0
                         /\ used >= session[m].max_submissions)
             grant == [session[m] EXCEPT !.submissions_used = used, !.active = active]
  <2>2. session[m] \in MiningSessions /\ session' = [session EXCEPT ![m] = grant]
    BY <1>6 DEF SubmitSolutionWithSession, GrantAfterUse
  <2>3. session' \in [Wallets -> MiningSessions]
    <3>1. used \in Nat /\ active \in BOOLEAN
      BY <2>2 DEF MiningSessions
    <3> HIDE DEF used, active
    <3>2. grant \in MiningSessions
      BY <2>2, <3>1 DEF MiningSessions
    <3> HIDE DEF grant
    <3>3. QED BY <2>2, <3>2
  <2>4. signed' \in Seq(Signatures)
    BY <1>6 DEF SubmitSolutionWithSession, Signatures
  <2>5. QED BY <2>1, <2>3, <2>4, SubmissionType
<1>7. CASE RotateStaleBlock
  <2> DEFINE number == block.block_number + 1
             reward == RewardForBlock(config.total_blocks_mined)
             target == TargetFromDifficultyBits(MinDifficultyBits)
  <2>1. target \in Nat
    BY Deployment, TargetFalls, PowerTypes DEF Bits
  <2>2. number \in Nat /\ config.total_blocks_mined \in Nat
    BY DEF Configs, Blocks
  <2>3. reward \in Nat
    BY <2>2, RewardsEndOnce
  <2>4. block' = BlockAfter(number, reward, MinDifficultyBits, target)
        /\ config' = [config EXCEPT !.current_block_number = number,
                                    !.difficulty_bits = MinDifficultyBits,
                                    !.difficulty_target = target]
    BY <1>7 DEF RotateStaleBlock
  <2> HIDE DEF number, reward, target
  <2>5. block' \in Blocks
    BY <2>1, <2>2, <2>3, <2>4, Deployment, NextBlockType
  <2>6. config' \in Configs
    BY <2>1, <2>2, <2>4, Deployment DEF Configs
  <2>7. QED BY <1>7, <2>5, <2>6 DEF RotateStaleBlock, history
<1>8. ASSUME NEW f \in Wallets, NEW t \in Accounts, NEW a \in TransferAmounts,
             TransferTokens(f, t, a)
      PROVE  TypeOK'
  <2>1. f \in Accounts /\ a \in Nat /\ token[f] \in Nat
    BY Deployment DEF Accounts
  <2>2. token' = Move(token, f, t, a) /\ a <= token[f]
    BY <1>8, <2>1 DEF TransferTokens
  <2>3. token' \in [Accounts -> Nat]
    BY <2>1, <2>2, MoveBalances
  <2>4. QED BY <1>8, <2>3 DEF TransferTokens, history
<1>9. CASE Tick
  BY <1>9 DEF Tick, history
<1>10. CASE UNCHANGED vars
  BY <1>10 DEF vars, history
<1>11. QED
  BY <1>1, <1>2, <1>3, <1>4, <1>5, <1>6, <1>7, <1>8, <1>9, <1>10 DEF Next

\* The accounts, balances, clock and events keep their types in every
\* deployment; balances, counters and shares are never negative, which is what
\* the checked arithmetic of the program would report as MathOverflow.
THEOREM TypeCorrect == Spec => []TypeOK
BY TypeInit, TypeStep, PTL DEF Spec

----------------------------------------------------------------------------
\* The steps that leave the config, the block and the vault's side of the books
\* alone: all but initialisation, settlement and rotation.
Bystander ==
  /\ UNCHANGED <<config, block>>
  /\ token' = token \/ \E f \in Wallets, t \in Accounts, a \in TransferAmounts :
                         TransferTokens(f, t, a)

LEMMA StepKinds ==
  ASSUME [Next]_vars
  PROVE  \/ InitializeProtocol
         \/ \E m, p \in Wallets, h \in Hashes : ProcessSubmission(m, p, h)
         \/ RotateStaleBlock
         \/ Bystander
<1>1. CASE \E m \in Wallets, n \in Nickname : RegisterMiner(m, n) \/ UpdateNickname(m, n)
  BY <1>1 DEF RegisterMiner, UpdateNickname, Bystander
<1>2. CASE \E m \in Wallets, h \in Hashes : SubmitSolution(m, h)
  BY <1>2 DEF SubmitSolution
<1>3. CASE \E m, d \in Wallets, h \in Hashes : SubmitSolutionWithSession(d, m, h)
  BY <1>3 DEF SubmitSolutionWithSession
<1>4. CASE \E m \in Wallets, d \in Wallets \cup {NoWallet}, e \in SessionExpiries,
              c \in SessionCaps : AuthorizeMiningSession(m, d, e, c)
  BY <1>4 DEF AuthorizeMiningSession, Bystander
<1>5. CASE \E f \in Wallets, t \in Accounts, a \in TransferAmounts : TransferTokens(f, t, a)
  BY <1>5 DEF TransferTokens, Bystander
<1>6. CASE Tick \/ UNCHANGED vars
  BY <1>6 DEF Tick, vars, history, Bystander
<1>7. QED BY <1>1, <1>2, <1>3, <1>4, <1>5, <1>6 DEF Next

\* The two difficulty invariants, over every step.
LEMMA DifficultyStep ==
  ASSUME TypeOK, ConfigMatchesBlock, TargetWithinBounds, [Next]_vars
  PROVE  ConfigMatchesBlock' /\ TargetWithinBounds'
<1> DEFINE low == TargetFromDifficultyBits(MaxDifficultyBits)
           high == TargetFromDifficultyBits(MinDifficultyBits)
<1> SUFFICES
      Initialized' =>
        /\ block'.block_number = config'.current_block_number
        /\ block'.difficulty_bits = config'.difficulty_bits
        /\ block'.difficulty_target = config'.difficulty_target
        /\ config'.difficulty_bits = DifficultyBitsFromTarget(config'.difficulty_target)
        /\ low <= config'.difficulty_target
        /\ config'.difficulty_target <= high
  BY DEF ConfigMatchesBlock, TargetWithinBounds
<1>1. CASE InitializeProtocol
  <2> DEFINE target == TargetFromDifficultyBits(InitialDifficultyBits)
  <2>1. low <= target /\ target <= high
    BY Deployment, TargetFalls
  <2>2. InitialDifficultyBits = DifficultyBitsFromTarget(target)
    BY Deployment, BitsReadBack
  <2>3. /\ block'.block_number = 0 /\ config'.current_block_number = 0
        /\ block'.difficulty_bits = InitialDifficultyBits
        /\ config'.difficulty_bits = InitialDifficultyBits
        /\ block'.difficulty_target = target /\ config'.difficulty_target = target
    BY <1>1 DEF InitializeProtocol
  <2> HIDE DEF target, low, high
  <2>4. QED BY <2>1, <2>2, <2>3
<1>2. ASSUME NEW m \in Wallets, NEW p \in Wallets, NEW h \in Hashes,
             ProcessSubmission(m, p, h)
      PROVE  /\ block'.block_number = config'.current_block_number
             /\ block'.difficulty_bits = config'.difficulty_bits
             /\ block'.difficulty_target = config'.difficulty_target
             /\ config'.difficulty_bits = DifficultyBitsFromTarget(config'.difficulty_target)
             /\ low <= config'.difficulty_target
             /\ config'.difficulty_target <= high
  <2> DEFINE observed == Greatest(now - block.opened_at, 1)
             next == CalculateNextDifficulty(config.difficulty_target, observed,
                       TargetBlockTimeSec, MinDifficultyBits, MaxDifficultyBits)
  <2>1. config.difficulty_target \in Nat /\ observed \in Nat
    <3>1. config \in Configs /\ block \in Blocks /\ now \in Nat
      BY DEF TypeOK
    <3>2. QED BY <3>1 DEF Configs, Blocks, Greatest
  <2>2. /\ next.difficulty_bits = DifficultyBitsFromTarget(next.target)
        /\ low <= next.target /\ next.target <= high
    BY <2>1, RetargetTypes
  <2>3. /\ block'.block_number = block.block_number + 1
        /\ config'.current_block_number = block.block_number + 1
        /\ block'.difficulty_bits = next.difficulty_bits
        /\ config'.difficulty_bits = next.difficulty_bits
        /\ block'.difficulty_target = next.target
        /\ config'.difficulty_target = next.target
    BY <1>2 DEF ProcessSubmission, BlockAfter
  <2> HIDE DEF next, low, high
  <2>4. QED BY <2>2, <2>3
<1>3. CASE RotateStaleBlock
  <2>1. low <= high
    BY Deployment, TargetFalls, PowerTypes DEF Bits
  <2>2. MinDifficultyBits = DifficultyBitsFromTarget(high) /\ high \in Nat
    BY Deployment, BitsReadBack, TargetFalls, PowerTypes DEF Bits
  <2>3. /\ block'.block_number = block.block_number + 1
        /\ config'.current_block_number = block.block_number + 1
        /\ block'.difficulty_bits = MinDifficultyBits
        /\ config'.difficulty_bits = MinDifficultyBits
        /\ block'.difficulty_target = high
        /\ config'.difficulty_target = high
    BY <1>3 DEF RotateStaleBlock, BlockAfter, TypeOK, Configs
  <2> HIDE DEF low, high
  <2>4. QED BY <2>1, <2>2, <2>3
<1>4. CASE Bystander
  BY <1>4 DEF Bystander, ConfigMatchesBlock, TargetWithinBounds, Initialized
<1>5. QED BY <1>1, <1>2, <1>3, <1>4, StepKinds

LEMMA DifficultyInit ==
  Init => ConfigMatchesBlock /\ TargetWithinBounds
BY DEF Init, ConfigMatchesBlock, TargetWithinBounds, Initialized

\* The inductive invariant of the difficulty.
DifficultyInv == TypeOK /\ ConfigMatchesBlock /\ TargetWithinBounds

LEMMA DifficultyInvariant == Spec => []DifficultyInv
<1>1. Init => DifficultyInv
  BY TypeInit, DifficultyInit DEF DifficultyInv
<1>2. DifficultyInv /\ [Next]_vars => DifficultyInv'
  BY TypeStep, DifficultyStep DEF DifficultyInv
<1>3. QED BY <1>1, <1>2, PTL DEF Spec

\* Config and block agree, and show the bits of the target, after every
\* instruction of every deployment.
THEOREM ConfigAlwaysMatchesBlock == Spec => []ConfigMatchesBlock
<1>1. DifficultyInv => ConfigMatchesBlock
  BY DEF DifficultyInv
<1>2. QED BY <1>1, DifficultyInvariant, PTL

\* Whatever the clock, the order of retargets and rotations and the parameters
\* initialize_protocol accepts, the target keeps to the bounds it set.
THEOREM TargetStaysWithinBounds == Spec => []TargetWithinBounds
<1>1. DifficultyInv => TargetWithinBounds
  BY DEF DifficultyInv
<1>2. QED BY <1>1, DifficultyInvariant, PTL

\* From whatever difficulty the config ever holds, a block that comes early never makes
\* the next one easier, and one that comes late never makes it harder
\* (calculate_next_difficulty).
THEOREM RetargetsTheRightWay == Spec => [](Initialized => Life!NeverTheWrongWay)
<1>1. ASSUME DifficultyInv, Initialized PROVE Life!NeverTheWrongWay
  <2> DEFINE target == config.difficulty_target
             e == Greatest(TargetBlockTimeSec, 1)
  <2>1. /\ target \in Nat
        /\ TargetFromDifficultyBits(MaxDifficultyBits) <= target
        /\ target <= TargetFromDifficultyBits(MinDifficultyBits)
    BY <1>1 DEF DifficultyInv, TypeOK, Configs, TargetWithinBounds
  <2>2. MinDifficultyBits <= MaxDifficultyBits
    BY Deployment, PowerTypes DEF Bits
  <2>3. ASSUME NEW seconds \in Nat \ {0}
        PROVE  LET next == NextTarget(target, seconds, TargetBlockTimeSec,
                                      MinDifficultyBits, MaxDifficultyBits)
               IN  /\ seconds <= e => next <= target
                   /\ seconds >= e => next >= target
    BY <2>1, <2>2, Deployment, RetargetDirection
  <2>4. Life!Expected = e
    BY DEF Life!Expected, Life!ExpectedSeconds, Parameters, Life!Greatest, Greatest
  <2>5. ASSUME NEW seconds
        PROVE  Life!TargetAfter(seconds)
                 = NextTarget(target, seconds, TargetBlockTimeSec,
                              MinDifficultyBits, MaxDifficultyBits)
    <3>1. /\ Life!MinBits = MinDifficultyBits /\ Life!MaxBits = MaxDifficultyBits
          /\ Life!ExpectedSeconds = TargetBlockTimeSec
          /\ [difficulty_bits |-> config.difficulty_bits, target |-> target].target = target
      BY DEF Life!MinBits, Life!MaxBits, Life!ExpectedSeconds, Parameters
    <3> HIDE DEF target
    <3>2. QED BY <3>1, SameArithmetic DEF Life!TargetAfter, target
  <2>6. ASSUME NEW seconds \in Nat \ {0}
        PROVE  /\ seconds <= Life!Expected => Life!TargetAfter(seconds) <= target
               /\ seconds >= Life!Expected => Life!TargetAfter(seconds) >= target
    BY <2>3, <2>4, <2>5
  <2>7. [difficulty_bits |-> config.difficulty_bits, target |-> target].target = target
    OBVIOUS
  <2> HIDE DEF e, target
  <2>8. QED BY <2>6, <2>7 DEF Life!NeverTheWrongWay, target
<1>2. QED BY <1>1, DifficultyInvariant, PTL

\* And it moves at its pace: no block moves it out of proportion, half the time halves
\* it and more than twice the time raises it by three quarters, up to the bounds
\* (calculate_next_difficulty).
THEOREM RetargetsAtItsPace == Spec => [](Initialized => Life!MovesAtItsPace)
<1>1. ASSUME DifficultyInv, Initialized PROVE Life!MovesAtItsPace
  <2> DEFINE target == config.difficulty_target
             e == Greatest(TargetBlockTimeSec, 1)
             low == TargetFromDifficultyBits(MaxDifficultyBits)
             high == TargetFromDifficultyBits(MinDifficultyBits)
             half == target \div 2
             part == target \div 14
             more == (7 * target) \div 4
  <2>1. target \in Nat /\ low <= target /\ target <= high
    BY <1>1 DEF DifficultyInv, TypeOK, Configs, TargetWithinBounds
  <2>2. MinDifficultyBits <= MaxDifficultyBits
    BY Deployment, PowerTypes DEF Bits
  <2>3. ASSUME NEW seconds \in Nat \ {0}
        PROVE  LET next == NextTarget(target, seconds, TargetBlockTimeSec,
                                      MinDifficultyBits, MaxDifficultyBits)
               IN  /\ next \in part .. 8 * target
                   /\ 2 * seconds <= e => next <= Greatest(low, half)
                   /\ seconds > 2 * e => next >= Least(high, more)
    BY <2>1, <2>2, Deployment, RetargetPace
  <2>4. Life!Expected = e
    BY DEF Life!Expected, Life!ExpectedSeconds, Parameters, Life!Greatest, Greatest
  <2>5. /\ Life!MinBits = MinDifficultyBits /\ Life!MaxBits = MaxDifficultyBits
        /\ Life!ExpectedSeconds = TargetBlockTimeSec
        /\ [difficulty_bits |-> config.difficulty_bits, target |-> target].target = target
    BY DEF Life!MinBits, Life!MaxBits, Life!ExpectedSeconds, Parameters
  <2>6. /\ \A seconds : Life!TargetAfter(seconds)
             = NextTarget(target, seconds, TargetBlockTimeSec, MinDifficultyBits, MaxDifficultyBits)
        /\ Life!Hardest = low /\ Life!Easiest = high
        /\ Life!Greatest(Life!Hardest, half) = Greatest(low, half)
        /\ Life!Least(Life!Easiest, more) = Least(high, more)
    <3> HIDE DEF target, half, more
    <3>1. \A seconds : Life!TargetAfter(seconds)
             = NextTarget(target, seconds, TargetBlockTimeSec, MinDifficultyBits, MaxDifficultyBits)
      BY <2>5, SameArithmetic DEF Life!TargetAfter, target
    <3>2. Life!Hardest = low /\ Life!Easiest = high
      BY <2>5, SameArithmetic DEF Life!Hardest, Life!Easiest
    <3>3. QED BY <3>1, <3>2 DEF Life!Greatest, Greatest, Life!Least, Least
  <2>7. ASSUME NEW seconds \in Nat \ {0}
        PROVE  /\ Life!TargetAfter(seconds) \in part .. 8 * target
               /\ 2 * seconds <= Life!Expected =>
                    Life!TargetAfter(seconds) <= Life!Greatest(Life!Hardest, half)
               /\ seconds > 2 * Life!Expected =>
                    Life!TargetAfter(seconds) >= Life!Least(Life!Easiest, more)
    BY <2>3, <2>4, <2>6
  <2> HIDE DEF e, target
  <2>8. QED BY <2>5, <2>7 DEF Life!MovesAtItsPace, target
<1>2. QED BY <1>1, DifficultyInvariant, PTL

----------------------------------------------------------------------------
\* Only settlement and a deposit move tokens in or out of the vault; a deposit
\* leaves it no poorer.
LEMMA DepositsOnly ==
  ASSUME TypeOK, Bystander
  PROVE  token'[RewardVault] >= token[RewardVault]
<1>1. RewardVault \in Accounts /\ token[RewardVault] \in Nat
  BY DEF TypeOK, Accounts
<1>2. CASE token' = token
  BY <1>1, <1>2
<1>3. ASSUME NEW f \in Wallets, NEW t \in Accounts, NEW a \in TransferAmounts,
             TransferTokens(f, t, a)
      PROVE  token'[RewardVault] >= token[RewardVault]
  <2>1. /\ f \in Accounts /\ a \in Nat /\ token[f] \in Nat /\ token \in [Accounts -> Nat]
        /\ RewardVault # f
    BY Deployment DEF TypeOK, Accounts
  <2>2. token' = Move(token, f, t, a) /\ a <= token[f]
    BY <1>3, <2>1 DEF TransferTokens
  <2>3. QED BY <1>1, <2>1, <2>2, MoveBalances
<1>4. QED BY <1>2, <1>3 DEF Bystander

\* A settlement takes exactly the reward out of the vault, whatever the share
\* of the treasury.
LEMMA SettlementPaysReward ==
  ASSUME TypeOK, NEW miner \in Wallets, NEW payer \in Wallets, NEW hash,
         ProcessSubmission(miner, payer, hash)
  PROVE  /\ token'[RewardVault] = token[RewardVault] - block.block_reward
         /\ block.block_reward <= token[RewardVault]
<1> DEFINE reward == block.block_reward
           fee == TreasuryFee(reward)
           paid == Move(token, RewardVault, miner, reward - fee)
<1>1. reward \in Nat /\ token \in [Accounts -> Nat]
  BY DEF TypeOK, Blocks
<1>2. fee \in Nat /\ fee <= reward /\ reward - fee \in Nat
  BY <1>1, FeeIsPart
<1>3. token' = Move(paid, RewardVault, Treasury, fee) /\ token[RewardVault] >= reward
  BY DEF ProcessSubmission, PayOut
<1>4. /\ RewardVault \in Accounts /\ miner \in Accounts /\ Treasury \in Accounts
      /\ RewardVault # miner /\ RewardVault # Treasury
  BY Deployment DEF Accounts
<1>5. token[RewardVault] \in Nat /\ reward - fee <= token[RewardVault]
  BY <1>1, <1>2, <1>3, <1>4
<1> HIDE DEF reward, fee
<1>6. paid \in [Accounts -> Nat] /\ paid[RewardVault] = token[RewardVault] - (reward - fee)
  BY <1>1, <1>2, <1>4, <1>5, MoveBalances
<1> HIDE DEF paid
<1>7. fee <= paid[RewardVault]
  BY <1>1, <1>2, <1>3, <1>5, <1>6
<1>8. token'[RewardVault] = paid[RewardVault] - fee
  BY <1>2, <1>3, <1>4, <1>6, <1>7, MoveBalances
<1>9. token'[RewardVault] = token[RewardVault] - reward /\ reward <= token[RewardVault]
  BY <1>1, <1>2, <1>3, <1>5, <1>6, <1>8
<1>10. QED BY <1>9 DEF reward

\* A block that pays fits in what the schedule has left.
LEMMA NextRewardFits ==
  ASSUME NEW n \in Nat
  PROVE  EmittedBefore(n) + RewardForBlock(n) <= TotalProtocolEmissions
<1>1. n + 1 \in Nat
  OBVIOUS
<1>2. EmittedBefore(n + 1) <= TotalProtocolEmissions
  BY <1>1, EmissionBounded
<1>3. QED BY <1>2, EmissionStep

\* The inductive invariant of the ledger.
LedgerInv == TypeOK /\ OpenWhileRewardsRemain /\ VaultCoversSchedule

LEMMA LedgerStep == LedgerInv /\ [Next]_vars => LedgerInv'
<1> SUFFICES ASSUME LedgerInv, [Next]_vars PROVE LedgerInv'
  OBVIOUS
<1> DEFINE count == config.total_blocks_mined
           total == config.total_rewards_distributed
           reward == block.block_reward
<1>1. TypeOK /\ TypeOK'
  BY TypeStep DEF LedgerInv
<1>2. TotalProtocolEmissions \in Nat
  <2>1. RewardedBlocks \in Nat
    BY RewardsEndOnce
  <2>2. QED BY <2>1, EmissionBounded
<1>3. /\ count \in Nat /\ total \in Nat /\ reward \in Nat
      /\ RewardVault \in Accounts /\ token[RewardVault] \in Nat
      /\ RewardVault \in Accounts /\ token'[RewardVault] \in Nat
  BY <1>1 DEF TypeOK, Configs, Blocks, Accounts
<1>4. SUFFICES
        /\ Initialized' => OpenWhileRewardsRemain'
        /\ Initialized' =>
             /\ config'.total_rewards_distributed = EmittedBefore(config'.total_blocks_mined)
             /\ config'.total_rewards_distributed + token'[RewardVault] >= TotalProtocolEmissions
             /\ block'.status = "Open" => token'[RewardVault] >= block'.block_reward
  BY <1>1 DEF LedgerInv, OpenWhileRewardsRemain, VaultCoversSchedule
<1>5. CASE InitializeProtocol
  <2>1. /\ config'.total_blocks_mined = 0 /\ config'.total_rewards_distributed = 0
        /\ block'.block_reward = RewardForBlock(0) /\ block'.status = "Open"
        /\ token'[RewardVault] = TotalProtocolEmissions
    BY <1>5 DEF InitializeProtocol
  <2>2. RewardForBlock(0) > 0 /\ RewardForBlock(0) \in Nat
    BY RewardsEndOnce, EraTypes, TailTypes DEF RewardedBlocks
  <2>3. RewardForBlock(0) <= TotalProtocolEmissions
    BY <1>2, <2>2, NextRewardFits, NothingEmittedYet
  <2>4. QED BY <1>2, <2>1, <2>2, <2>3, NothingEmittedYet DEF OpenWhileRewardsRemain
<1>6. ASSUME NEW m \in Wallets, NEW p \in Wallets, NEW h \in Hashes,
             ProcessSubmission(m, p, h)
      PROVE  /\ OpenWhileRewardsRemain'
             /\ config'.total_rewards_distributed = EmittedBefore(config'.total_blocks_mined)
             /\ config'.total_rewards_distributed + token'[RewardVault] >= TotalProtocolEmissions
             /\ block'.status = "Open" => token'[RewardVault] >= block'.block_reward
  <2>1. /\ block.status = "Open" /\ reward = RewardForBlock(count)
        /\ config'.total_blocks_mined = count + 1
        /\ config'.total_rewards_distributed = total + reward
        /\ block'.block_reward = RewardForBlock(count + 1)
        /\ block'.status = IF RewardForBlock(count + 1) > 0 THEN "Open" ELSE "Closed"
    BY <1>6 DEF ProcessSubmission, BlockAfter
  <2>2. /\ token'[RewardVault] = token[RewardVault] - reward
        /\ reward <= token[RewardVault]
    BY <1>1, <1>6, SettlementPaysReward
  <2>3. /\ total = EmittedBefore(count)
        /\ total + token[RewardVault] >= TotalProtocolEmissions
    BY <2>1 DEF LedgerInv, VaultCoversSchedule, Initialized
  <2>4. /\ count + 1 \in Nat /\ RewardForBlock(count + 1) \in Nat
        /\ EmittedBefore(count + 1) = total + reward
    BY <1>3, <2>1, <2>3, EmissionStep, RewardsEndOnce
  <2>5. EmittedBefore(count + 1) + RewardForBlock(count + 1) <= TotalProtocolEmissions
    BY <2>4, NextRewardFits
  <2>6. OpenWhileRewardsRemain'
    BY <2>1, <2>4 DEF OpenWhileRewardsRemain
  <2> HIDE DEF count, total, reward
  <2>7. total + reward + token'[RewardVault] >= TotalProtocolEmissions
    BY <1>2, <1>3, <2>2, <2>3
  <2>8. RewardForBlock(count + 1) <= token'[RewardVault]
    BY <1>2, <1>3, <2>4, <2>5, <2>7
  <2>9. QED BY <1>3, <2>1, <2>4, <2>6, <2>7, <2>8
<1>7. CASE RotateStaleBlock
  <2>1. /\ block.status = "Open" /\ reward = RewardForBlock(count) /\ reward > 0
        /\ config'.total_blocks_mined = count
        /\ config'.total_rewards_distributed = total
        /\ block'.block_reward = reward /\ block'.status = "Open"
        /\ token' = token
    BY <1>1, <1>7 DEF RotateStaleBlock, Stale, BlockAfter, TypeOK, Configs
  <2>2. /\ total = EmittedBefore(count) /\ token[RewardVault] >= reward
        /\ total + token[RewardVault] >= TotalProtocolEmissions
    BY <2>1 DEF LedgerInv, VaultCoversSchedule, Initialized
  <2>3. QED BY <2>1, <2>2 DEF OpenWhileRewardsRemain
<1>8. CASE Bystander
  <2>1. config' = config /\ block' = block /\ token'[RewardVault] >= token[RewardVault]
    BY <1>1, <1>8, DepositsOnly DEF Bystander
  <2>2. OpenWhileRewardsRemain'
    BY <2>1 DEF LedgerInv, OpenWhileRewardsRemain, Initialized
  <2>3. QED BY <1>2, <1>3, <2>1, <2>2 DEF LedgerInv, VaultCoversSchedule, Initialized
<1>9. QED BY <1>5, <1>6, <1>7, <1>8, StepKinds

LEMMA LedgerInvariant == Spec => []LedgerInv
<1>1. Init => LedgerInv
  BY TypeInit DEF LedgerInv, Init, OpenWhileRewardsRemain, VaultCoversSchedule, Initialized
<1>2. QED BY <1>1, LedgerStep, PTL DEF Spec

\* The block is open exactly while the schedule pays, for every schedule.
THEOREM OpenExactlyWhileRewardsRemain == Spec => []OpenWhileRewardsRemain
<1>1. LedgerInv => OpenWhileRewardsRemain
  BY DEF LedgerInv
<1>2. QED BY <1>1, LedgerInvariant, PTL

\* The vault pays the whole schedule, to its last partial reward, whatever is
\* deposited in it and however often blocks go stale.
THEOREM VaultAlwaysCoversSchedule == Spec => []VaultCoversSchedule
<1>1. LedgerInv => VaultCoversSchedule
  BY DEF LedgerInv
<1>2. QED BY <1>1, LedgerInvariant, PTL

\* Registering, settling and renaming are all that touches a miner's account.
LEMMA StatsOnlyGrow ==
  ASSUME TypeOK, [Next]_vars, NEW m \in Wallets, stats[m].registered
  PROVE  /\ stats'[m].registered
         /\ stats'[m].valid_blocks_found >= stats[m].valid_blocks_found
         /\ stats'[m].total_rewards_earned >= stats[m].total_rewards_earned
<1>1. /\ stats \in [Wallets -> MinerStats] /\ stats[m] \in MinerStats
      /\ stats[m].valid_blocks_found \in Nat /\ stats[m].total_rewards_earned \in Nat
  BY DEF TypeOK, MinerStats
<1>2. CASE stats' = stats
  BY <1>1, <1>2
<1>3. ASSUME NEW w \in Wallets, NEW n \in Nickname, RegisterMiner(w, n) \/ UpdateNickname(w, n)
      PROVE  /\ stats'[m].registered
             /\ stats'[m].valid_blocks_found >= stats[m].valid_blocks_found
             /\ stats'[m].total_rewards_earned >= stats[m].total_rewards_earned
  BY <1>1, <1>3 DEF RegisterMiner, UpdateNickname, MinerStats
<1>4. ASSUME NEW w \in Wallets, NEW p \in Wallets, NEW h \in Hashes,
             ProcessSubmission(w, p, h)
      PROVE  /\ stats'[m].registered
             /\ stats'[m].valid_blocks_found >= stats[m].valid_blocks_found
             /\ stats'[m].total_rewards_earned >= stats[m].total_rewards_earned
  <2> DEFINE won == block.block_reward - TreasuryFee(block.block_reward)
             account == [stats[w] EXCEPT !.valid_blocks_found = @ + 1,
                                         !.total_rewards_earned = @ + won]
  <2>1. won \in Nat
    BY FeeIsPart DEF TypeOK, Blocks
  <2>2. stats' = [stats EXCEPT ![w] = account]
    BY <1>4 DEF ProcessSubmission, Credited
  <2> HIDE DEF won
  <2>3. CASE w # m
    <3>1. stats'[m] = stats[m]
      BY <1>1, <2>2, <2>3
    <3>2. QED BY <1>1, <3>1
  <2>4. CASE w = m
    <3>1. stats'[m] = account
      BY <1>1, <2>2, <2>4
    <3>2. /\ account.registered = stats[m].registered
          /\ account.valid_blocks_found = stats[m].valid_blocks_found + 1
          /\ account.total_rewards_earned = stats[m].total_rewards_earned + won
      BY <1>1, <2>4 DEF MinerStats
    <3> HIDE DEF account
    <3>3. QED BY <1>1, <2>1, <3>1, <3>2
  <2>5. QED BY <2>3, <2>4
<1>5. CASE UNCHANGED vars
  BY <1>2, <1>5 DEF vars, history
<1>6. CASE InitializeProtocol \/ RotateStaleBlock \/ Tick
  BY <1>2, <1>6 DEF InitializeProtocol, RotateStaleBlock, Tick
<1>7. CASE \E f \in Wallets, t \in Accounts, a \in TransferAmounts : TransferTokens(f, t, a)
  BY <1>2, <1>7 DEF TransferTokens
<1>8. CASE \E w \in Wallets, d \in Wallets \cup {NoWallet}, e \in SessionExpiries,
              c \in SessionCaps : AuthorizeMiningSession(w, d, e, c)
  BY <1>2, <1>8 DEF AuthorizeMiningSession
<1>9. CASE \/ \E w \in Wallets, h \in Hashes : SubmitSolution(w, h)
           \/ \E w, d \in Wallets, h \in Hashes : SubmitSolutionWithSession(d, w, h)
  BY <1>4, <1>9 DEF SubmitSolution, SubmitSolutionWithSession
<1>10. QED BY <1>3, <1>5, <1>6, <1>7, <1>8, <1>9 DEF Next

\* No instruction, in any order, takes back what a miner was credited with.
THEOREM StatsAreNeverReset == Spec => StatsNeverReset
<1>1. TypeOK /\ [Next]_vars =>
        [\A m \in Wallets : stats[m].registered =>
           /\ stats'[m].registered
           /\ stats'[m].valid_blocks_found >= stats[m].valid_blocks_found
           /\ stats'[m].total_rewards_earned >= stats[m].total_rewards_earned]_vars
  BY StatsOnlyGrow
<1>2. QED BY <1>1, TypeCorrect, PTL DEF Spec, StatsNeverReset

\* The work done on a block is judged by the target, reward and expiry it was
\* opened with.
THEOREM BlockIsFixedUnderItsNumber == Spec => BlockFixedUnderItsNumber
<1>1. TypeOK /\ [Next]_vars =>
        [Initialized /\ block' # block => block'.block_number = block.block_number + 1]_vars
  <2> SUFFICES ASSUME TypeOK, [Next]_vars, Initialized, block' # block
               PROVE  block'.block_number = block.block_number + 1
    OBVIOUS
  <2>1. ~InitializeProtocol /\ ~Bystander
    BY DEF InitializeProtocol, Initialized, Bystander
  <2>2. CASE \E m, p \in Wallets, h \in Hashes : ProcessSubmission(m, p, h)
    BY <2>2 DEF ProcessSubmission, BlockAfter
  <2>3. CASE RotateStaleBlock
    BY <2>3 DEF RotateStaleBlock, BlockAfter
  <2>4. QED BY <2>1, <2>2, <2>3, StepKinds
<1>2. QED BY <1>1, TypeCorrect, PTL DEF Spec, BlockFixedUnderItsNumber

\* The vault is emptied by settlements alone, one reward of the event each.
THEOREM OnlySettlementEmits == Spec => EmissionOnlyBySettlement
<1>1. TypeOK /\ [Next]_vars =>
        [token'[RewardVault] < token[RewardVault] =>
           /\ Len(settled') = Len(settled) + 1
           /\ token[RewardVault] - token'[RewardVault] = settled'[Len(settled')].reward]_vars
  <2> SUFFICES ASSUME TypeOK, [Next]_vars, token'[RewardVault] < token[RewardVault]
               PROVE  /\ Len(settled') = Len(settled) + 1
                      /\ token[RewardVault] - token'[RewardVault]
                           = settled'[Len(settled')].reward
    OBVIOUS
  <2>1. token[RewardVault] \in Nat /\ token'[RewardVault] \in Nat
    BY TypeStep DEF TypeOK, Accounts
  <2>2. ~InitializeProtocol /\ ~RotateStaleBlock
    BY <2>1 DEF InitializeProtocol, RotateStaleBlock
  <2>3. ~Bystander
    BY <2>1, DepositsOnly
  <2>4. PICK m \in Wallets, p \in Wallets, h \in Hashes :
          ProcessSubmission(m, p, h)
    BY <2>2, <2>3, StepKinds
  <2> DEFINE event == SolvedEvent(m, block.block_reward)
  <2>5. settled' = Append(settled, event) /\ settled \in Seq(BlockSolved)
    BY <2>4 DEF ProcessSubmission, TypeOK
  <2>6. event.reward = block.block_reward
    BY DEF SolvedEvent
  <2>7. token[RewardVault] - token'[RewardVault] = block.block_reward
    <3>1. /\ token'[RewardVault] = token[RewardVault] - block.block_reward
      BY <2>4, SettlementPaysReward
    <3>2. block.block_reward \in Nat
      BY DEF TypeOK, Blocks
    <3>3. QED BY <2>1, <3>1, <3>2
  <2> HIDE DEF event
  <2>8. Len(settled') = Len(settled) + 1 /\ settled'[Len(settled')] = event
    BY <2>5
  <2>9. QED BY <2>6, <2>7, <2>8
<1>2. QED BY <1>1, TypeCorrect, PTL DEF Spec, EmissionOnlyBySettlement

----------------------------------------------------------------------------
\* Before initialisation the counters are zero, and an account that was never
\* registered has earned nothing: what makes initialisation and registration
\* invisible to the abstract emission.
NothingBefore ==
  /\ ~Initialized =>
       /\ config.current_block_number = 0 /\ config.total_blocks_mined = 0
       /\ config.total_treasury_fees_distributed = 0
  /\ \A m \in Wallets : ~stats[m].registered => stats[m].total_rewards_earned = 0

\* The inductive invariant under which the program refines Emission.
EmissionInv == LedgerInv /\ DifficultyInv /\ NothingBefore

Earned == [m \in Wallets |-> stats[m].total_rewards_earned]

\* The steps that leave what a miner earned alone.
Unpaid == \A m \in Wallets : stats'[m].total_rewards_earned = stats[m].total_rewards_earned

LEMMA PaidOnlyBySettlement ==
  ASSUME TypeOK, NothingBefore, [Next]_vars
  PROVE  \/ \E m, p \in Wallets, h \in Hashes : ProcessSubmission(m, p, h)
         \/ /\ Unpaid
            /\ \A m \in Wallets : stats[m].registered => stats'[m].registered
<1>1. stats \in [Wallets -> MinerStats]
  BY DEF TypeOK
<1>2. CASE stats' = stats
  BY <1>2 DEF Unpaid
<1>3. ASSUME NEW w \in Wallets, NEW n \in Nickname, RegisterMiner(w, n) \/ UpdateNickname(w, n),
             NEW m \in Wallets
      PROVE  /\ stats'[m].total_rewards_earned = stats[m].total_rewards_earned
             /\ stats[m].registered => stats'[m].registered
  BY <1>1, <1>3 DEF RegisterMiner, UpdateNickname, MinerStats, NothingBefore
<1>4. CASE \E w \in Wallets, n \in Nickname : RegisterMiner(w, n) \/ UpdateNickname(w, n)
  BY <1>3, <1>4 DEF Unpaid
<1>5. CASE UNCHANGED vars
  BY <1>2, <1>5 DEF vars, history
<1>6. CASE InitializeProtocol \/ RotateStaleBlock \/ Tick
  BY <1>2, <1>6 DEF InitializeProtocol, RotateStaleBlock, Tick
<1>7. CASE \E f \in Wallets, t \in Accounts, a \in TransferAmounts : TransferTokens(f, t, a)
  BY <1>2, <1>7 DEF TransferTokens
<1>8. CASE \E w \in Wallets, d \in Wallets \cup {NoWallet}, e \in SessionExpiries,
              c \in SessionCaps : AuthorizeMiningSession(w, d, e, c)
  BY <1>2, <1>8 DEF AuthorizeMiningSession
<1>9. CASE \/ \E w \in Wallets, h \in Hashes : SubmitSolution(w, h)
           \/ \E w, d \in Wallets, h \in Hashes : SubmitSolutionWithSession(d, w, h)
  BY <1>9 DEF SubmitSolution, SubmitSolutionWithSession
<1>10. QED BY <1>4, <1>5, <1>6, <1>7, <1>8, <1>9 DEF Next

\* What a settlement does to the accounts the abstract emission sees.
LEMMA SettlementCredits ==
  ASSUME TypeOK, NEW m \in Wallets, NEW p \in Wallets, NEW h \in Hashes,
         ProcessSubmission(m, p, h)
  PROVE  LET won == block.block_reward - TreasuryFee(block.block_reward)
         IN  /\ stats'[m].total_rewards_earned = stats[m].total_rewards_earned + won
             /\ stats[m].registered /\ stats'[m].registered
             /\ \A w \in Wallets \ {m} : stats'[w] = stats[w]
<1> DEFINE won == block.block_reward - TreasuryFee(block.block_reward)
           account == [stats[m] EXCEPT !.valid_blocks_found = @ + 1,
                                       !.total_rewards_earned = @ + won]
<1>1. stats \in [Wallets -> MinerStats] /\ stats[m].registered
      /\ stats' = [stats EXCEPT ![m] = account]
  BY DEF TypeOK, ProcessSubmission, Credited
<1>2. /\ account.registered = stats[m].registered
      /\ account.total_rewards_earned = stats[m].total_rewards_earned + won
  BY <1>1 DEF MinerStats
<1> HIDE DEF account, won
<1>3. stats'[m] = account /\ \A w \in Wallets \ {m} : stats'[w] = stats[w]
  BY <1>1
<1>4. QED BY <1>1, <1>2, <1>3 DEF won

LEMMA NothingBeforeStep ==
  ASSUME TypeOK, NothingBefore, [Next]_vars
  PROVE  NothingBefore'
<1>1. stats \in [Wallets -> MinerStats] /\ stats' \in [Wallets -> MinerStats]
  BY TypeStep DEF TypeOK
<1>2. ~Initialized' => config' = config /\ ~Initialized
  <2>1. CASE InitializeProtocol \/ RotateStaleBlock
    BY <2>1, RewardsEndOnce DEF InitializeProtocol, RotateStaleBlock, BlockAfter, Initialized
  <2>2. CASE \E m, p \in Wallets, h \in Hashes : ProcessSubmission(m, p, h)
    BY <2>2 DEF ProcessSubmission, BlockAfter, Initialized
  <2>3. CASE Bystander
    BY <2>3 DEF Bystander, Initialized
  <2>4. QED BY <2>1, <2>2, <2>3, StepKinds
<1>3. \A m \in Wallets : ~stats'[m].registered => stats'[m].total_rewards_earned = 0
  <2>1. ASSUME NEW m \in Wallets, NEW p \in Wallets, NEW h \in Hashes,
               ProcessSubmission(m, p, h), NEW w \in Wallets, ~stats'[w].registered
        PROVE  stats'[w].total_rewards_earned = 0
    BY <2>1, SettlementCredits DEF NothingBefore
  <2>2. CASE /\ Unpaid
             /\ \A m \in Wallets : stats[m].registered => stats'[m].registered
    BY <2>2 DEF Unpaid, NothingBefore
  <2>3. QED BY <2>1, <2>2, PaidOnlyBySettlement
<1>4. QED BY <1>2, <1>3 DEF NothingBefore

LEMMA EmissionInvariant == Spec => []EmissionInv
<1>1. Init => NothingBefore
  BY DEF Init, NothingBefore, Initialized
<1>2. TypeOK /\ NothingBefore /\ [Next]_vars => NothingBefore'
  BY NothingBeforeStep
<1>3. QED
  BY <1>1, <1>2, TypeCorrect, LedgerInvariant, DifficultyInvariant, PTL DEF Spec, EmissionInv

\* The instance computes the same rewards and shares.
LEMMA SameSchedule ==
  /\ \A n : Promise!RewardForBlock(n) = RewardForBlock(n)
  /\ \A r : Promise!TreasuryShare(r) = TreasuryFee(r)
BY DEF Promise!RewardForBlock, RewardForBlock, Promise!TreasuryShare, TreasuryFee,
       Promise!EraIndex, EraIndex, Promise!InRange, InRange, Promise!Eras, Eras,
       Promise!ScarcityReward, ScarcityReward

LEMMA EmissionSteps ==
  ASSUME EmissionInv, [Next]_vars
  PROVE  [Promise!EmissionNext]_(Promise!emissionVars)
<1> DEFINE count == config.total_blocks_mined
           reward == block.block_reward
<1>1. /\ TypeOK /\ TypeOK' /\ NothingBefore
      /\ stats \in [Wallets -> MinerStats] /\ stats' \in [Wallets -> MinerStats]
      /\ config \in Configs /\ count \in Nat /\ reward \in Nat
  BY TypeStep DEF EmissionInv, LedgerInv, TypeOK, Configs, Blocks
<1>2. Initialized => /\ block.block_number = config.current_block_number
                     /\ reward = RewardForBlock(count)
  BY DEF EmissionInv, LedgerInv, DifficultyInv, ConfigMatchesBlock, OpenWhileRewardsRemain
<1>3. ASSUME NEW m \in Wallets, NEW p \in Wallets, NEW h \in Hashes,
             ProcessSubmission(m, p, h)
      PROVE  Promise!Settle(m)
  <2> DEFINE fee == TreasuryFee(reward)
  <2>1. /\ Initialized /\ reward > 0
        /\ config'.current_block_number = block.block_number + 1
        /\ config'.total_blocks_mined = count + 1
        /\ config'.total_treasury_fees_distributed
             = config.total_treasury_fees_distributed + fee
    BY <1>3 DEF ProcessSubmission, Initialized
  <2>2. Earned' = [Earned EXCEPT ![m] = @ + reward - fee]
    <3>1. /\ fee \in Nat /\ \A w \in Wallets : stats[w].total_rewards_earned \in Nat
      BY <1>1, FeeIsPart DEF MinerStats
    <3>2. /\ stats'[m].total_rewards_earned
               = stats[m].total_rewards_earned + (reward - fee)
          /\ \A w \in Wallets \ {m} : stats'[w] = stats[w]
      BY <1>1, <1>3, SettlementCredits
    <3> HIDE DEF fee, reward
    <3>3. stats'[m].total_rewards_earned = stats[m].total_rewards_earned + reward - fee
      BY <1>1, <3>1, <3>2
    <3>4. QED BY <3>2, <3>3 DEF Earned
  <2>3. QED BY <1>2, <2>1, <2>2, SameSchedule DEF Promise!Settle, Earned
<1>4. CASE RotateStaleBlock
  <2>1. /\ Initialized /\ reward = RewardForBlock(count) /\ reward > 0
        /\ config' = [config EXCEPT
             !.current_block_number = block.block_number + 1,
             !.difficulty_bits = MinDifficultyBits,
             !.difficulty_target = TargetFromDifficultyBits(MinDifficultyBits)]
        /\ stats' = stats
    BY <1>4 DEF RotateStaleBlock, Stale, Initialized
  <2>2. /\ config'.current_block_number = block.block_number + 1
        /\ config'.total_blocks_mined = count
        /\ config'.total_treasury_fees_distributed
             = config.total_treasury_fees_distributed
    BY <1>1, <2>1 DEF Configs
  <2>3. Promise!Reopen
    BY <1>2, <2>1, <2>2, SameSchedule DEF Promise!Reopen
  <2>4. QED BY <2>3 DEF Promise!EmissionNext
<1>5. CASE Unpaid /\ InitializeProtocol
  <2>1. /\ config.current_block_number = 0 /\ config.total_blocks_mined = 0
        /\ config.total_treasury_fees_distributed = 0
        /\ config'.current_block_number = 0 /\ config'.total_blocks_mined = 0
        /\ config'.total_treasury_fees_distributed = 0
    BY <1>1, <1>5 DEF InitializeProtocol, NothingBefore, Initialized
  <2>2. QED BY <1>5, <2>1 DEF Promise!emissionVars, Unpaid
<1>6. CASE Unpaid /\ Bystander
  BY <1>6 DEF Promise!emissionVars, Unpaid, Bystander
<1>7. QED
  <2>1. ASSUME NEW m \in Wallets, NEW p \in Wallets, NEW h \in Hashes,
               ProcessSubmission(m, p, h)
        PROVE  Promise!EmissionNext
    BY <1>3, <2>1 DEF Promise!EmissionNext
  <2>2. QED BY <1>1, <1>4, <1>5, <1>6, <2>1, StepKinds, PaidOnlyBySettlement

\* The program implements the abstract emission: seen through the counters and
\* the miners' accounts, it pays the rewards of the schedule in order, each to
\* one miner less the treasury's share, whatever happens to blocks in between.
THEOREM ProgramImplementsEmission == Spec => ImplementsEmission
<1>1. Init => Promise!EmissionInit
  BY DEF Init, Promise!EmissionInit
<1>2. EmissionInv /\ [Next]_vars => [Promise!EmissionNext]_(Promise!emissionVars)
  BY EmissionSteps
<1>3. QED BY <1>1, <1>2, EmissionInvariant, PTL DEF Spec, ImplementsEmission, Promise!EmissionSpec

\* Rewards are paid until the whole emission is out and not one block longer, as the
\* abstract emission promises, whatever the program went through on the way.
THEOREM EmissionIsExhausted == Spec => []Promise!ExhaustedExactly
<1>1. ASSUME TypeOK PROVE Promise!ExhaustedExactly
  <2> DEFINE n == config.total_blocks_mined
  <2>1. n \in Nat
    BY <1>1 DEF TypeOK, Configs
  <2>2. EmittedBefore(n) <= TotalProtocolEmissions
    BY <2>1, EmissionBounded
  <2>3. RewardForBlock(n) = 0 <=> EmittedBefore(n) = TotalProtocolEmissions
    BY <2>1, EmissionEnds
  <2>4. Promise!EmittedBefore(n) = EmittedBefore(n)
    BY DEF Promise!EmittedBefore, EmittedBefore, Promise!EraIndex, EraIndex,
           Promise!InRange, InRange, Promise!Eras, Eras, Promise!ScarcityReward, ScarcityReward
  <2> HIDE DEF n
  <2>5. QED BY <2>2, <2>3, <2>4, SameSchedule DEF Promise!ExhaustedExactly, n
<1>2. QED BY <1>1, TypeCorrect, PTL

----------------------------------------------------------------------------
\* The grants are touched by authorisation and by submissions with a session only.
LEMMA GrantStep == TypeOK /\ GrantWithinCap /\ [Next]_vars => GrantWithinCap'
<1> SUFFICES ASSUME TypeOK, GrantWithinCap, [Next]_vars PROVE GrantWithinCap'
  OBVIOUS
<1>1. session \in [Wallets -> MiningSessions] /\ session' \in [Wallets -> MiningSessions]
  BY TypeStep DEF TypeOK
<1>2. CASE session' = session
  BY <1>2 DEF GrantWithinCap
<1>3. ASSUME NEW m \in Wallets, NEW d \in Wallets \cup {NoWallet}, NEW e \in SessionExpiries,
             NEW c \in SessionCaps, AuthorizeMiningSession(m, d, e, c)
      PROVE  GrantWithinCap'
  <2>1. c \in Nat /\ d # NoWallet
    BY <1>3, Deployment DEF AuthorizeMiningSession
  <2> DEFINE grant == [delegate |-> d, expires_at |-> e, max_submissions |-> c,
                       submissions_used |-> 0, active |-> TRUE]
  <2>2. session' = [session EXCEPT ![m] = grant]
    BY <1>3 DEF AuthorizeMiningSession
  <2>3. QED BY <1>1, <2>1, <2>2 DEF GrantWithinCap
<1>4. ASSUME NEW m \in Wallets, NEW d \in Wallets, NEW h \in Hashes,
             SubmitSolutionWithSession(d, m, h)
      PROVE  GrantWithinCap'
  <2> DEFINE grant == session[m]
             after == GrantAfterUse(grant)
  <2>1. /\ grant \in MiningSessions /\ grant.delegate = d /\ grant.active
        /\ grant.max_submissions > 0 => grant.submissions_used < grant.max_submissions
        /\ session' = [session EXCEPT ![m] = after]
    BY <1>1, <1>4 DEF SubmitSolutionWithSession, Grants
  <2>2. d # NoWallet
    BY WalletAssumption DEF WalletAssumption
  <2>3. /\ after.delegate = d /\ after.max_submissions = grant.max_submissions
        /\ after.submissions_used = grant.submissions_used + 1
        /\ after.active <=> ~(/\ grant.max_submissions > 0
                              /\ grant.submissions_used + 1 >= grant.max_submissions)
    <3> HIDE DEF grant
    <3> QED BY <2>1 DEF GrantAfterUse, MiningSessions
  <2>4. grant.submissions_used \in Nat /\ grant.max_submissions \in Nat
    BY <2>1 DEF MiningSessions
  <2>5. /\ after.active => after.delegate # NoWallet
        /\ after.max_submissions > 0 =>
             /\ after.submissions_used <= after.max_submissions
             /\ after.active <=> after.submissions_used < after.max_submissions
    <3> HIDE DEF after, grant
    <3> QED BY <2>1, <2>2, <2>3, <2>4
  <2>6. session'[m] = after /\ \A w \in Wallets \ {m} : session'[w] = session[w]
    BY <1>1, <2>1
  <2> HIDE DEF after, grant
  <2>7. QED BY <2>5, <2>6 DEF GrantWithinCap
<1>5. CASE UNCHANGED vars
  BY <1>2, <1>5 DEF vars, history
<1>6. CASE InitializeProtocol \/ RotateStaleBlock \/ Tick
  BY <1>2, <1>6 DEF InitializeProtocol, RotateStaleBlock, Tick
<1>7. CASE \E f \in Wallets, t \in Accounts, a \in TransferAmounts : TransferTokens(f, t, a)
  BY <1>2, <1>7 DEF TransferTokens
<1>8. CASE \E m \in Wallets, n \in Nickname : RegisterMiner(m, n) \/ UpdateNickname(m, n)
  BY <1>2, <1>8 DEF RegisterMiner, UpdateNickname
<1>9. CASE \E m \in Wallets, h \in Hashes : SubmitSolution(m, h)
  BY <1>2, <1>9 DEF SubmitSolution
<1>10. QED BY <1>3, <1>4, <1>5, <1>6, <1>7, <1>8, <1>9 DEF Next

\* However grants are given, replaced and used, none is exceeded, and it is
\* inactive exactly when it is used up.
THEOREM GrantsStayWithinCap == Spec => []GrantWithinCap
<1>1. Init => GrantWithinCap
  BY DEF Init, GrantWithinCap
<1>2. QED BY <1>1, GrantStep, TypeCorrect, PTL DEF Spec

----------------------------------------------------------------------------
\* When the current block was opened, and until when it is open.
BlockTimes ==
  Initialized =>
    /\ 1 <= block.opened_at /\ block.opened_at <= now
    /\ block.status = "Open" => block.expires_at = NextExpiry(block.opened_at)

\* Every rotation so far took more than a TTL, counted from the first second.
TimeInv == TypeOK /\ DifficultyInv /\ BlockTimes /\ RotationsTakeTheirTime /\ now >= 1

LEMMA BlockTimesStep ==
  ASSUME TimeInv, [Next]_vars
  PROVE  BlockTimes' /\ now' >= 1
<1>1. now \in Nat /\ block \in Blocks /\ now >= 1
  BY DEF TimeInv, TypeOK
<1>2. CASE InitializeProtocol
  BY <1>1, <1>2 DEF InitializeProtocol, BlockTimes
<1>3. CASE RotateStaleBlock \/ \E m, p \in Wallets, h \in Hashes :
                                 ProcessSubmission(m, p, h)
  <2>1. now' = now /\ \E n, r, b, t : block' = BlockAfter(n, r, b, t)
    <3>1. CASE RotateStaleBlock
      BY <3>1 DEF RotateStaleBlock
    <3>2. ASSUME NEW m \in Wallets, NEW p \in Wallets, NEW h \in Hashes,
                 ProcessSubmission(m, p, h)
          PROVE  now' = now /\ \E n, r, b, t : block' = BlockAfter(n, r, b, t)
      BY ONLY <3>2 DEF ProcessSubmission
    <3>3. QED BY <1>3, <3>1, <3>2
  <2>2. /\ block'.opened_at = now
        /\ block'.status = "Open" => block'.expires_at = NextExpiry(now)
    BY <2>1 DEF BlockAfter
  <2>3. QED BY <1>1, <2>1, <2>2 DEF BlockTimes
<1>4. CASE block' = block /\ now' \in Nat /\ now' >= now
  BY <1>1, <1>4 DEF BlockTimes, Initialized, TimeInv, Blocks
<1>5. Bystander => now' \in Nat /\ now' >= now
  <2>1. CASE Tick
    BY <1>1, <2>1 DEF Tick
  <2>2. CASE now' = now
    BY <1>1, <2>2
  <2>3. QED
    BY <2>1, <2>2 DEF Next, vars, history, InitializeProtocol, RegisterMiner, UpdateNickname,
       SubmitSolution, ProcessSubmission, AuthorizeMiningSession,
       SubmitSolutionWithSession, RotateStaleBlock, TransferTokens
<1>6. QED BY <1>2, <1>3, <1>4, <1>5, StepKinds DEF Bystander

LEMMA RotationStep ==
  ASSUME TimeInv, [Next]_vars
  PROVE  RotationsTakeTheirTime'
<1> DEFINE count == config.total_blocks_mined
           number == config.current_block_number
           excess == number - count
           span == BlockTtlSec + 1
<1>1. /\ config \in Configs /\ block \in Blocks /\ now \in Nat
      /\ count \in Nat /\ number \in Nat /\ block.opened_at \in Nat
      /\ BlockTtlSec \in Int /\ span \in Int /\ now >= 1
  BY Deployment DEF TimeInv, TypeOK, Configs, Blocks
<1>2. Initialized =>
        /\ block.block_number = number /\ count <= number /\ excess \in Nat
        /\ block.opened_at <= now
        /\ BlockTtlSec > 0 => excess * span <= block.opened_at - 1
        /\ BlockTtlSec <= 0 => number = count
  BY <1>1 DEF TimeInv, DifficultyInv, ConfigMatchesBlock, RotationsTakeTheirTime, BlockTimes
<1>3. CASE InitializeProtocol
  <2>1. /\ config'.total_blocks_mined = 0 /\ config'.current_block_number = 0
        /\ block'.opened_at = now
    BY <1>3 DEF InitializeProtocol
  <2>2. (0 - 0) * span = 0
    BY <1>1
  <2>3. QED BY <1>1, <2>1, <2>2 DEF RotationsTakeTheirTime
<1>4. ASSUME NEW m \in Wallets, NEW p \in Wallets, NEW h \in Hashes,
             ProcessSubmission(m, p, h)
      PROVE  RotationsTakeTheirTime'
  <2>1. /\ Initialized /\ config'.total_blocks_mined = count + 1
        /\ config'.current_block_number = block.block_number + 1
        /\ block'.opened_at = now
    BY <1>4 DEF ProcessSubmission, BlockAfter, Initialized
  <2>2. /\ config'.total_blocks_mined <= config'.current_block_number
        /\ config'.current_block_number - config'.total_blocks_mined = excess
        /\ BlockTtlSec <= 0 => config'.current_block_number = config'.total_blocks_mined
    BY <1>1, <1>2, <2>1
  <2> DEFINE product == excess * span
  <2>3. product \in Int
    BY <1>1, <1>2, <2>1
  <2> HIDE DEF product
  <2>4. BlockTtlSec > 0 => product <= now - 1
    BY <1>1, <1>2, <2>1, <2>3 DEF product
  <2>5. QED BY <2>1, <2>2, <2>4 DEF RotationsTakeTheirTime, product
<1>5. CASE RotateStaleBlock
  <2>1. /\ Initialized /\ BlockTtlSec > 0 /\ block.status = "Open"
        /\ now > block.expires_at
        /\ config'.total_blocks_mined = count
        /\ config'.current_block_number = block.block_number + 1
        /\ block'.opened_at = now
    BY <1>1, <1>5 DEF RotateStaleBlock, Stale, BlockAfter, Initialized, Configs
  <2>2. block.expires_at = block.opened_at + BlockTtlSec
    BY <2>1 DEF TimeInv, BlockTimes, NextExpiry
  <2>3. /\ config'.total_blocks_mined <= config'.current_block_number
        /\ config'.current_block_number - config'.total_blocks_mined = excess + 1
    BY <1>1, <1>2, <2>1
  <2> DEFINE product == excess * span
  <2>4. (excess + 1) * span = product + span /\ product \in Int
    BY <1>1, <1>2, <2>1
  <2> HIDE DEF product
  <2>5. product + span <= now - 1
    BY <1>1, <1>2, <2>1, <2>2, <2>4 DEF product
  <2>6. QED BY <1>1, <2>1, <2>3, <2>4, <2>5 DEF RotationsTakeTheirTime
<1>6. CASE Bystander
  BY <1>6 DEF Bystander, TimeInv, RotationsTakeTheirTime, Initialized
<1>7. QED BY <1>3, <1>4, <1>5, <1>6, StepKinds

\* Stale rotations are rationed by the clock: r of them since the deployment
\* took more than r whole TTLs, whoever asks for them and however often.
THEOREM RotationsAreRationed == Spec => []RotationsTakeTheirTime
<1>1. Init => TimeInv
  BY TypeInit, DifficultyInit DEF Init, TimeInv, DifficultyInv, BlockTimes,
     RotationsTakeTheirTime, Initialized
<1>2. TimeInv /\ [Next]_vars => TimeInv'
  BY TypeStep, DifficultyStep, BlockTimesStep, RotationStep DEF TimeInv, DifficultyInv
<1>3. TimeInv => RotationsTakeTheirTime
  BY DEF TimeInv
<1>4. QED BY <1>1, <1>2, <1>3, PTL DEF Spec

----------------------------------------------------------------------------
\* An account that was never registered has found nothing, and the first block
\* has number 0: initialisation and registration start no count anew.
NothingFound ==
  /\ ~Initialized => config.current_block_number = 0
  /\ \A m \in Wallets : ~stats[m].registered => stats[m].valid_blocks_found = 0

\* The inductive invariant under which clients see a BlockChain.
ChainInv == EmissionInv /\ NothingFound

Registered == {m \in Wallets : stats[m].registered}
Found == [m \in Wallets |-> stats[m].valid_blocks_found]

\* What a settlement does to the accounts clients see.
LEMMA SettlementCounts ==
  ASSUME TypeOK, NEW m \in Wallets, NEW p \in Wallets, NEW h \in Hashes,
         ProcessSubmission(m, p, h)
  PROVE  /\ m \in Registered /\ Registered' = Registered
         /\ Found' = [Found EXCEPT ![m] = @ + 1]
<1> DEFINE won == block.block_reward - TreasuryFee(block.block_reward)
           account == [stats[m] EXCEPT !.valid_blocks_found = @ + 1,
                                       !.total_rewards_earned = @ + won]
<1>1. stats \in [Wallets -> MinerStats] /\ stats[m].registered
      /\ stats' = [stats EXCEPT ![m] = account]
  BY DEF TypeOK, ProcessSubmission, Credited
<1>2. /\ account.registered = stats[m].registered
      /\ account.valid_blocks_found = stats[m].valid_blocks_found + 1
  BY <1>1 DEF MinerStats
<1> HIDE DEF account
<1>3. stats'[m] = account /\ \A w \in Wallets \ {m} : stats'[w] = stats[w]
  BY <1>1
<1>4. QED BY <1>1, <1>2, <1>3 DEF Registered, Found

\* What registering and renaming do to them.
LEMMA RegistrationCounts ==
  ASSUME TypeOK, NothingFound, NEW m \in Wallets, NEW n \in Nickname,
         RegisterMiner(m, n) \/ UpdateNickname(m, n)
  PROVE  /\ Found' = Found
         /\ Registered' = Registered \/ Registered' = Registered \cup {m}
<1>1. stats \in [Wallets -> MinerStats]
  BY DEF TypeOK
<1>2. CASE RegisterMiner(m, n)
  <2>1. stats'[m].registered /\ \A w \in Wallets \ {m} : stats'[w] = stats[w]
    BY <1>1, <1>2 DEF RegisterMiner, MinerStats
  <2>2. stats'[m].valid_blocks_found = stats[m].valid_blocks_found
    BY <1>1, <1>2 DEF RegisterMiner, MinerStats, NothingFound
  <2>3. QED BY <2>1, <2>2 DEF Registered, Found
<1>3. CASE UpdateNickname(m, n)
  <2>1. \A w \in Wallets : /\ stats'[w].registered = stats[w].registered
                           /\ stats'[w].valid_blocks_found = stats[w].valid_blocks_found
    BY <1>1, <1>3 DEF UpdateNickname, MinerStats
  <2>2. QED BY <2>1 DEF Registered, Found
<1>4. QED BY <1>2, <1>3

\* The steps clients do not see.
Unseen == UNCHANGED <<config, block, stats, now>>

LEMMA SeenSteps ==
  ASSUME [Next]_vars
  PROVE  \/ InitializeProtocol
         \/ \E m \in Wallets, n \in Nickname : RegisterMiner(m, n) \/ UpdateNickname(m, n)
         \/ \E m, p \in Wallets, h \in Hashes : ProcessSubmission(m, p, h)
         \/ RotateStaleBlock
         \/ Tick
         \/ Unseen
<1>1. CASE UNCHANGED vars
  BY <1>1 DEF vars, history, Unseen
<1>2. CASE \E f \in Wallets, t \in Accounts, a \in TransferAmounts : TransferTokens(f, t, a)
  BY <1>2 DEF TransferTokens, Unseen
<1>3. CASE \E w \in Wallets, d \in Wallets \cup {NoWallet}, e \in SessionExpiries,
              c \in SessionCaps : AuthorizeMiningSession(w, d, e, c)
  BY <1>3 DEF AuthorizeMiningSession, Unseen
<1>4. CASE \/ \E w \in Wallets, h \in Hashes : SubmitSolution(w, h)
           \/ \E w, d \in Wallets, h \in Hashes : SubmitSolutionWithSession(d, w, h)
  BY <1>4 DEF SubmitSolution, SubmitSolutionWithSession
<1>5. QED BY <1>1, <1>2, <1>3, <1>4 DEF Next

LEMMA ChainSteps ==
  ASSUME ChainInv, [Next]_vars
  PROVE  [Seen!ChainNext]_(Seen!chainVars) /\ NothingFound'
<1>1. /\ TypeOK /\ NothingFound
      /\ stats \in [Wallets -> MinerStats] /\ config \in Configs /\ block \in Blocks
  BY DEF ChainInv, EmissionInv, LedgerInv, TypeOK
<1>2. Initialized => /\ block.block_number = config.current_block_number
                     /\ config.current_block_number \in Nat
                     /\ block.status = "Open" <=> block.block_reward > 0
                     /\ block.block_reward = RewardForBlock(config.total_blocks_mined)
  BY <1>1 DEF ChainInv, EmissionInv, LedgerInv, DifficultyInv, ConfigMatchesBlock,
              OpenWhileRewardsRemain, Configs
<1>3. Unseen \/ Tick => NothingFound'
  BY <1>1 DEF Unseen, Tick, NothingFound, Initialized
<1>4. Seen!Expiry = NextExpiry(now)
  BY DEF Seen!Expiry, NextExpiry
<1>5. ASSUME NEW m \in Wallets, NEW p \in Wallets, NEW h \in Hashes,
             ProcessSubmission(m, p, h)
      PROVE  Seen!Settle(m) /\ NothingFound'
  <2>1. /\ m \in Registered /\ Registered' = Registered
        /\ Found' = [Found EXCEPT ![m] = @ + 1]
    BY <1>1, <1>5, SettlementCounts
  <2>2. /\ Initialized /\ block.status = "Open"
        /\ block.expires_at > 0 => now <= block.expires_at
        /\ config'.current_block_number = block.block_number + 1
        /\ now' = now
        /\ \E n, r, b, t : block' = BlockAfter(n, r, b, t)
    BY ONLY <1>5 DEF ProcessSubmission, Initialized
  <2>3. \/ block'.status = "Open" /\ block'.expires_at = NextExpiry(now)
        \/ block'.status = "Closed" /\ block'.expires_at = 0
    BY <2>2 DEF BlockAfter
  <2>4. Seen!Settle(m)
    BY <1>2, <1>4, <2>1, <2>2, <2>3 DEF Seen!Settle, Seen!InTime, Registered, Found
  <2>5. Initialized'
    BY <2>3 DEF Initialized
  <2>6. \A w \in Wallets : ~stats'[w].registered => stats'[w].valid_blocks_found = 0
    <3>1. ASSUME NEW w \in Wallets, ~stats'[w].registered
          PROVE  stats'[w].valid_blocks_found = 0
      <4>1. w \notin Registered /\ w # m
        BY <2>1, <3>1 DEF Registered
      <4>2. Found'[w] = Found[w]
        BY <2>1, <4>1 DEF Found
      <4>3. QED BY <1>1, <4>1, <4>2 DEF Found, Registered, NothingFound
    <3>2. QED BY <3>1
  <2>7. QED BY <2>4, <2>5, <2>6 DEF NothingFound
<1>6. CASE RotateStaleBlock
  <2>1. /\ Initialized /\ block.status = "Open"
        /\ block.expires_at > 0 /\ now > block.expires_at
        /\ config'.current_block_number = block.block_number + 1
        /\ stats' = stats /\ now' = now
        /\ block'.status = "Open" /\ block'.expires_at = NextExpiry(now)
    BY <1>1, <1>6 DEF RotateStaleBlock, Stale, BlockAfter, Initialized, Configs
  <2>2. now \in Nat /\ block.expires_at \in Nat
    BY <1>1 DEF TypeOK, Blocks
  <2>3. Seen!Rotate
    BY <1>2, <1>4, <2>1, <2>2 DEF Seen!Rotate, Seen!InTime
  <2>4. NothingFound'
    BY <1>1, <2>1 DEF NothingFound, Initialized
  <2>5. QED BY <2>3, <2>4 DEF Seen!ChainNext
<1>7. CASE InitializeProtocol
  <2>1. /\ config.current_block_number = 0 /\ config'.current_block_number = 0
        /\ block.status = "Absent" /\ block'.status = "Open"
        /\ block'.expires_at = NextExpiry(now) /\ stats' = stats /\ now' = now
    BY <1>1, <1>7 DEF InitializeProtocol, NothingFound, Initialized
  <2>2. Seen!OpenFirst
    BY <1>4, <2>1 DEF Seen!OpenFirst
  <2>3. NothingFound'
    BY <1>1, <2>1 DEF NothingFound
  <2>4. QED BY <2>2, <2>3 DEF Seen!ChainNext
<1>8. ASSUME NEW m \in Wallets, NEW n \in Nickname, RegisterMiner(m, n) \/ UpdateNickname(m, n)
      PROVE  [Seen!ChainNext]_(Seen!chainVars) /\ NothingFound'
  <2>1. /\ Found' = Found
        /\ Registered' = Registered \/ Registered' = Registered \cup {m}
    BY <1>1, <1>8, RegistrationCounts
  <2>2. config' = config /\ block' = block /\ now' = now
    BY <1>8 DEF RegisterMiner, UpdateNickname
  <2>3. Registered' = Registered => UNCHANGED Seen!chainVars
    BY <2>1, <2>2 DEF Seen!chainVars, Registered, Found
  <2>4. Registered' = Registered \cup {m} => Seen!Register(m)
    BY <2>1, <2>2 DEF Seen!Register, Registered, Found
  <2>5. \A w \in Wallets : ~stats'[w].registered => stats'[w].valid_blocks_found = 0
    <3>1. ASSUME NEW w \in Wallets, ~stats'[w].registered
          PROVE  stats'[w].valid_blocks_found = 0
      <4>1. w \notin Registered
        BY <2>1, <3>1 DEF Registered
      <4>2. Found'[w] = Found[w]
        BY <2>1
      <4>3. QED BY <1>1, <4>1, <4>2 DEF Found, Registered, NothingFound
    <3>2. QED BY <3>1
  <2>6. NothingFound'
    BY <1>1, <2>2, <2>5 DEF NothingFound, Initialized
  <2>7. QED BY <2>1, <2>3, <2>4, <2>6 DEF Seen!ChainNext
<1>9. CASE Tick
  <2>1. Seen!Pass
    BY <1>9 DEF Tick, Seen!Pass
  <2>2. QED BY <1>3, <1>9, <2>1 DEF Seen!ChainNext
<1>10. CASE Unseen
  BY <1>3, <1>10 DEF Unseen, Seen!chainVars
<1>11. ASSUME \E m, p \in Wallets, h \in Hashes : ProcessSubmission(m, p, h)
       PROVE  [Seen!ChainNext]_(Seen!chainVars) /\ NothingFound'
  BY <1>5, <1>11 DEF Seen!ChainNext
<1>12. QED BY <1>6, <1>7, <1>8, <1>9, <1>10, <1>11, SeenSteps

\* The program implements what its clients are modelled on: whatever the
\* instructions, a block is left only by a settlement in time or a rotation after
\* it, and an account once registered only grows.
THEOREM ProgramImplementsBlockChain == Spec => ImplementsBlockChain
<1>1. Init => NothingFound /\ Seen!ChainInit
  BY DEF Init, NothingFound, Initialized, Seen!ChainInit
<1>2. ChainInv /\ [Next]_vars => NothingFound' /\ [Seen!ChainNext]_(Seen!chainVars)
  BY ChainSteps
<1>3. QED
  BY <1>1, <1>2, EmissionInvariant, PTL DEF Spec, ChainInv, ImplementsBlockChain, Seen!ChainSpec

----------------------------------------------------------------------------
(* Sums over a finite set *)

First(s) == CHOOSE x \in s : TRUE

\* The sums of f over the subsets of S, each from that over a smaller one.
Sums(f, S, sum) ==
  sum = [s \in SUBSET S |-> IF s = {} THEN 0 ELSE f[First(s)] + sum[s \ {First(s)}]]

\* A set without one of its elements.
LEMMA WithoutOne ==
  ASSUME NEW S, IsFiniteSet(S), NEW s \in SUBSET S, s # {}
  PROVE  /\ First(s) \in s /\ s \ {First(s)} \in SUBSET S
         /\ Cardinality(s) \in Nat \ {0} /\ Cardinality(s \ {First(s)}) = Cardinality(s) - 1
<1>1. First(s) \in s
  BY DEF First
<1>2. IsFiniteSet(s)
  BY FS_Subset
<1>3. Cardinality(s) \in Nat /\ Cardinality(s) # 0
  BY <1>2, FS_CardinalityType, FS_EmptySet
<1>4. Cardinality(s \ {First(s)}) = Cardinality(s) - 1
  BY <1>1, <1>2, FS_RemoveElement
<1>5. QED
  BY <1>1, <1>3, <1>4

\* The table of sums is well defined.
LEMMA SumsExist ==
  ASSUME NEW f, NEW S, IsFiniteSet(S)
  PROVE  \E sum : Sums(f, S, sum) /\ SumFunctionOnSet(f, S) = sum[S]
<1> DEFINE Small(n) == {s \in SUBSET S : Cardinality(s) <= n}
           Table(n, sum) ==
             sum = [s \in Small(n) |-> IF s = {} THEN 0 ELSE f[First(s)] + sum[s \ {First(s)}]]
           P == {n \in Nat : \E sum : Table(n, sum)}
<1>1. 0 \in P
  <2>1. ASSUME NEW s \in Small(0) PROVE s = {}
    <3>1. s \in SUBSET S /\ Cardinality(s) <= 0
      OBVIOUS
    <3> HIDE DEF Small
    <3>2. s # {} => Cardinality(s) \in Nat \ {0}
      BY <3>1, WithoutOne
    <3>3. QED
      BY <3>1, <3>2
  <2>2. Table(0, [s \in Small(0) |-> 0])
    BY <2>1
  <2>3. QED
    BY <2>2
<1>2. ASSUME NEW n \in Nat, n \in P PROVE n + 1 \in P
  <2>1. PICK sum : Table(n, sum)
    <3>1. \E sum : Table(n, sum)
      <4> HIDE DEF Table
      <4> QED
        BY <1>2
    <3>2. QED
      BY <3>1, Zenon
  <2> DEFINE more == [s \in Small(n + 1) |-> IF s = {} THEN 0 ELSE f[First(s)] + sum[s \ {First(s)}]]
  <2>2. ASSUME NEW s \in Small(n + 1), s # {}
        PROVE  /\ s \ {First(s)} \in Small(n) /\ s \ {First(s)} \in Small(n + 1)
    <3>1. /\ s \ {First(s)} \in SUBSET S
          /\ Cardinality(s) \in Nat \ {0} /\ Cardinality(s \ {First(s)}) = Cardinality(s) - 1
      BY <2>2, WithoutOne
    <3>2. Cardinality(s) <= n + 1
      OBVIOUS
    <3>3. QED
      BY <3>1, <3>2
  <2> HIDE DEF Small
  <2>3. ASSUME NEW s \in Small(n), s \in Small(n + 1) PROVE more[s] = sum[s]
    BY <2>1, <2>3
  <2>4. more = [s \in Small(n + 1) |-> IF s = {} THEN 0 ELSE f[First(s)] + more[s \ {First(s)}]]
    <3>1. \A s \in Small(n + 1) : s # {} => more[s \ {First(s)}] = sum[s \ {First(s)}]
      BY <2>2, <2>3
    <3> DEFINE value(s) == IF s = {} THEN 0 ELSE f[First(s)] + more[s \ {First(s)}]
    <3>2. \A s \in Small(n + 1) : more[s] = value(s)
      BY <3>1
    <3>3. more = [s \in Small(n + 1) |-> more[s]]
      OBVIOUS
    <3> HIDE DEF more, value
    <3>4. more = [s \in Small(n + 1) |-> value(s)]
      BY <3>2, <3>3
    <3>5. QED
      BY <3>4 DEF value
  <2>5. Table(n + 1, more)
    BY <2>4
  <2> HIDE DEF Table, more
  <2>6. QED
    BY <2>5
<1>3. Cardinality(S) \in P
  <2>1. Nat \subseteq P
    <3> HIDE DEF P
    <3> QED
      BY <1>1, <1>2, SetInduction
  <2>2. Cardinality(S) \in Nat
    BY FS_CardinalityType
  <2>3. QED
    BY <2>1, <2>2
<1>4. Small(Cardinality(S)) = SUBSET S
  BY FS_Subset
<1>5. \E sum : Sums(f, S, sum)
  <2>1. \A sum : Table(Cardinality(S), sum) <=> Sums(f, S, sum)
    BY <1>4 DEF Sums
  <2> HIDE DEF Table
  <2>2. QED
    BY <1>3, <2>1
<1>6. SumFunctionOnSet(f, S) = (CHOOSE sum : Sums(f, S, sum))[S]
  BY DEF SumFunctionOnSet, FoldFunctionOnSet, MapThenFoldSet, Sums, First
<1>7. QED
  BY <1>5, <1>6

\* Two functions that differ in one place have sums that differ as much.
LEMMA SumChange ==
  ASSUME NEW S, IsFiniteSet(S), NEW f \in [S -> Int], NEW g \in [S -> Int], NEW m \in S,
         \A x \in S : x # m => g[x] = f[x]
  PROVE  /\ SumFunctionOnSet(f, S) \in Int /\ SumFunctionOnSet(g, S) \in Int
         /\ SumFunctionOnSet(g, S) - SumFunctionOnSet(f, S) = g[m] - f[m]
<1>1. PICK F : Sums(f, S, F) /\ SumFunctionOnSet(f, S) = F[S]
  BY SumsExist
<1>2. PICK G : Sums(g, S, G) /\ SumFunctionOnSet(g, S) = G[S]
  BY SumsExist
<1> DEFINE Holds(s) == F[s] \in Int /\ G[s] \in Int
                       /\ G[s] - F[s] = IF m \in s THEN g[m] - f[m] ELSE 0
           P == {n \in Nat : \A s \in SUBSET S : Cardinality(s) = n => Holds(s)}
<1>3. 0 \in P
  <2> SUFFICES ASSUME NEW s \in SUBSET S, Cardinality(s) = 0 PROVE Holds(s)
    OBVIOUS
  <2>1. s = {}
    BY WithoutOne
  <2>2. QED
    BY <1>1, <1>2, <2>1 DEF Sums
<1>4. ASSUME NEW n \in Nat, n \in P PROVE n + 1 \in P
  <2> SUFFICES ASSUME NEW s \in SUBSET S, Cardinality(s) = n + 1 PROVE Holds(s)
    OBVIOUS
  <2> DEFINE x == First(s)
             r == s \ {First(s)}
  <2>1. s # {}
    BY FS_EmptySet
  <2>2. x \in s /\ x \in S /\ r \in SUBSET S /\ Cardinality(r) = n
    BY <2>1, WithoutOne
  <2>3. F[s] = f[x] + F[r] /\ G[s] = g[x] + G[r]
    BY <1>1, <1>2, <2>1 DEF Sums
  <2>4. Holds(r)
    BY <1>4, <2>2
  <2>5. m \in s <=> m = x \/ m \in r
    BY <2>2
  <2>6. x \notin r
    OBVIOUS
  <2> HIDE DEF x, r
  <2>7. f[x] \in Int /\ g[x] \in Int
    BY <2>2
  <2>8. x # m => g[x] = f[x]
    BY <2>2
  <2>9. QED
    BY <2>3, <2>4, <2>5, <2>6, <2>7, <2>8
<1>5. Holds(S)
  <2>1. Nat \subseteq P
    <3> HIDE DEF P
    <3> QED
      BY <1>3, <1>4, SetInduction
  <2>2. Cardinality(S) \in Nat
    BY FS_CardinalityType
  <2>3. QED
    BY <2>1, <2>2
<1>6. QED
  BY <1>1, <1>2, <1>5

\* The sum of nothings is nothing.
LEMMA SumOfNothing ==
  ASSUME NEW S, IsFiniteSet(S), NEW f, \A x \in S : f[x] = 0
  PROVE  SumFunctionOnSet(f, S) = 0
<1>1. PICK F : Sums(f, S, F) /\ SumFunctionOnSet(f, S) = F[S]
  BY SumsExist
<1> DEFINE P == {n \in Nat : \A s \in SUBSET S : Cardinality(s) = n => F[s] = 0}
<1>2. 0 \in P
  <2> SUFFICES ASSUME NEW s \in SUBSET S, Cardinality(s) = 0 PROVE F[s] = 0
    OBVIOUS
  <2>1. s = {}
    BY WithoutOne
  <2>2. QED
    BY <1>1, <2>1 DEF Sums
<1>3. ASSUME NEW n \in Nat, n \in P PROVE n + 1 \in P
  <2> SUFFICES ASSUME NEW s \in SUBSET S, Cardinality(s) = n + 1 PROVE F[s] = 0
    OBVIOUS
  <2>1. s # {}
    BY FS_EmptySet
  <2>2. First(s) \in S /\ F[s \ {First(s)}] = 0
    BY <1>3, <2>1, WithoutOne
  <2>3. F[s] = f[First(s)] + F[s \ {First(s)}]
    BY <1>1, <2>1 DEF Sums
  <2>4. QED
    BY <2>2, <2>3
<1>4. Cardinality(S) \in P
  <2>1. Nat \subseteq P
    <3> HIDE DEF P
    <3> QED
      BY <1>2, <1>3, SetInduction
  <2>2. QED
    BY <2>1, FS_CardinalityType
<1>5. QED
  BY <1>1, <1>4

----------------------------------------------------------------------------
(* The abstract emission, of any miners *)

\* The treasury's share is a part of the reward, whatever the fee.
LEMMA ShareIsPart ==
  ASSUME NEW reward \in Nat
  PROVE  /\ TreasuryShare(reward) \in Nat
         /\ TreasuryShare(reward) <= reward
         /\ reward - TreasuryShare(reward) \in Nat
<1>1. FeeBps \in Nat /\ FeeBps <= 10000
  BY PayeeAssumption DEF PayeeAssumption
<1>2. reward * FeeBps \in Nat /\ reward * FeeBps <= reward * 10000
  BY <1>1
<1> DEFINE product == reward * FeeBps
<1>3. /\ product \div 10000 \in Nat
      /\ product \div 10000 <= reward
  <2> HIDE DEF product
  <2> SUFFICES ASSUME product \in Nat, product <= reward * 10000
               PROVE  product \div 10000 \in Nat /\ product \div 10000 <= reward
    BY <1>2 DEF product
  <2>1. QED OBVIOUS
<1>4. QED BY <1>3 DEF TreasuryShare

\* The inductive invariant of the abstract emission.
PaymentsInv == EmissionTypeOK /\ PaidBySchedule

LEMMA PaymentsInit == EmissionInit => PaymentsInv
<1> SUFFICES ASSUME EmissionInit PROVE PaymentsInv
  OBVIOUS
<1>1. /\ mined = 0 /\ treasury = 0 /\ height = 0
      /\ earned = [m \in Miners |-> 0]
  BY DEF EmissionInit
<1>2. SumFunctionOnSet(earned, Miners) = 0
  BY <1>1, PayeeAssumption, SumOfNothing DEF PayeeAssumption
<1>3. PaidBySchedule
  BY <1>1, <1>2, NothingEmittedYet DEF PaidBySchedule
<1>4. RewardedBlocks \in Nat
  BY RewardsEndOnce, 0 \in Nat
<1>5. EmissionTypeOK
  BY <1>1, <1>4 DEF EmissionTypeOK
<1>6. QED BY <1>3, <1>5 DEF PaymentsInv

\* A payment adds to both sides of the books one reward of the schedule.
LEMMA PaymentsStep == PaymentsInv /\ [EmissionNext]_emissionVars => PaymentsInv'
<1> SUFFICES ASSUME PaymentsInv, [EmissionNext]_emissionVars PROVE PaymentsInv'
  OBVIOUS
<1>1. /\ height \in Nat /\ mined \in 0 .. RewardedBlocks /\ mined \in Nat
      /\ earned \in [Miners -> Nat] /\ treasury \in Nat /\ RewardedBlocks \in Nat
      /\ SumFunctionOnSet(earned, Miners) + treasury = EmittedBefore(mined)
  <2>1. RewardedBlocks \in Nat
    BY RewardsEndOnce, 0 \in Nat
  <2>2. QED BY <2>1 DEF PaymentsInv, EmissionTypeOK, PaidBySchedule
<1>2. ASSUME NEW m \in Miners, Settle(m) PROVE PaymentsInv'
  <2> DEFINE reward == RewardForBlock(mined)
             fee == TreasuryShare(reward)
             won == reward - fee
  <2>1. /\ reward > 0 /\ height' = height + 1 /\ mined' = mined + 1
        /\ earned' = [earned EXCEPT ![m] = @ + reward - fee]
        /\ treasury' = treasury + fee
    BY <1>2 DEF Settle
  <2>2. reward \in Nat /\ mined < RewardedBlocks
    BY <1>1, <2>1, RewardsEndOnce
  <2>3. fee \in Nat /\ won \in Nat
    BY <2>2, ShareIsPart
  <2>4. EmittedBefore(mined + 1) = EmittedBefore(mined) + reward
    BY <1>1, EmissionStep
  <2> HIDE DEF reward, fee
  <2>5. earned' \in [Miners -> Nat] /\ earned'[m] = earned[m] + won
        /\ \A w \in Miners : w # m => earned'[w] = earned[w]
    <3>1. earned[m] \in Nat /\ earned[m] + reward - fee = earned[m] + won
      BY <1>1, <2>2, <2>3
    <3>2. earned' = [earned EXCEPT ![m] = earned[m] + won]
      BY <1>1, <2>1, <3>1
    <3>3. earned[m] + won \in Nat
      BY <2>3, <3>1
    <3> HIDE DEF won
    <3>4. QED BY <1>1, <3>2, <3>3
  <2>6. /\ SumFunctionOnSet(earned, Miners) \in Int /\ SumFunctionOnSet(earned', Miners) \in Int
        /\ SumFunctionOnSet(earned', Miners) - SumFunctionOnSet(earned, Miners)
             = earned'[m] - earned[m]
    <3>1. earned \in [Miners -> Int] /\ earned' \in [Miners -> Int]
      BY <1>1, <2>5
    <3>2. QED BY <2>5, <3>1, PayeeAssumption, SumChange DEF PayeeAssumption
  <2>7. SumFunctionOnSet(earned', Miners) + treasury' = EmittedBefore(mined + 1)
    <3>1. earned[m] \in Nat /\ EmittedBefore(mined) \in Nat
      BY <1>1, EmissionBounded
    <3>2. QED BY <1>1, <2>1, <2>2, <2>3, <2>4, <2>5, <2>6, <3>1
  <2>8. PaidBySchedule'
    BY <2>1, <2>7 DEF PaidBySchedule
  <2>9. EmissionTypeOK'
    BY <1>1, <2>1, <2>2, <2>3, <2>5 DEF EmissionTypeOK
  <2>10. QED BY <2>8, <2>9 DEF PaymentsInv
<1>3. CASE Reopen
  <2>1. height' = height + 1 /\ mined' = mined /\ earned' = earned /\ treasury' = treasury
    BY <1>3 DEF Reopen
  <2>2. QED BY <1>1, <2>1
            DEF PaymentsInv, EmissionTypeOK, PaidBySchedule
<1>4. CASE UNCHANGED emissionVars
  <2>1. height' = height /\ mined' = mined /\ earned' = earned /\ treasury' = treasury
    BY <1>4 DEF emissionVars
  <2>2. QED BY <2>1 DEF PaymentsInv, EmissionTypeOK, PaidBySchedule
<1>5. QED BY <1>2, <1>3, <1>4 DEF EmissionNext

LEMMA PaymentsInvariant == EmissionSpec => []PaymentsInv
BY PaymentsInit, PaymentsStep, PTL DEF EmissionSpec

\* For every schedule of contiguous eras, every fee and any miners: what the abstract
\* emission has paid is, block for block, the cumulative column (reward_for_block).
THEOREM EmissionPaysBySchedule == EmissionSpec => []PaidBySchedule
<1>1. PaymentsInv => PaidBySchedule
  BY DEF PaymentsInv
<1>2. QED BY <1>1, PaymentsInvariant, PTL

\* It pays until the whole emission is out and not one block longer, and never owes or
\* keeps a remainder (reward_for_block, TOTAL_PROTOCOL_EMISSIONS).
THEOREM EmissionExhaustsItself == EmissionSpec => []ExhaustedExactly
<1>1. ASSUME PaymentsInv PROVE ExhaustedExactly
  <2>1. mined \in Nat
    <3>1. RewardedBlocks \in Nat
      BY RewardsEndOnce, 0 \in Nat
    <3>2. QED BY <1>1, <3>1 DEF PaymentsInv, EmissionTypeOK
  <2>2. EmittedBefore(mined) <= TotalProtocolEmissions
    BY <2>1, EmissionBounded
  <2>3. RewardForBlock(mined) = 0 <=> EmittedBefore(mined) = TotalProtocolEmissions
    BY <2>1, EmissionEnds
  <2>4. QED BY <2>2, <2>3 DEF ExhaustedExactly
<1>2. QED BY <1>1, PaymentsInvariant, PTL

----------------------------------------------------------------------------
(* The books *)

LEMMA ChainInvariant == Spec => []ChainInv
<1>1. Init => NothingFound
  BY DEF Init, NothingFound, Initialized
<1>2. ChainInv /\ [Next]_vars => NothingFound'
  BY ChainSteps
<1>3. QED
  BY <1>1, <1>2, EmissionInvariant, PTL DEF Spec, ChainInv

\* Before initialisation nothing has been distributed.
NothingDistributed == ~Initialized => config.total_rewards_distributed = 0

\* The inductive invariant of the books.
BooksInv == ChainInv /\ NothingDistributed /\ AccountsAddUp

\* A transfer leaves the sum of the balances.
LEMMA MoveKeepsSum ==
  ASSUME NEW S, IsFiniteSet(S), NEW balance \in [S -> Int], NEW from \in S, NEW to \in S,
         NEW amount \in Int
  PROVE  /\ Move(balance, from, to, amount) \in [S -> Int]
         /\ SumOver(Move(balance, from, to, amount)) = SumOver(balance)
<1> DEFINE less == [balance EXCEPT ![from] = balance[from] - amount]
           moved == Move(balance, from, to, amount)
<1>1. /\ less \in [S -> Int] /\ less[from] = balance[from] - amount
      /\ \A a \in S : a # from => less[a] = balance[a]
  OBVIOUS
<1>2. moved \in [S -> Int]
  BY DEF Move
<1>3. \A a \in S : moved[a] = IF a = to THEN less[a] + amount ELSE less[a]
  BY DEF Move
<1> HIDE DEF less, moved
<1>4. /\ SumFunctionOnSet(balance, S) \in Int /\ SumFunctionOnSet(less, S) \in Int
      /\ SumFunctionOnSet(less, S) - SumFunctionOnSet(balance, S) = less[from] - balance[from]
  BY <1>1, SumChange
<1>5. /\ SumFunctionOnSet(moved, S) \in Int
      /\ SumFunctionOnSet(moved, S) - SumFunctionOnSet(less, S) = moved[to] - less[to]
  BY <1>1, <1>2, <1>3, SumChange
<1>6. less[from] - balance[from] = -amount /\ moved[to] - less[to] = amount
  BY <1>1, <1>3
<1>7. SumFunctionOnSet(moved, S) = SumFunctionOnSet(balance, S)
  BY <1>4, <1>5, <1>6
<1>8. DOMAIN moved = S /\ DOMAIN balance = S
  BY <1>2
<1>9. SumOver(moved) = SumOver(balance)
  BY <1>7, <1>8 DEF SumOver
<1>10. QED
  BY <1>2, <1>9 DEF moved

\* The books add up at the start: nothing but what is in the vault.
LEMMA BooksInit == Init => NothingDistributed /\ AccountsAddUp
<1> SUFFICES ASSUME Init PROVE NothingDistributed /\ AccountsAddUp
  OBVIOUS
<1>1. IsFiniteSet(Wallets) /\ IsFiniteSet(Accounts)
  BY AuditAssumption, FS_AddElement DEF Accounts
<1>2. NothingDistributed
  BY DEF Init, NothingDistributed
<1>3. SumOver(token) \in VaultFundings
  <2>1. PICK funding \in VaultFundings :
          token = [a \in Accounts |-> IF a = RewardVault THEN funding ELSE 0]
    BY DEF Init
  <2> DEFINE none == [a \in Accounts |-> 0]
  <2>2. SumFunctionOnSet(none, Accounts) = 0
    BY <1>1, SumOfNothing
  <2>3. /\ RewardVault \in Accounts /\ funding \in Int
        /\ token \in [Accounts -> Int] /\ none \in [Accounts -> Int]
        /\ token[RewardVault] = funding /\ none[RewardVault] = 0
        /\ \A a \in Accounts : a # RewardVault => token[a] = none[a]
    BY <2>1, Deployment DEF Accounts
  <2> HIDE DEF none
  <2>4. /\ SumFunctionOnSet(token, Accounts) \in Int
        /\ SumFunctionOnSet(token, Accounts) - SumFunctionOnSet(none, Accounts)
             = token[RewardVault] - none[RewardVault]
    BY <1>1, <2>3, SumChange
  <2>5. SumFunctionOnSet(token, Accounts) = funding
    BY <2>2, <2>3, <2>4
  <2>6. DOMAIN token = Accounts
    BY <2>1
  <2>7. QED
    BY <2>5, <2>6 DEF SumOver
<1>4. SumOver(Found) = 0 /\ SumOver(Earned) = 0
  <2>1. \A m \in Wallets : Found[m] = 0 /\ Earned[m] = 0
    BY DEF Init, Found, Earned
  <2>2. DOMAIN Found = Wallets /\ DOMAIN Earned = Wallets
    BY DEF Found, Earned
  <2>3. QED
    BY <1>1, <2>1, <2>2, SumOfNothing DEF SumOver
<1>5. /\ config.total_blocks_mined = 0 /\ config.total_treasury_fees_distributed = 0
      /\ config.total_rewards_distributed = 0
  BY DEF Init
<1>6. QED
  BY <1>2, <1>3, <1>4, <1>5 DEF AccountsAddUp, Found, Earned

\* All but a settlement leave what miners have found and earned, and move tokens, if at
\* all, from one account to another.
LEMMA BystandersMoveOnly ==
  ASSUME ChainInv, [Next]_vars,
         ~\E m, p \in Wallets, h \in Hashes : ProcessSubmission(m, p, h)
  PROVE  /\ Found' = Found /\ Earned' = Earned
         /\ token' = token \/ \E f \in Wallets, t \in Accounts, a \in TransferAmounts :
                                TransferTokens(f, t, a)
<1>1. TypeOK /\ NothingBefore /\ NothingFound
  BY DEF ChainInv, EmissionInv, LedgerInv
<1>2. Earned' = Earned
  BY <1>1, PaidOnlyBySettlement DEF Unpaid, Earned
<1>3. Found' = Found
  <2>1. ASSUME NEW m \in Wallets, NEW n \in Nickname, RegisterMiner(m, n) \/ UpdateNickname(m, n)
        PROVE  Found' = Found
    BY <1>1, <2>1, RegistrationCounts
  <2>2. CASE InitializeProtocol \/ RotateStaleBlock \/ Tick \/ Unseen
    BY <2>2 DEF InitializeProtocol, RotateStaleBlock, Tick, Unseen, Found
  <2>3. QED
    BY <2>1, <2>2, SeenSteps
<1>4. token' = token \/ \E f \in Wallets, t \in Accounts, a \in TransferAmounts :
                           TransferTokens(f, t, a)
  BY StepKinds DEF InitializeProtocol, RotateStaleBlock, Bystander
<1>5. QED
  BY <1>2, <1>3, <1>4

\* A settlement adds one block to what its miner found and its share to what it earned.
LEMMA BooksOfSettlement ==
  ASSUME BooksInv, NEW m \in Wallets, NEW p \in Wallets, NEW h \in Hashes,
         ProcessSubmission(m, p, h)
  PROVE  AccountsAddUp'
<1> DEFINE reward == block.block_reward
           fee == TreasuryFee(reward)
           won == reward - fee
<1>1. /\ TypeOK /\ AccountsAddUp /\ IsFiniteSet(Wallets) /\ IsFiniteSet(Accounts)
  BY AuditAssumption, FS_AddElement DEF BooksInv, ChainInv, EmissionInv, LedgerInv, Accounts
<1>2. reward \in Nat /\ fee \in Nat /\ won \in Nat
  BY <1>1, FeeIsPart DEF TypeOK, Blocks
<1>3. SumOver(token') \in VaultFundings
  <2>1. RewardVault \in Accounts /\ m \in Accounts /\ Treasury \in Accounts
        /\ token \in [Accounts -> Int]
    BY <1>1, Deployment DEF Accounts, TypeOK
  <2> DEFINE paid == Move(token, RewardVault, m, won)
  <2>2. token' = Move(paid, RewardVault, Treasury, fee)
    BY DEF ProcessSubmission, PayOut
  <2>3. IsFiniteSet(Accounts) /\ fee \in Int /\ won \in Int
    BY <1>1, <1>2
  <2> HIDE DEF fee, won
  <2>4. paid \in [Accounts -> Int]
    BY <2>1, <2>3, MoveKeepsSum
  <2>5. SumOver(paid) = SumOver(token)
    BY <2>1, <2>3, MoveKeepsSum
  <2> HIDE DEF paid
  <2>6. SumOver(token') = SumOver(paid)
    BY <2>1, <2>2, <2>3, <2>4, MoveKeepsSum
  <2>7. QED
    BY <1>1, <2>5, <2>6 DEF AccountsAddUp
<1>4. /\ Found \in [Wallets -> Int] /\ Found' \in [Wallets -> Int] /\ Found'[m] = Found[m] + 1
      /\ \A w \in Wallets : w # m => Found'[w] = Found[w]
  <2>1. Found \in [Wallets -> Int]
    BY <1>1 DEF Found, TypeOK, MinerStats
  <2>2. Found' = [Found EXCEPT ![m] = @ + 1]
    BY <1>1, SettlementCounts
  <2>3. QED
    BY <2>1, <2>2
<1>5. /\ Earned \in [Wallets -> Int] /\ Earned' \in [Wallets -> Int] /\ Earned'[m] = Earned[m] + won
      /\ \A w \in Wallets : w # m => Earned'[w] = Earned[w]
  <2>1. Earned \in [Wallets -> Int]
    BY <1>1 DEF Earned, TypeOK, MinerStats
  <2>2. /\ stats'[m].total_rewards_earned = stats[m].total_rewards_earned + won
        /\ \A w \in Wallets \ {m} : stats'[w] = stats[w]
    BY <1>1, SettlementCredits
  <2>3. \A w \in Wallets : Earned'[w] = IF w = m THEN Earned[w] + won ELSE Earned[w]
    BY <2>2 DEF Earned
  <2>4. Earned' \in [Wallets -> Int]
    <3>1. \A w \in Wallets : Earned'[w] \in Int
      BY <1>2, <2>1, <2>3
    <3>2. Earned' = [w \in Wallets |-> Earned'[w]]
      BY DEF Earned
    <3>3. QED
      BY <3>1, <3>2
  <2>5. QED
    BY <2>1, <2>3, <2>4
<1>6. /\ config.total_blocks_mined \in Nat /\ config.total_treasury_fees_distributed \in Nat
      /\ config.total_rewards_distributed \in Nat
      /\ config'.total_blocks_mined = config.total_blocks_mined + 1
      /\ config'.total_treasury_fees_distributed = config.total_treasury_fees_distributed + fee
      /\ config'.total_rewards_distributed = config.total_rewards_distributed + reward
  BY <1>1 DEF ProcessSubmission, TypeOK, Configs
<1> HIDE DEF reward, fee
<1>7. /\ SumFunctionOnSet(Found, Wallets) \in Int
      /\ SumFunctionOnSet(Found', Wallets) \in Int
      /\ SumFunctionOnSet(Found', Wallets) - SumFunctionOnSet(Found, Wallets) = Found'[m] - Found[m]
  BY <1>1, <1>4, SumChange
<1>8. /\ SumFunctionOnSet(Earned, Wallets) \in Int
      /\ SumFunctionOnSet(Earned', Wallets) \in Int
      /\ SumFunctionOnSet(Earned', Wallets) - SumFunctionOnSet(Earned, Wallets) = Earned'[m] - Earned[m]
  BY <1>1, <1>5, SumChange
<1>9. /\ SumOver(Found) = config.total_blocks_mined
      /\ SumOver(Earned) + config.total_treasury_fees_distributed = config.total_rewards_distributed
  BY <1>1 DEF AccountsAddUp, Found, Earned
<1>10. /\ SumOver(Found) = SumFunctionOnSet(Found, Wallets)
       /\ SumOver(Earned) = SumFunctionOnSet(Earned, Wallets)
       /\ SumOver(Found)' = SumFunctionOnSet(Found', Wallets)
       /\ SumOver(Earned)' = SumFunctionOnSet(Earned', Wallets)
  BY <1>4, <1>5 DEF SumOver
<1>11. Found[m] \in Int /\ Earned[m] \in Int
  BY <1>4, <1>5
<1>12. SumOver(Found)' = config'.total_blocks_mined
  BY <1>4, <1>6, <1>7, <1>9, <1>10, <1>11
<1>13. SumOver(Earned)' + config'.total_treasury_fees_distributed = config'.total_rewards_distributed
  BY <1>2, <1>5, <1>6, <1>8, <1>9, <1>10, <1>11
<1>14. QED
  BY <1>3, <1>12, <1>13 DEF AccountsAddUp, Found, Earned, SumOver

LEMMA BooksStep == BooksInv /\ [Next]_vars => NothingDistributed' /\ AccountsAddUp'
<1> SUFFICES ASSUME BooksInv, [Next]_vars PROVE NothingDistributed' /\ AccountsAddUp'
  OBVIOUS
<1>1. /\ ChainInv /\ TypeOK /\ NothingBefore /\ NothingDistributed /\ AccountsAddUp
      /\ IsFiniteSet(Accounts)
  BY AuditAssumption, FS_AddElement DEF BooksInv, ChainInv, EmissionInv, LedgerInv, Accounts
<1>2. CASE \E m, p \in Wallets, h \in Hashes : ProcessSubmission(m, p, h)
  <2>1. PICK m \in Wallets, p \in Wallets, h \in Hashes : ProcessSubmission(m, p, h)
    BY <1>2
  <2>2. AccountsAddUp'
    BY <2>1, BooksOfSettlement
  <2>3. Initialized'
    BY <2>1 DEF ProcessSubmission, BlockAfter, Initialized
  <2>4. QED
    BY <2>2, <2>3 DEF NothingDistributed
<1>3. CASE ~\E m, p \in Wallets, h \in Hashes : ProcessSubmission(m, p, h)
  <2>1. /\ Found' = Found /\ Earned' = Earned
        /\ token' = token \/ \E f \in Wallets, t \in Accounts, a \in TransferAmounts :
                               TransferTokens(f, t, a)
    BY <1>1, <1>3, BystandersMoveOnly
  <2>2. SumOver(token') = SumOver(token)
    <3>1. ASSUME NEW f \in Wallets, NEW t \in Accounts, NEW a \in TransferAmounts,
                 TransferTokens(f, t, a)
          PROVE  SumOver(token') = SumOver(token)
      <4>1. f \in Accounts /\ a \in Int /\ token \in [Accounts -> Int]
        BY <1>1, Deployment DEF Accounts, TypeOK
      <4>2. QED
        BY <1>1, <3>1, <4>1, MoveKeepsSum DEF TransferTokens
    <3>2. QED
      BY <2>1, <3>1
  <2>3. /\ config'.total_blocks_mined = config.total_blocks_mined
        /\ config'.total_treasury_fees_distributed = config.total_treasury_fees_distributed
        /\ config'.total_rewards_distributed = config.total_rewards_distributed
        /\ Initialized => Initialized'
    <3>1. CASE InitializeProtocol
      BY <1>1, <3>1 DEF InitializeProtocol, NothingBefore, NothingDistributed, Initialized
    <3>2. CASE RotateStaleBlock
      BY <1>1, <3>2, RewardsEndOnce DEF RotateStaleBlock, BlockAfter, Initialized, TypeOK, Configs
    <3>3. CASE Bystander
      BY <3>3 DEF Bystander, Initialized
    <3>4. QED
      BY <1>3, <3>1, <3>2, <3>3, StepKinds
  <2>4. QED
    BY <1>1, <2>1, <2>2, <2>3 DEF AccountsAddUp, NothingDistributed, Found, Earned
<1>4. QED
  BY <1>2, <1>3

\* Whatever the deployment and the instructions, the accounts of the miners add up to the
\* totals of the config account, and no token is made or lost on the way.
THEOREM AccountsAlwaysAddUp == Spec => []AccountsAddUp
<1>1. Init => NothingDistributed /\ AccountsAddUp
  BY BooksInit
<1>2. BooksInv /\ [Next]_vars => NothingDistributed' /\ AccountsAddUp'
  BY BooksStep
<1>3. QED
  BY <1>1, <1>2, ChainInvariant, PTL DEF Spec, BooksInv

----------------------------------------------------------------------------
(* The events, and who signed for them *)

\* The ways a step meets the books: as a submission of one of the two kinds, or not at
\* all, and then nothing is paid in SOL.
LEMMA SubmissionKinds ==
  ASSUME [Next]_vars
  PROVE  \/ \E m \in Wallets, h \in Hashes : SubmitSolution(m, h)
         \/ \E m, d \in Wallets, h \in Hashes : SubmitSolutionWithSession(d, m, h)
         \/ /\ UNCHANGED <<settled, signed, lamports>>
            /\ \/ UNCHANGED <<session, granted>>
               \/ \E m \in Wallets, d \in Wallets \cup {NoWallet}, e \in SessionExpiries,
                     c \in SessionCaps : AuthorizeMiningSession(m, d, e, c)
<1>1. CASE \E m \in Wallets, n \in Nickname : RegisterMiner(m, n) \/ UpdateNickname(m, n)
  BY <1>1 DEF RegisterMiner, UpdateNickname, history
<1>2. CASE InitializeProtocol \/ RotateStaleBlock \/ Tick
  BY <1>2 DEF InitializeProtocol, RotateStaleBlock, Tick, history
<1>3. CASE \E m \in Wallets, d \in Wallets \cup {NoWallet}, e \in SessionExpiries,
              c \in SessionCaps : AuthorizeMiningSession(m, d, e, c)
  BY <1>3 DEF AuthorizeMiningSession
<1>4. CASE \E f \in Wallets, t \in Accounts, a \in TransferAmounts : TransferTokens(f, t, a)
  BY <1>4 DEF TransferTokens, history
<1>5. CASE UNCHANGED vars
  BY <1>5 DEF vars, history
<1>6. QED
  BY <1>1, <1>2, <1>3, <1>4, <1>5 DEF Next

\* A set of positions of a sequence is finite.
LEMMA PositionsFinite ==
  ASSUME NEW T, NEW s \in Seq(T), NEW S \in SUBSET DOMAIN s
  PROVE  IsFiniteSet(S) /\ Cardinality(S) \in Nat
<1>1. Len(s) \in Nat /\ DOMAIN s = 1 .. Len(s)
  OBVIOUS
<1>2. IsFiniteSet(S)
  <2>1. IsFiniteSet(1 .. Len(s)) /\ S \subseteq 1 .. Len(s)
    BY <1>1, FS_Interval
  <2>2. QED
    BY <2>1, FS_Subset
<1>3. QED
  BY <1>2, FS_CardinalityType

\* What is appended to a sequence comes after what was there.
LEMMA Appended ==
  ASSUME NEW T, NEW s \in Seq(T), NEW x \in T, NEW n, n = Len(s) + 1
  PROVE  /\ n \in Nat /\ Len(s) \in Nat /\ Len(Append(s, x)) = n
         /\ n \notin DOMAIN s /\ \A i \in DOMAIN s : i \in Nat /\ i < n
         /\ DOMAIN Append(s, x) = DOMAIN s \cup {n}
         /\ \A i \in DOMAIN s : Append(s, x)[i] = s[i]
         /\ Append(s, x)[n] = x
<1>1. Len(s) \in Nat /\ DOMAIN s = 1 .. Len(s)
  OBVIOUS
<1>2. Append(s, x) \in Seq(T) /\ Len(Append(s, x)) = Len(s) + 1
  OBVIOUS
<1>3. DOMAIN Append(s, x) = 1 .. Len(Append(s, x))
  BY <1>2
<1>4. QED
  BY <1>1, <1>2, <1>3

\* The submissions a wallet signed.
SignedBy(w) == {i \in DOMAIN signed : signed[i].signer = w}

\* Each event has its signature, and no grant was made after more events than there are.
SignaturesMatch ==
  /\ Len(signed) = Len(settled)
  /\ \A m \in Wallets : granted[m] <= Len(settled)

\* What a submission for m adds to the history, at its position n.
RecordedAt(n, m, s) ==
  /\ Len(settled) \in Nat /\ n = Len(settled) + 1
  /\ Len(settled') = n /\ Len(signed') = n
  /\ n \notin DOMAIN signed
  /\ \A i \in DOMAIN signed : signed'[i] = signed[i]
  /\ signed'[n] = s
  /\ \A w \in Wallets :
       /\ SignedBy(w)' = IF w = s.signer THEN SignedBy(w) \cup {n} ELSE SignedBy(w)
       /\ w = m /\ s.with_session => Uses(w)' = Uses(w) \cup {n}
       /\ ~(w = m /\ s.with_session) => Uses(w)' = Uses(w)

LEMMA Recorded ==
  ASSUME TypeOK, SignaturesMatch, NEW m \in Wallets, NEW p \in Wallets, NEW h \in Hashes,
         NEW s \in Signatures,
         ProcessSubmission(m, p, h), signed' = Append(signed, s), granted' = granted
  PROVE  \E n \in Nat : RecordedAt(n, m, s)
<1> DEFINE e == SolvedEvent(m, block.block_reward)
           n == Len(settled) + 1
<1>1. settled' = Append(settled, e) /\ e \in BlockSolved /\ e.winner = m
  <2>1. e \in BlockSolved /\ e.winner = m
    BY FeeIsPart DEF SolvedEvent, BlockSolved, TypeOK, Blocks
  <2>2. QED
    BY <2>1 DEF ProcessSubmission
<1> HIDE DEF e
<1>2. /\ n \in Nat /\ Len(settled) \in Nat /\ Len(settled') = n
      /\ n \notin DOMAIN settled /\ \A i \in DOMAIN settled : i \in Nat /\ i < n
      /\ DOMAIN settled' = DOMAIN settled \cup {n}
      /\ \A i \in DOMAIN settled : settled'[i] = settled[i]
      /\ settled'[n] = e
  BY <1>1, Appended DEF TypeOK
<1>3. /\ Len(signed') = n /\ n \notin DOMAIN signed
      /\ DOMAIN signed' = DOMAIN signed \cup {n}
      /\ \A i \in DOMAIN signed : signed'[i] = signed[i]
      /\ signed'[n] = s
  <2>1. n = Len(signed) + 1 /\ signed \in Seq(Signatures)
    BY DEF SignaturesMatch, TypeOK
  <2> HIDE DEF n
  <2>2. QED
    BY <2>1, Appended
<1>4. DOMAIN signed = DOMAIN settled
  <2>1. signed \in Seq(Signatures) /\ settled \in Seq(BlockSolved)
    BY DEF TypeOK
  <2>2. QED
    BY <2>1 DEF SignaturesMatch
<1>5. \A w \in Wallets : granted[w] < n /\ granted'[w] = granted[w]
  BY <1>2 DEF SignaturesMatch, TypeOK
<1>6. n = Len(settled) + 1
  OBVIOUS
<1> HIDE DEF n
<1>7. ASSUME NEW w \in Wallets
      PROVE  SignedBy(w)' = IF w = s.signer THEN SignedBy(w) \cup {n} ELSE SignedBy(w)
  BY <1>3 DEF SignedBy
<1>8. ASSUME NEW w \in Wallets, w = m, s.with_session PROVE Uses(w)' = Uses(w) \cup {n}
  BY <1>1, <1>2, <1>3, <1>4, <1>5, <1>8 DEF Uses
<1>9. ASSUME NEW w \in Wallets, ~(w = m /\ s.with_session) PROVE Uses(w)' = Uses(w)
  BY <1>1, <1>2, <1>3, <1>4, <1>5, <1>9 DEF Uses
<1>10. RecordedAt(n, m, s)
  BY <1>2, <1>3, <1>6, <1>7, <1>8, <1>9 DEF RecordedAt
<1>11. QED
  BY <1>2, <1>10

\* The inductive invariant of the grants.
GrantsInv == SignaturesMatch /\ GrantCountsItsOwnUses

\* What GrantCountsItsOwnUses says of one miner.
Counted(m) ==
  /\ session[m].submissions_used = Cardinality(Uses(m))
  /\ \A i \in Uses(m) : signed[i].signer = session[m].delegate

\* A submission with a session is one more use of its grant, one without is none.
LEMMA UsesOfSubmission ==
  ASSUME TypeOK, GrantsInv, NEW w \in Wallets, NEW p \in Wallets, NEW h \in Hashes,
         SubmitSolution(w, h) \/ SubmitSolutionWithSession(p, w, h), NEW m \in Wallets
  PROVE  SignaturesMatch' /\ Counted(m)'
<1>1. /\ session \in [Wallets -> MiningSessions] /\ session[m].submissions_used \in Nat
      /\ signed \in Seq(Signatures) /\ settled \in Seq(BlockSolved)
      /\ SignaturesMatch /\ Counted(m) /\ granted \in [Wallets -> Nat]
  BY DEF TypeOK, MiningSessions, GrantsInv, GrantCountsItsOwnUses, Counted
<1>2. ASSUME NEW n \in Nat, Len(settled) \in Nat, n = Len(settled) + 1,
             Len(settled') = n, Len(signed') = n, granted' = granted
      PROVE  SignaturesMatch'
  BY <1>1, <1>2 DEF SignaturesMatch
<1>3. Uses(m) \subseteq DOMAIN signed
  BY <1>1 DEF Uses, SignaturesMatch
<1>4. CASE SubmitSolution(w, h)
  <2> DEFINE s == [signer |-> w, with_session |-> FALSE]
  <2>1. /\ ProcessSubmission(w, w, h) /\ signed' = Append(signed, s)
        /\ session' = session /\ granted' = granted
    BY <1>4 DEF SubmitSolution
  <2>2. s \in Signatures /\ ~s.with_session
    BY DEF Signatures
  <2> HIDE DEF s
  <2>3. PICK n \in Nat : RecordedAt(n, w, s)
    BY <1>1, <2>1, <2>2, Recorded
  <2>4. /\ Len(settled) \in Nat /\ n = Len(settled) + 1 /\ Len(settled') = n
        /\ Len(signed') = n /\ \A i \in DOMAIN signed : signed'[i] = signed[i]
        /\ Uses(m)' = Uses(m)
    BY <2>2, <2>3 DEF RecordedAt
  <2>5. QED
    BY <1>1, <1>2, <1>3, <2>1, <2>4 DEF Counted
<1>5. CASE SubmitSolutionWithSession(p, w, h)
  <2> DEFINE s == [signer |-> p, with_session |-> TRUE]
  <2>1. /\ ProcessSubmission(w, p, h) /\ signed' = Append(signed, s)
        /\ session[w].delegate = p
        /\ session' = [session EXCEPT ![w] = GrantAfterUse(session[w])] /\ granted' = granted
    BY <1>5 DEF SubmitSolutionWithSession, Grants
  <2>2. s \in Signatures /\ s.with_session /\ s.signer = p
    BY DEF Signatures
  <2> HIDE DEF s
  <2>3. PICK n \in Nat : RecordedAt(n, w, s)
    BY <1>1, <2>1, <2>2, Recorded
  <2>4. /\ Len(settled) \in Nat /\ n = Len(settled) + 1 /\ Len(settled') = n
        /\ Len(signed') = n /\ n \notin DOMAIN signed
        /\ \A i \in DOMAIN signed : signed'[i] = signed[i]
        /\ signed'[n].signer = p
        /\ m = w => Uses(m)' = Uses(m) \cup {n}
        /\ m # w => Uses(m)' = Uses(m)
    BY <2>2, <2>3 DEF RecordedAt
  <2>5. SignaturesMatch'
    BY <1>2, <2>1, <2>4
  <2>6. CASE m # w
    <3>1. session'[m] = session[m]
      BY <1>1, <2>1, <2>6
    <3>2. QED
      BY <1>1, <1>3, <2>4, <2>5, <2>6, <3>1 DEF Counted
  <2>7. CASE m = w
    <3>1. /\ session'[m].delegate = p /\ session[m].delegate = p
          /\ session'[m].submissions_used = session[m].submissions_used + 1
      BY <1>1, <2>1, <2>7 DEF GrantAfterUse, MiningSessions
    <3>2. IsFiniteSet(Uses(m)) /\ Cardinality(Uses(m)) \in Nat /\ n \notin Uses(m)
      BY <1>1, <1>3, <2>4, PositionsFinite
    <3>3. Cardinality(Uses(m)') = Cardinality(Uses(m)) + 1
      BY <2>4, <2>7, <3>2, FS_AddElement
    <3>4. \A i \in Uses(m)' : signed'[i].signer = session'[m].delegate
      BY <1>1, <1>3, <2>4, <2>7, <3>1 DEF Counted
    <3>5. QED
      BY <1>1, <2>5, <3>1, <3>3, <3>4 DEF Counted
  <2>8. QED
    BY <2>6, <2>7
<1>6. QED
  BY <1>4, <1>5

\* A grant's uses are counted one by one, and a new grant starts from none.
LEMMA UsesStep == TypeOK /\ GrantsInv /\ [Next]_vars => GrantsInv'
<1> SUFFICES ASSUME TypeOK, GrantsInv, [Next]_vars, NEW m \in Wallets
             PROVE  SignaturesMatch' /\ Counted(m)'
  <2>1. GrantsInv' <=> SignaturesMatch' /\ \A m \in Wallets : Counted(m)'
    BY DEF GrantsInv, GrantCountsItsOwnUses, Counted
  <2>2. ASSUME Wallets = {} PROVE FALSE
    BY <2>2, WalletAssumption DEF WalletAssumption
  <2>3. QED
    BY <2>1, <2>2
<1>1. /\ session \in [Wallets -> MiningSessions] /\ granted \in [Wallets -> Nat]
      /\ settled \in Seq(BlockSolved) /\ SignaturesMatch /\ Counted(m)
  BY DEF TypeOK, GrantsInv, GrantCountsItsOwnUses, Counted
<1>2. CASE \/ \E w \in Wallets, h \in Hashes : SubmitSolution(w, h)
           \/ \E w, d \in Wallets, h \in Hashes : SubmitSolutionWithSession(d, w, h)
  BY <1>2, UsesOfSubmission
<1>3. CASE UNCHANGED <<settled, signed, session, granted>>
  BY <1>1, <1>3 DEF SignaturesMatch, Counted, Uses
<1>4. ASSUME UNCHANGED <<settled, signed>>, NEW w \in Wallets, NEW d \in Wallets \cup {NoWallet},
             NEW e \in SessionExpiries, NEW c \in SessionCaps, AuthorizeMiningSession(w, d, e, c)
      PROVE  SignaturesMatch' /\ Counted(m)'
  <2>1. granted' = [granted EXCEPT ![w] = Len(settled)] /\ Len(settled) \in Nat
    BY <1>1, <1>4 DEF AuthorizeMiningSession
  <2>2. SignaturesMatch'
    BY <1>1, <1>4, <2>1 DEF SignaturesMatch
  <2>3. CASE m # w
    <3>1. session'[m] = session[m] /\ granted'[m] = granted[m]
      BY <1>1, <1>4, <2>3 DEF AuthorizeMiningSession
    <3>2. Uses(m)' = Uses(m)
      BY <1>4, <3>1 DEF Uses
    <3>3. QED
      BY <1>1, <1>4, <2>2, <3>1, <3>2 DEF Counted
  <2>4. CASE m = w
    <3>1. session'[m].submissions_used = 0 /\ granted'[m] = Len(settled)
      BY <1>1, <1>4, <2>4 DEF AuthorizeMiningSession
    <3>2. Uses(m)' = {}
      BY <1>1, <1>4, <2>1, <3>1 DEF Uses
    <3>3. QED
      BY <2>2, <3>1, <3>2, FS_EmptySet DEF Counted
  <2>5. QED
    BY <2>3, <2>4
<1>5. QED
  BY <1>2, <1>3, <1>4, SubmissionKinds

\* Whatever grants replace one another, the count of a grant is the number of submissions
\* made with it since it was given, and its own delegate signed each of them.
THEOREM GrantsCountTheirOwnUses == Spec => []GrantCountsItsOwnUses
<1>1. Init => GrantsInv
  BY FS_EmptySet DEF Init, GrantsInv, SignaturesMatch, GrantCountsItsOwnUses, Uses
<1>2. TypeOK /\ GrantsInv /\ [Next]_vars => GrantsInv'
  BY UsesStep
<1>3. GrantsInv => GrantCountsItsOwnUses
  BY DEF GrantsInv
<1>4. QED
  BY <1>1, <1>2, <1>3, TypeCorrect, PTL DEF Spec

\* What the books of the fees say of one wallet.
FeesOf(w) ==
  lamports[w] = InitialLamports[w] - SubmitFeeLamports * Cardinality(SignedBy(w))
                  + IF w = Treasury THEN SubmitFeeLamports * Len(settled) ELSE 0

\* A submission costs its signer the fee, and nobody else.
LEMMA FeeOfSubmission ==
  ASSUME TypeOK, SignaturesMatch, NEW m \in Wallets, NEW p \in Wallets, NEW h \in Hashes,
         ProcessSubmission(m, p, h), NEW s \in Signatures, s.signer = p,
         signed' = Append(signed, s), granted' = granted,
         NEW w \in Wallets, FeesOf(w)
  PROVE  FeesOf(w)'
<1> DEFINE fee == SubmitFeeLamports
           c == Cardinality(SignedBy(w))
           n0 == Len(settled)
           paid == fee * c
           all == fee * n0
<1>1. PICK n \in Nat :
        /\ Len(settled) \in Nat /\ n = Len(settled) + 1 /\ Len(settled') = n
        /\ n \notin DOMAIN signed
        /\ SignedBy(w)' = IF w = p THEN SignedBy(w) \cup {n} ELSE SignedBy(w)
  <2>1. PICK n \in Nat : RecordedAt(n, m, s)
    BY Recorded
  <2>2. QED
    BY <2>1 DEF RecordedAt
<1>2. IsFiniteSet(SignedBy(w)) /\ Cardinality(SignedBy(w)) \in Nat /\ n \notin SignedBy(w)
  <2>1. signed \in Seq(Signatures) /\ SignedBy(w) \subseteq DOMAIN signed
    BY DEF TypeOK, SignedBy
  <2>2. QED
    BY <1>1, <2>1, PositionsFinite
<1>3. Cardinality(SignedBy(w)')
        = IF w = p THEN Cardinality(SignedBy(w)) + 1 ELSE Cardinality(SignedBy(w))
  BY <1>1, <1>2, FS_AddElement
<1>4. /\ fee \in Nat /\ Treasury \in Wallets /\ lamports \in [Wallets -> Nat]
      /\ InitialLamports[w] \in Nat
  BY Deployment DEF TypeOK
<1>5. lamports'[w] = lamports[w] - (IF w = p THEN fee ELSE 0) + (IF w = Treasury THEN fee ELSE 0)
  <2>1. lamports' = Move(lamports, p, Treasury, fee)
    BY DEF ProcessSubmission
  <2> DEFINE less == [lamports EXCEPT ![p] = lamports[p] - fee]
  <2>2. lamports' = [less EXCEPT ![Treasury] = less[Treasury] + fee]
    BY <2>1 DEF Move
  <2>3. /\ less \in [Wallets -> Int]
        /\ less[w] = IF w = p THEN lamports[w] - fee ELSE lamports[w]
    BY <1>4
  <2> HIDE DEF less
  <2>4. lamports'[w] = IF w = Treasury THEN less[w] + fee ELSE less[w]
    BY <1>4, <2>2, <2>3
  <2>5. lamports[w] \in Nat
    BY <1>4
  <2> HIDE DEF fee
  <2>6. QED
    BY <1>4, <2>3, <2>4, <2>5
<1>6. c \in Nat /\ n0 \in Nat
  BY <1>1, <1>2
<1>7. lamports[w] = InitialLamports[w] - paid + IF w = Treasury THEN all ELSE 0
  BY DEF FeesOf
<1> HIDE DEF fee, c, n0
<1>8. fee * (c + 1) = paid + fee /\ fee * (n0 + 1) = all + fee /\ paid \in Nat /\ all \in Nat
  BY <1>4, <1>6
<1> HIDE DEF paid, all
<1> DEFINE paid2 == fee * Cardinality(SignedBy(w)')
           all2 == fee * Len(settled')
<1>9. paid2 = IF w = p THEN paid + fee ELSE paid
  BY <1>3, <1>8 DEF c, paid
<1>10. all2 = all + fee
  BY <1>1, <1>8 DEF n0
<1>11. lamports[w] \in Int /\ InitialLamports[w] \in Nat /\ fee \in Nat
  BY <1>4
<1> HIDE DEF paid2, all2
<1>12. lamports'[w] = InitialLamports[w] - paid2 + IF w = Treasury THEN all2 ELSE 0
  BY <1>5, <1>7, <1>8, <1>9, <1>10, <1>11
<1>13. QED
  BY <1>12 DEF FeesOf, fee, paid2, all2

LEMMA FeesStep ==
  TypeOK /\ SignaturesMatch /\ FeesPaidBySigner /\ [Next]_vars => FeesPaidBySigner'
<1> SUFFICES ASSUME TypeOK, SignaturesMatch, FeesPaidBySigner, [Next]_vars, NEW w \in Wallets
             PROVE  FeesOf(w)'
  BY DEF FeesPaidBySigner, FeesOf, SignedBy
<1>1. FeesOf(w)
  BY DEF FeesPaidBySigner, FeesOf, SignedBy
<1>2. ASSUME NEW m \in Wallets, NEW h \in Hashes, SubmitSolution(m, h) PROVE FeesOf(w)'
  <2> DEFINE s == [signer |-> m, with_session |-> FALSE]
  <2>1. s \in Signatures /\ s.signer = m
    BY DEF Signatures
  <2>2. ProcessSubmission(m, m, h) /\ signed' = Append(signed, s) /\ granted' = granted
    BY <1>2 DEF SubmitSolution
  <2> HIDE DEF s
  <2>3. QED
    BY <1>1, <2>1, <2>2, FeeOfSubmission
<1>3. ASSUME NEW m \in Wallets, NEW d \in Wallets, NEW h \in Hashes,
             SubmitSolutionWithSession(d, m, h)
      PROVE  FeesOf(w)'
  <2> DEFINE s == [signer |-> d, with_session |-> TRUE]
  <2>1. s \in Signatures /\ s.signer = d
    BY DEF Signatures
  <2>2. ProcessSubmission(m, d, h) /\ signed' = Append(signed, s) /\ granted' = granted
    BY <1>3 DEF SubmitSolutionWithSession
  <2> HIDE DEF s
  <2>3. QED
    BY <1>1, <2>1, <2>2, FeeOfSubmission
<1>4. CASE UNCHANGED <<settled, signed, lamports>>
  BY <1>1, <1>4 DEF FeesOf, SignedBy
<1>5. QED
  BY <1>2, <1>3, <1>4, SubmissionKinds

\* Whatever grants and submissions there are, each wallet has paid the fee of every
\* submission it signed itself, with a session or without, and of no other.
THEOREM FeesAlwaysPaidBySigner == Spec => []FeesPaidBySigner
<1>1. Init => SignaturesMatch /\ GrantsInv
  BY FS_EmptySet DEF Init, GrantsInv, SignaturesMatch, GrantCountsItsOwnUses, Uses
<1>2. Init => FeesPaidBySigner
  <2> SUFFICES ASSUME Init, NEW w \in Wallets
               PROVE  FeesOf(w)
    BY DEF FeesPaidBySigner, FeesOf, SignedBy
  <2>1. SignedBy(w) = {} /\ Len(settled) = 0 /\ lamports[w] = InitialLamports[w]
    BY DEF Init, SignedBy
  <2>2. InitialLamports[w] \in Nat /\ SubmitFeeLamports \in Nat
    BY Deployment
  <2>3. SubmitFeeLamports * 0 = 0
    BY <2>2
  <2>4. QED
    BY <2>1, <2>2, <2>3, FS_EmptySet DEF FeesOf
<1>3. TypeOK /\ GrantsInv /\ [Next]_vars => GrantsInv'
  BY UsesStep
<1>4. TypeOK /\ GrantsInv /\ FeesPaidBySigner /\ [Next]_vars => FeesPaidBySigner'
  BY FeesStep DEF GrantsInv
<1>5. QED
  BY <1>1, <1>2, <1>3, <1>4, TypeCorrect, PTL DEF Spec
=============================================================================
