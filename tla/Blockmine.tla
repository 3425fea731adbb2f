----------------------------- MODULE Blockmine -----------------------------
(***************************************************************************)
(* The on-chain program: the accounts it owns and the seven instructions   *)
(* of lib.rs.  An instruction is one transaction and so one atomic step: a *)
(* failing check or transfer aborts all of it, and every check is a guard. *)
(* The token and system programs, the clock and transfers between wallets  *)
(* are outside the program.                                                *)
(*                                                                         *)
(* A block's challenge is a hash over the number of the block among other  *)
(* things, so a hash found for one number is worth nothing for another:    *)
(* the number stands for the challenge, and an attempt on it yields an     *)
(* arbitrary hash.                                                         *)
(***************************************************************************)
EXTENDS Rewards, Difficulty

CONSTANTS
  Wallets,            \* keypairs: miners, delegates, the treasury, callers
  NoWallet,           \* Pubkey::default()
  RewardVault,        \* the token account of the program
  Treasury,           \* treasury_authority, the owner of treasury_vault
  Nicknames, NoNickname,
  MinDifficultyBits, InitialDifficultyBits, MaxDifficultyBits,
  TargetBlockTimeSec,
  BlockTtlSec,
  TreasuryFeeBps,
  SubmitFeeLamports,
  Hashes,             \* the hashes an attempt may yield
  SessionExpiries, SessionCaps,   \* arguments of authorize_mining_session
  TransferAmounts,    \* token transfers between accounts, outside the program
  VaultFundings,      \* what the deployment scripts may have left in the vault
  InitialLamports,    \* wallet -> SOL
  MaxTime             \* bound on the clock

ASSUME WalletAssumption ==
  /\ Treasury \in Wallets
  /\ NoWallet \notin Wallets
  /\ RewardVault \notin Wallets
  /\ NoNickname \notin Nicknames

\* What initialize_protocol requires of its arguments.
ParameterAssumption ==
  /\ MinDifficultyBits \in Bits
  /\ InitialDifficultyBits \in Bits
  /\ MaxDifficultyBits \in Bits
  /\ MinDifficultyBits <= InitialDifficultyBits
  /\ InitialDifficultyBits <= MaxDifficultyBits
  /\ TreasuryFeeBps = 100
  /\ TargetBlockTimeSec \in Nat
  /\ BlockTtlSec \in Int
  /\ SubmitFeeLamports \in Nat \ {0}

ASSUME DeploymentAssumption ==
  /\ ParameterAssumption
  /\ Hashes \subseteq 0 .. MaxTarget
  /\ SessionExpiries \subseteq Nat
  /\ SessionCaps \subseteq Nat
  /\ TransferAmounts \subseteq Nat
  /\ VaultFundings \subseteq Nat
  /\ InitialLamports \in [Wallets -> Nat]
  /\ MaxTime \in Nat

VARIABLES
  config,     \* ProtocolConfig
  block,      \* CurrentBlock
  stats,      \* miner -> MinerStats
  session,    \* miner -> MiningSession
  token,      \* token account -> BLOC
  lamports,   \* wallet -> SOL
  now,        \* Clock::unix_timestamp
  settled,    \* history: the BlockSolved events
  signed,     \* history: who signed for each of them, and whether with a session
  granted     \* history: wallet -> the number of events before its present grant

history == <<settled, signed, granted>>
vars == <<config, block, stats, session, token, lamports, now, history>>

Accounts == Wallets \cup {RewardVault}
Nickname == Nicknames \cup {NoNickname}

Configs ==
  [current_block_number: Nat, total_blocks_mined: Nat,
   total_rewards_distributed: Nat, total_treasury_fees_distributed: Nat,
   difficulty_bits: Bits, difficulty_target: Nat]

Blocks ==
  [status: {"Absent", "Open", "Closed"}, block_number: Nat, block_reward: Nat,
   difficulty_bits: Bits, difficulty_target: Nat, opened_at: Nat, expires_at: Nat]

MinerStats ==
  [registered: BOOLEAN, valid_blocks_found: Nat, total_rewards_earned: Nat,
   nickname: Nickname]

MiningSessions ==
  [delegate: Wallets \cup {NoWallet}, expires_at: Nat, max_submissions: Nat,
   submissions_used: Nat, active: BOOLEAN]

BlockSolved ==
  [block_number: Nat, winner: Wallets, reward: Nat, miner_reward: Nat]

Signatures == [signer: Wallets, with_session: BOOLEAN]

TypeOK ==
  /\ config \in Configs
  /\ block \in Blocks
  /\ stats \in [Wallets -> MinerStats]
  /\ session \in [Wallets -> MiningSessions]
  /\ token \in [Accounts -> Nat]
  /\ lamports \in [Wallets -> Nat]
  /\ now \in Nat
  /\ settled \in Seq(BlockSolved)
  /\ signed \in Seq(Signatures)
  /\ granted \in [Wallets -> Nat]

----------------------------------------------------------------------------
NextExpiry(opened_at) == IF BlockTtlSec > 0 THEN opened_at + BlockTtlSec ELSE 0

\* A mistake: the share of the treasury rounded up.
TreasuryFeeRoundedUp(reward) == (reward * TreasuryFeeBps + 9999) \div 10000

TreasuryFee(reward) == (reward * TreasuryFeeBps) \div 10000

\* The config and block accounts do not exist, the vault is funded by hand.
Init ==
  /\ config = [current_block_number |-> 0, total_blocks_mined |-> 0,
               total_rewards_distributed |-> 0, total_treasury_fees_distributed |-> 0,
               difficulty_bits |-> 0, difficulty_target |-> 0]
  /\ block = [status |-> "Absent", block_number |-> 0, block_reward |-> 0,
              difficulty_bits |-> 0, difficulty_target |-> 0,
              opened_at |-> 0, expires_at |-> 0]
  /\ stats = [w \in Wallets |->
                [registered |-> FALSE, valid_blocks_found |-> 0,
                 total_rewards_earned |-> 0, nickname |-> NoNickname]]
  /\ session = [w \in Wallets |->
                  [delegate |-> NoWallet, expires_at |-> 0, max_submissions |-> 0,
                   submissions_used |-> 0, active |-> FALSE]]
  /\ \E funding \in VaultFundings :
       token = [a \in Accounts |-> IF a = RewardVault THEN funding ELSE 0]
  /\ lamports = InitialLamports
  /\ now = 1
  /\ settled = <<>> /\ signed = <<>>
  /\ granted = [w \in Wallets |-> 0]

\* initialize_protocol: once, with the vault holding the whole emission.
InitializeProtocol ==
  LET target == TargetFromDifficultyBits(InitialDifficultyBits)
  IN  /\ block.status = "Absent"
      /\ token[RewardVault] = TotalProtocolEmissions
      /\ config' = [current_block_number |-> 0, total_blocks_mined |-> 0,
                    total_rewards_distributed |-> 0,
                    total_treasury_fees_distributed |-> 0,
                    difficulty_bits |-> InitialDifficultyBits,
                    difficulty_target |-> target]
      /\ block' = [status |-> "Open", block_number |-> 0,
                   block_reward |-> RewardForBlock(0),
                   difficulty_bits |-> InitialDifficultyBits,
                   difficulty_target |-> target,
                   opened_at |-> now, expires_at |-> NextExpiry(now)]
      /\ UNCHANGED <<stats, session, token, lamports, now, history>>

\* A mistake: init where the code has init_if_needed and a check.
RegisterMinerAfresh(miner, nickname) ==
  /\ stats' = [stats EXCEPT ![miner] =
       [registered |-> TRUE, valid_blocks_found |-> 0,
        total_rewards_earned |-> 0, nickname |-> nickname]]
  /\ UNCHANGED <<config, block, session, token, lamports, now, history>>

\* register_miner: the account is initialised once; calling it again can only
\* change the nickname.
RegisterMiner(miner, nickname) ==
  /\ stats' = [stats EXCEPT ![miner] =
       IF ~@.registered
       THEN [registered |-> TRUE, valid_blocks_found |-> 0,
             total_rewards_earned |-> 0, nickname |-> nickname]
       ELSE IF nickname # NoNickname THEN [@ EXCEPT !.nickname = nickname]
       ELSE @]
  /\ UNCHANGED <<config, block, session, token, lamports, now, history>>

\* update_nickname: of an account that exists; clearing it is allowed.
UpdateNickname(miner, nickname) ==
  /\ stats[miner].registered
  /\ stats' = [stats EXCEPT ![miner].nickname = nickname]
  /\ UNCHANGED <<config, block, session, token, lamports, now, history>>

----------------------------------------------------------------------------
Move(balance, from, to, amount) ==
  [[balance EXCEPT ![from] = @ - amount] EXCEPT ![to] = @ + amount]

\* The two transfers of a settlement.
PayOut(miner, reward) ==
  Move(Move(token, RewardVault, miner, reward - TreasuryFee(reward)),
       RewardVault, Treasury, TreasuryFee(reward))

\* The event of a settlement.
SolvedEvent(miner, reward) ==
  [block_number |-> block.block_number, winner |-> miner, reward |-> reward,
   miner_reward |-> reward - TreasuryFee(reward)]

\* A mistake: the account is credited with the share of the treasury as well.
CreditedGross(account, reward) ==
  [account EXCEPT !.valid_blocks_found = @ + 1, !.total_rewards_earned = @ + reward]

\* The miner's account after a settlement.
Credited(account, reward) ==
  [account EXCEPT !.valid_blocks_found = @ + 1,
                  !.total_rewards_earned = @ + (reward - TreasuryFee(reward))]

\* A mistake: a block that pays nothing is opened as well.
BlockAfterAlwaysOpen(number, reward, bits, target) ==
  [status |-> "Open", block_number |-> number, block_reward |-> reward,
   difficulty_bits |-> bits, difficulty_target |-> target,
   opened_at |-> now, expires_at |-> NextExpiry(now)]

\* The block that follows number at the current time: open while the schedule
\* pays, closed for good after that.
BlockAfter(number, reward, bits, target) ==
  [status |-> IF reward > 0 THEN "Open" ELSE "Closed",
   block_number |-> number,
   block_reward |-> reward,
   difficulty_bits |-> bits,
   difficulty_target |-> target,
   opened_at |-> now,
   expires_at |-> IF reward > 0 THEN NextExpiry(now) ELSE 0]

\* process_submission, shared by the two submit instructions: the miner's hash
\* solves the current block, fee_payer pays the fee in SOL.
ProcessSubmission(miner, fee_payer, hash) ==
  LET mined == config.total_blocks_mined
      reward == block.block_reward
      fee == TreasuryFee(reward)
      number == block.block_number + 1
      next == CalculateNextDifficulty(
                config.difficulty_target, Greatest(now - block.opened_at, 1),
                TargetBlockTimeSec, MinDifficultyBits, MaxDifficultyBits)
  IN  /\ stats[miner].registered
      /\ block.status = "Open"
      /\ block.expires_at > 0 => now <= block.expires_at
      /\ reward = RewardForBlock(mined)
      /\ HashMeetsTarget(hash, block.difficulty_target)
      /\ reward > 0
      /\ token[RewardVault] >= reward
      /\ lamports[fee_payer] >= SubmitFeeLamports
      /\ lamports' = Move(lamports, fee_payer, Treasury, SubmitFeeLamports)
      /\ token' = PayOut(miner, reward)
      /\ stats' = [stats EXCEPT ![miner] = Credited(@, reward)]
      /\ config' = [current_block_number |-> number,
                    total_blocks_mined |-> mined + 1,
                    total_rewards_distributed |->
                      config.total_rewards_distributed + reward,
                    total_treasury_fees_distributed |->
                      config.total_treasury_fees_distributed + fee,
                    difficulty_bits |-> next.difficulty_bits,
                    difficulty_target |-> next.target]
      /\ block' = BlockAfter(number, RewardForBlock(mined + 1),
                             next.difficulty_bits, next.target)
      /\ settled' = Append(settled, SolvedEvent(miner, reward))
      /\ UNCHANGED now

\* submit_solution: the miner signs and pays.
SubmitSolution(miner, hash) ==
  /\ ProcessSubmission(miner, miner, hash)
  /\ signed' = Append(signed, [signer |-> miner, with_session |-> FALSE])
  /\ UNCHANGED <<session, granted>>

\* A mistake: the uses of the grant before count against the new one.
AuthorizeKeepingUses(miner, delegate, expires_at, max_submissions) ==
  /\ delegate # NoWallet
  /\ expires_at = 0 \/ expires_at > now
  /\ session' = [session EXCEPT ![miner] =
       [@ EXCEPT !.delegate = delegate, !.expires_at = expires_at,
                 !.max_submissions = max_submissions, !.active = TRUE]]
  /\ granted' = [granted EXCEPT ![miner] = Len(settled)]
  /\ UNCHANGED <<config, block, stats, token, lamports, now, settled, signed>>

\* authorize_mining_session: a new grant replaces the one before, used or not.
AuthorizeMiningSession(miner, delegate, expires_at, max_submissions) ==
  /\ delegate # NoWallet
  /\ expires_at = 0 \/ expires_at > now
  /\ session' = [session EXCEPT ![miner] =
       [delegate |-> delegate, expires_at |-> expires_at,
        max_submissions |-> max_submissions, submissions_used |-> 0,
        active |-> TRUE]]
  /\ granted' = [granted EXCEPT ![miner] = Len(settled)]
  /\ UNCHANGED <<config, block, stats, token, lamports, now, settled, signed>>

\* One more use, the last of which ends the grant; the mistake ends it one late.
GrantAfterUseLate(grant) ==
  LET used == grant.submissions_used + 1
  IN  [grant EXCEPT !.submissions_used = used,
                    !.active = ~(grant.max_submissions > 0 /\ used > grant.max_submissions)]

GrantAfterUse(grant) ==
  LET used == grant.submissions_used + 1
  IN  [grant EXCEPT !.submissions_used = used,
                    !.active = ~(grant.max_submissions > 0 /\ used >= grant.max_submissions)]

\* The grant that a delegate may use now.
Grants(miner, delegate) ==
  LET grant == session[miner]
  IN  /\ grant.delegate = delegate
      /\ grant.active
      /\ grant.expires_at > 0 => now <= grant.expires_at
      /\ grant.max_submissions > 0 => grant.submissions_used < grant.max_submissions

\* A mistake: the fee is taken from the miner the session is of.
SubmitChargingTheMiner(delegate, miner, hash) ==
  /\ Grants(miner, delegate)
  /\ session' = [session EXCEPT ![miner] = GrantAfterUse(@)]
  /\ ProcessSubmission(miner, miner, hash)
  /\ signed' = Append(signed, [signer |-> delegate, with_session |-> TRUE])
  /\ UNCHANGED granted

\* submit_solution_with_session: the delegate signs and pays for a hash of the
\* miner, within the miner's grant.
SubmitSolutionWithSession(delegate, miner, hash) ==
  /\ Grants(miner, delegate)
  /\ session' = [session EXCEPT ![miner] = GrantAfterUse(@)]
  /\ ProcessSubmission(miner, delegate, hash)
  /\ signed' = Append(signed, [signer |-> delegate, with_session |-> TRUE])
  /\ UNCHANGED granted

\* A block that may be rotated.  The mistakes take the second of expiry, at
\* which it still accepts a solution, for stale, or ask before and not after.
StaleAtExpiry ==
  block.status = "Open" /\ BlockTtlSec > 0 /\ block.expires_at > 0 /\ now >= block.expires_at

StaleBeforeExpiry ==
  block.status = "Open" /\ BlockTtlSec > 0 /\ block.expires_at > 0 /\ now < block.expires_at

Stale ==
  block.status = "Open" /\ BlockTtlSec > 0 /\ block.expires_at > 0 /\ now > block.expires_at

\* Mistakes in a rotation: the block gets more time under its number, or it
\* keeps the difficulty that made it stale.
RotateInPlace ==
  /\ Stale
  /\ block' = [block EXCEPT !.opened_at = now, !.expires_at = NextExpiry(now)]
  /\ UNCHANGED <<config, stats, session, token, lamports, now, history>>

RotateKeepingDifficulty ==
  /\ Stale
  /\ config' = [config EXCEPT !.current_block_number = @ + 1]
  /\ block' = BlockAfter(block.block_number + 1, block.block_reward,
                         block.difficulty_bits, block.difficulty_target)
  /\ UNCHANGED <<stats, session, token, lamports, now, history>>

\* rotate_stale_block: anyone may replace an expired block by one of the lowest
\* difficulty, for the same reward.
RotateStaleBlock ==
  LET number == block.block_number + 1
      reward == RewardForBlock(config.total_blocks_mined)
      target == TargetFromDifficultyBits(MinDifficultyBits)
  IN  /\ Stale
      /\ block.block_reward = reward
      /\ reward > 0
      /\ config' = [config EXCEPT !.current_block_number = number,
                                  !.difficulty_bits = MinDifficultyBits,
                                  !.difficulty_target = target]
      /\ block' = BlockAfter(number, reward, MinDifficultyBits, target)
      /\ UNCHANGED <<stats, session, token, lamports, now, history>>

\* The token program, on behalf of a wallet.
TransferTokens(from, to, amount) ==
  /\ token[from] >= amount
  /\ token' = Move(token, from, to, amount)
  /\ UNCHANGED <<config, block, stats, session, lamports, now, history>>

\* The clock of the validators does not go back.
Tick ==
  /\ now < MaxTime
  /\ now' = now + 1
  /\ UNCHANGED <<config, block, stats, session, token, lamports, history>>

Next ==
  \/ InitializeProtocol
  \/ \E m \in Wallets, n \in Nickname : RegisterMiner(m, n)
  \/ \E m \in Wallets, n \in Nickname : UpdateNickname(m, n)
  \/ \E m \in Wallets, h \in Hashes : SubmitSolution(m, h)
  \/ \E m \in Wallets, d \in Wallets \cup {NoWallet}, e \in SessionExpiries, c \in SessionCaps :
       AuthorizeMiningSession(m, d, e, c)
  \/ \E m, d \in Wallets, h \in Hashes : SubmitSolutionWithSession(d, m, h)
  \/ RotateStaleBlock
  \/ \E f \in Wallets, t \in Accounts, a \in TransferAmounts : TransferTokens(f, t, a)
  \/ Tick

Spec == Init /\ [][Next]_vars

\* Time passes, and some client rotates a block that stays expired: the worker
\* loop of every miner does (mining_service.rs, should_rotate_stale_block).
Fairness == WF_vars(Tick) /\ WF_vars(RotateStaleBlock)

FairSpec == Spec /\ Fairness

----------------------------------------------------------------------------
Initialized == block.status # "Absent"

\* The config and the block hold the same number, bits and target: each is
\* written by the other's instructions (submit_solution.rs 285-288,
\* rotate_stale_block.rs 72-82), and the bits shown are those of the target.
ConfigMatchesBlock ==
  Initialized =>
    /\ block.block_number = config.current_block_number
    /\ block.difficulty_bits = config.difficulty_bits
    /\ block.difficulty_target = config.difficulty_target
    /\ config.difficulty_bits = DifficultyBitsFromTarget(config.difficulty_target)

\* No sequence of retargets and rotations leaves the range of difficulty that
\* initialize_protocol accepted.
TargetWithinBounds ==
  Initialized =>
    /\ TargetFromDifficultyBits(MaxDifficultyBits) <= config.difficulty_target
    /\ config.difficulty_target <= TargetFromDifficultyBits(MinDifficultyBits)

\* The block is open exactly while the schedule has a reward left, and carries
\* that reward: InvalidCurrentRewardState and NoRewardsRemaining never fire on
\* an open block, and a block that pays nothing is never open.
OpenWhileRewardsRemain ==
  Initialized =>
    /\ block.block_reward = RewardForBlock(config.total_blocks_mined)
    /\ block.status = "Open" <=> block.block_reward > 0

\* What was distributed is the schedule's sum over the blocks settled, and the
\* vault holds the rest, whatever was sent to it in between: an open block can
\* always be paid (InsufficientVaultBalance never fires).
VaultCoversSchedule ==
  Initialized =>
    /\ config.total_rewards_distributed = EmittedBefore(config.total_blocks_mined)
    /\ config.total_rewards_distributed + token[RewardVault] >= TotalProtocolEmissions
    /\ block.status = "Open" => token[RewardVault] >= block.block_reward

\* Every block number was opened once, and settles or goes stale: the blocks
\* settled are no more than the blocks opened, and each one in excess took more
\* than a whole TTL to go stale, so stale rotations are rationed by the clock.
RotationsTakeTheirTime ==
  Initialized =>
    /\ config.total_blocks_mined <= config.current_block_number
    /\ BlockTtlSec > 0 =>
         (config.current_block_number - config.total_blocks_mined) * (BlockTtlSec + 1)
           <= block.opened_at - 1
    /\ BlockTtlSec <= 0 => config.current_block_number = config.total_blocks_mined

\* A grant is never used more often than it allows, and is inactive as soon as
\* it is used up, so a client that reads active can rely on one more submission.
GrantWithinCap ==
  \A m \in Wallets :
    LET grant == session[m]
    IN  /\ grant.active => grant.delegate # NoWallet
        /\ grant.max_submissions > 0 =>
             /\ grant.submissions_used <= grant.max_submissions
             /\ grant.active <=> grant.submissions_used < grant.max_submissions

\* register_miner, which every client calls again and again, and nickname
\* updates never reset what a miner has earned.
StatsNeverReset ==
  [][\A m \in Wallets : stats[m].registered =>
       /\ stats'[m].registered
       /\ stats'[m].valid_blocks_found >= stats[m].valid_blocks_found
       /\ stats'[m].total_rewards_earned >= stats[m].total_rewards_earned]_vars

\* A block is never rewritten under its number: once initialised, the account
\* changes only together with the number, by one, so that work on a challenge
\* is never judged against another target, reward or expiry.
BlockFixedUnderItsNumber ==
  [][Initialized /\ block' # block =>
       block'.block_number = block.block_number + 1]_vars

\* Settlement is the only way out of the vault, and emissions advance with
\* nothing else: neither time nor stale rotations.
EmissionOnlyBySettlement ==
  [][token'[RewardVault] < token[RewardVault] =>
       /\ Len(settled') = Len(settled) + 1
       /\ token[RewardVault] - token'[RewardVault] = settled'[Len(settled')].reward]_vars

\* A block that expires unsolved does not stay: someone rotates it.
ExpiredBlockIsReplaced ==
  \A n \in 0 .. MaxTime + RewardedBlocks :
    (block.block_number = n /\ block.status = "Open"
       /\ block.expires_at > 0 /\ now > block.expires_at)
      ~> (block.block_number > n)

\* Even a block no hash can solve, which max_difficulty_bits = 255 lets fast
\* blocks reach, gives way to one that some hash solves.
UnsolvableBlockGivesWay ==
  (block.status = "Open" /\ block.difficulty_target = 0 /\ block.expires_at < MaxTime)
    ~> (block.difficulty_target > 0)

\* The rewards follow the abstract schedule, whatever happens to the blocks.
Promise == INSTANCE Emission WITH
  Miners <- Wallets,
  FeeBps <- TreasuryFeeBps,
  height <- config.current_block_number,
  mined <- config.total_blocks_mined,
  earned <- [m \in Wallets |-> stats[m].total_rewards_earned],
  treasury <- config.total_treasury_fees_distributed

ImplementsEmission == Promise!EmissionSpec

\* What clients rely on: a block is left by one settlement or, past its expiry,
\* by a rotation; both open the next number, for a miner that is registered.
Seen == INSTANCE BlockChain WITH
  Miners <- Wallets,
  number <- config.current_block_number,
  status <- block.status,
  expires_at <- block.expires_at,
  registered <- {m \in Wallets : stats[m].registered},
  found <- [m \in Wallets |-> stats[m].valid_blocks_found]

ImplementsBlockChain == Seen!ChainSpec
=============================================================================
