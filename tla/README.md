# Blockmine in TLA+

Blockmine is a proof-of-work token on Solana. One program account, the *current block*, holds a
challenge and a target; whoever submits a nonce whose hash is below the target is paid the block's
reward in BLOC out of a vault that was filled once, and the submission opens the next block. A miner
client searches for nonces and submits them. This directory holds the specification of the system in
TLA+, the TLC models that check it, and proofs of its main safety properties for every deployment.
It also covers what stands around the client: how transactions are sent, where wallets are kept, and the
programs that make, fund, empty and mine with them.

Source paths below are relative to `src/`; `P/` is `onchain/programs/blockmine/src/` and `C/` is
`miner-client/src/`.

## 1. Inventory

| Part | Source | State | Operations | What is hard | What makes it correct | Here |
|---|---|---|---|---|---|---|
| Instructions | `P/lib.rs`, `P/instructions/*.rs` | config, current block, a stats account per miner, a session account per miner, token balances, SOL | the seven instructions that `lib.rs` dispatches | any order, from any number of wallets; settlement races rotation at the second of expiry; token transfers outside the program | one reward per settlement, in the order of the schedule; the vault always covers the open block; config and block agree; nothing is ever stuck | `Blockmine`, `BlockmineAudit` |
| Reward schedule | `P/math/rewards.rs` | a constant table | reward of the n-th settled block | fifteen edges, the partial last reward | the sum is the total supply, to the unit | `Rewards`, `BlocSchedule`, `Emission` |
| Difficulty | `P/math/difficulty.rs` | a 256-bit target | retarget after a settlement, reset by a rotation | rounding, clamps, thresholds, byte arithmetic | stays in range, never moves the wrong way, keeps its pace, reaches the bound it heads for | `Difficulty`, `Retarget`, `TargetBytes` |
| Admin handlers | `P/instructions/admin.rs` | pause flag, parameters, authorities | pause, rotate admin, update parameters, reset | – | – | not modelled: `lib.rs` dispatches none of them, so no transaction can run them |
| Worker loop | `C/mining_service.rs`, `C/commands/mine.rs` | block being mined, next nonce, session counters, wallet totals | refresh, rotate, search, re-check, submit, account | refresh thread and worker feed the same variable; a submission may land and report failure; reads come from a relay that lags | session totals add up to what the chain paid; it never stays on a dead block | `MinerClient` on `BlockChain`; not `mine.rs` |
| Search round | `C/miner_loop.rs`, `C/engine/*` | nonce range, stop flag, found slot, device buffers | divide a range over engines and threads | ceilings, wrap-around, two threads finding at once, buffers kept between rounds | every nonce once; a solution that is there is found; a reported nonce solves | `SearchRound` |
| Transactions | `C/submitter.rs`, `C/rpc.rs` | a signed transaction, the token accounts it needs | read the config, see to the accounts, sign, send over sender, primary and fallback, poll | duplicated, lost and late answers; nodes that lag; the blockhash expires | takes effect at most once; success is reported only of what happened; its accounts are there before it | `Submitter`, `Delivery`; its outcomes in `MinerClient` |
| Withdrawals | `C/session_wallet.rs` | balances read, fee, rent, one transfer | read, work out, sign, send, report | the wallet's miner spends meanwhile; fee and rent may be unknown; a transfer given up on lands | what is reported was received; fee and rent are set aside | `SessionSweep` |
| Wallet files | `C/wallet_store.rs` | keypair and phrase files, those of an earlier version | create, import, list, migrate, delete | a failure or crash between two steps on files; fixed names used again | a phrase does not stand beside another wallet's key (after two failures it does); no key is lost but by the user | `WalletStore` |
| Rented worker's wallet | `C/vast_wallet.rs`, `C/bin/blockmine-wallet.rs`, `C/bin/blockmine-vast-worker.rs`, `packaging/vastai` | keypair, phrase and marker files; what each program has read | make or load, show, confirm, fund, mine | four programs, started by `on-start.sh` after the setup; the container ends anywhere | an address once shown stays the wallet's, and nobody mines with a key that is not stored; the wallet stays | `VastWallet` |
| Rented worker's console | `C/bin/blockmine-vast-console.rs` | balances read, handle of the miner, whether the user stopped it | refresh, start by itself, obey keys, withdraw | a miner that ends at any time; stale balances | a funded wallet is mined with | `VastConsole` on `SessionSweep` |
| Studio | `C/bin/blockmine-studio.rs` | wallets, the active one, a handle, four channels, the recovery and delete windows, preferences | create, import, select, show, delete, start, stop, withdraw | threads that answer late; windows that outlive what they were opened for; restarts | one wallet at a time; no balance or acknowledgement of another wallet | `Studio` on `WalletStore` |
| Operator tools | `C/bin/devnet-admin.rs`, `onchain/scripts/*` | – | bootstrap, initialise, verify | the vault must be funded before initialisation | – | the funding is a constant of `Blockmine` |
| Packaging, vendored crates | `packaging/`, `scripts/`, `*/vendor/` | – | – | – | – | out of scope |

How they interact. Clients read config, block, stats and session accounts (through a relay that may
lag, else by RPC) and send one instruction per transaction. A transaction is atomic: the runtime
serialises all those that write the same account, and every instruction that matters writes the
config and the block. Inside the program the instructions call `process_submission`, which calls the
schedule and the retarget, and the token and system programs for its three transfers. The clients
share nothing with one another but the chain. On a machine, `submitter` calls `rpc` for all it reads and
sends; the worker loop, the console and the studio call `submitter` or `session_wallet`; the programs of a
rented container share only the wallet's files, and the studio's threads only channels.

`PROJECT.json` lists under `hazards` where each of these can go wrong, with the properties for it.

## 2. Modules

```
Difficulty --- TargetBytes --- Retarget --- MCRetarget
     |                             +------- RetargetTheorems <--+
     |                                                          | Life
     +-- Blockmine --- BlockmineAudit --- MCBlockmine           |
Rewards -+   |                 +--------- BlockmineTheorems ----+
     |       +-- Promise, ImplementsEmission ----> Emission
     |       +-- Seen, ImplementsBlockChain -----> BlockChain
     +-- Emission ----------- MCEmission (with BlocSchedule), BlockmineTheorems

BlockChain --- MinerClient --- MCMinerClient, MinerClientTheorems
SearchRound ------------------ MCSearchRound, SearchRoundTheorems
Submitter -------------------- MCSubmitter, SubmitterTheorems
     +-- Promise, ImplementsDelivery ---> Delivery
VastWallet ------------------- VastWalletTheorems
SessionSweep --- VastConsole - VastConsoleTheorems
WalletStore --- Studio ------- StudioTheorems
```

**Blockmine** has one action per instruction, named after it, and a record per account type.

| Variable | Code |
|---|---|
| `config` | `ProtocolConfig`: the counters and the difficulty. The parameters are constants; nothing dispatched writes them |
| `block` | `CurrentBlock`; status `Absent` before `initialize_protocol`. The number stands for the challenge |
| `stats`, `session` | `MinerStats`, `MiningSession`, per wallet. `registered` is `miner != Pubkey::default()` |
| `token`, `lamports` | balances of the token accounts (one per wallet, and the vault) and of the wallets. Rent and network fees are left out |
| `now` | `Clock::unix_timestamp` |
| `settled`, `signed`, `granted` | history only, which no guard reads: the `BlockSolved` events; for each of them who signed the instruction and whether with a session, written by the two submit instructions themselves and not by the settlement they share; and how many events there were when a miner's present grant was given |

An instruction that fails changes nothing, so each `require!`, account constraint and failing
transfer is a guard. `ProcessSubmission` is the whole of `process_submission`, the two submit
instructions wrap it as in the code. A search is an arbitrary hash from `Hashes`, judged by the
target. `winner`, `winning_nonce`, `winning_hash` and `solved_at` are always cleared again before a
handler returns and are left out, as are timestamps that no instruction reads; `total_submissions`
is always equal to `valid_blocks_found`. A miner that is the treasury has one token account for both
roles. `TransferTokens` (the token program, for a holder) and `Tick` are the environment.

**Rewards** takes the era table as a parameter. `ScheduleAssumption` says of the table what the code's
table satisfies: contiguous eras from block 0 to the tail. `EmittedAtEraStart` is the column
"Cumulative emissions" of `MINING_CURVE.md`; `EmittedBefore` is the closed form it gives.
**BlocSchedule** is the deployed table in hundredths of a BLOC, which every reward is a multiple of.
**Emission** is the abstract specification: rewards leave one at a time in the schedule's order, split
between a miner and the treasury, who have always received the cumulative column between them (`PaidBySchedule`); block numbers may be skipped. `ImplementsEmission` says that
`Blockmine` refines it.

**Difficulty** does the retarget on numbers of `Width` bits. **Retarget** is the life of a difficulty
alone, so that every threshold can be visited in sequence. **TargetBytes** does the same arithmetic as
the code does it, digit by digit on arrays; `BytesAgree` compares the two at every state of a `Retarget`. `Pow2` is a constant function because the
provers know nothing of `^`; `WidthAssumption` defines it.

**BlockChain** is what a client can tell of the program: number, status, expiry, who is registered, and how
many blocks each miner has found. `ImplementsBlockChain` says that `Blockmine` refines it, so what is
checked of a client on `BlockChain` holds on the program.

**MinerClient** is one process of `mining_service.rs` on `BlockChain`.

| Variable | Code |
|---|---|
| `pc` | where `worker_loop` is: `Starting` up to the spawn of the refresh thread, `Loop` at its `while`, `Searching` in `run_search_round`, `Checking` before the reading that precedes a submission, `Waiting` in `submitter`, `Rotated` and `Accepted` in the two `Ok` arms |
| `current_block`, `solved_block` | the locals of that name |
| `session_blocks_mined`, `wallet_blocks_mined` | of the snapshot; the two token counters are updated alike |
| `refresh`, `update` | the refresh thread, and the last block in its channel: the worker drains the channel and keeps the last |
| `stop_requested` | the flag the handle sets and both threads read |
| `relay` | what the relay answers: some block the chain once had |
| `sent`, `lingering` | the transaction the worker waits for; those it has given up on and that may still land |
| `nodes_lag` | whether an RPC node may answer with an older stats account than this process has seen |
| `started_with`, `accepted` | history only |

`submitter` and `rpc` reduce to what they can do to the worker: `Land` executes the transaction or fails it,
`Confirmed` reports success of one that landed, `Refused` reports an error, of one that failed or
was lost, and also of one that landed or is still to land. The other processes (`Others`) may mine for
the same wallet, which is what starting the client twice does. A relay that fails and a node that does
not answer are `Fail`: six attempts, and the worker ends.

**SearchRound** is `run_search_round` with both kinds of engine. A worker is a thread of the CPU engine, which
tries every `Threads`-th nonce, or a work item of a GPU's kernel, which tries one. Both keep the first
winner: the CPU's receiver takes the first `Some` of its channel, the kernel's compare-and-exchange lets
one item write `found_nonce`; `slot` stands for both. The stop flag and the kernel's test of
`found_flag` are unordered reads, so `Leave` may come at any time after a win and `Hash` may go on. `device`
is what a GPU's buffers hold, which outlives the round.

**Submitter** is one call of one of `submitter.rs`'s five operations.

| Variable | Code |
|---|---|
| `pc`, `op`, `todo` | which operation, how far it is, and the token accounts it still has to see to |
| `tx`, `path` | the transaction signed in `send_instructions`, and which of the three ways of `send_and_confirm_transaction` has it |
| `told` | what the caller gets |
| `slot`, `accounts`, `in_flight`, `landed`, `failed` | the chain: a blockhash is the slot it is of; a signature is run once |
| `sender_url` | whether `sender_url_for_rpc` gives one |

A node may lag, so it may say that an account is missing which is there, but not the reverse; it may fail;
and one "missing" outweighs the other node's failure, because `is_missing_account_error` looks at the text of both.
A relay that answers with a config which does not convert is an error without a fallback, as in
`fetch_protocol_config`. `Send` separates what a path says from what it does. **Delivery** is the abstract
specification: an effect happens once or never, and a call that said "Success" had it.

**SessionSweep** is one call of `sweep_single_session_delegate_wallet` after another. Each of its early returns is
a `Skip`. `HandOver` takes what the nodes say of the recipient's account, its rent and the fee as they come,
including no answer, for which the code has fallbacks. **VastConsole** is the loop of the console around
it: `Refresh`, `PollAndStart` and a key, in that order; the miner is what the handle can tell of it, and its
submissions take from the balance the withdrawal has read.

**VastWallet** has a step for every file that is opened or written. `pc` is where each of four programs is:
`Setup` is `blockmine-wallet ensure` in `on-start.sh`, `Tool` is the same program from the user's hand: `ensure` and `address`
(`Address`), `funding-hint` (`FundingHint`) and `reveal` (`Reveal`, `Confirm`, and then `FundingHint`); `backup-status` and
`keypair-path` show no address and change nothing. Then come the `Console` and the `Worker`. `wallet` is the address each has
in memory, `shown` the recovery material on its screen. A file opened and not yet written is `Torn`. Every command but the
last two prints the address, most of them before anything is confirmed: `displayed` has the addresses printed, and the user may
send SOL to any of them at any time (`Deposit`). `stored` and `deposited` are what the user has done. What a program says beside
the address does not matter to it: `funding-hint` prints "Deposit SOL to:" (`C/bin/blockmine-wallet.rs` 143) with the marker
there or not, although the program says to run `reveal` before funding (70).

**WalletStore** turns each call of `wallet_store.rs` into a plan, a sequence of steps on files that is worked off by
`FileStep` and may be cut off by `CutShort`. **Studio** is the thread that draws the windows. Between frames it
waits for nothing but files, so a call on files is several steps in which no button works; the threads it starts
answer later. `receiver` is whose balance a thread reads, and setting the field to another channel forgets the
first thread. `Retry` is the migration of an earlier version's files, which each listing and each loading of the
session wallet tries again. Whether a wallet is empty is left open, and so every deletion that balances could
allow is possible.

Beside some definitions stands a *mistake*: the same operator with a plausible error in it. The
system never uses these; `PROJECT.json` pairs each with a property, and TLC refutes the property
when the mistake takes the place of the definition.

## 3. Runs

| Run | Instance | Question |
|---|---|---|
| `Settlement` | two wallets (one the treasury), four rewards in two eras and a tail, 5-bit hashes, the largest number of bits, TTL 2, clock to 8, vault funded or not, transfers of 100 between all accounts | do settlements, stale rotations, registrations and deposits, in any order and to the last reward, keep the books, the counters and the abstract schedule; is an expired block, or one that no hash solves, replaced? |
| `Sessions` | two wallets that can authorise each other, no cap or one of 2, expiry never or at 2, clock to 3, two fees each | can a grant be exceeded or inherited, does its count miss a use or count another's, is a wallet charged that did not sign? |
| `Schedule` | the deployed table, eight blocks on either side of every edge | is what is paid the published curve, to the total supply? |
| `Retarget` | 9-bit targets as numbers and as three 3-bit bytes; expected 20 s, the same with targets down to one, and expected 0 s with no minimum and the largest bits; all thresholds and their neighbours | does the retarget err on the wrong side, is it as fast as it means to be and no faster, does it reach its bounds, do the byte arrays compute what the numbers say? |
| `ClientSession` | the process and a rival, who may also mine for its wallet; blocks 0 to 3 without expiry; nodes that lag and nodes that do not | does the session count what the wallet gains, whatever lands late or unreported? |
| `ClientClock` | a local clock one second fast, TTL 1, blocks 0 to 2, clock to 3 | does a process end up on the chain's block, and stop when told? |
| `Search` | 12 nonces, two rounds of 6 that run round the end; two threads with three nonces, three work items in groups of two; two challenges, two targets, a winner anywhere and another next to it or one further | is a solution found exactly if there is one, no nonce tried twice, no old puzzle answered, and every round ended? |
| `Submissions` | every operation, with a sender and without; a blockhash serves one slot, slots to 3; every set of token accounts | does an operation take effect at most once, with its accounts there, and is success said only of what has happened? |
| `VastBoot` | no key, a seed, a private key, or an invalid one in the environment; two keys to generate; four programs, any number of crashes | does what is shown belong together, is only what is stored mined with, and is every address ever printed, which may be funded at any time, the one keypair's? |
| `VastConsole` | two withdrawals of 1 or all SOL and of tokens; at most 5 lamports and a token; fee 1, or 2 if nobody says, rent 1, submission 2, deposits of 4 | is what is reported received, a transfer payable unless somebody spent, and a funded wallet mined with? |
| `Studio` | one key to generate, one of an earlier version or to import, two failures or crashes between steps on files | is what mines the active wallet, with its file; are balance and acknowledgement those of the wallet they are shown for, and, after no more than one failure, its phrase; is a keypair lost that nobody has given up? |
| `SavedPhrase` | as `Studio`, without failures | *expected to be violated*: does a generated wallet mine only after its phrase was shown? |

*Why the bounds suffice.* The program compares times only with a block's opening and expiry, so a
TTL of 2 has a second before, at and after expiry; eight ticks hold three rotations, and blocks
settled before, between and after them. Four rewards cover an era edge, the edge of the tail, a full
and the partial tail reward and the closed block after it; two of them are too small for a treasury
share, so rounding is exercised. `Hashes` has one below every non-zero target and one below some. The
retarget scales by ratios only, so 9-bit targets meet every rounding case; TLC's 32-bit integers set
that limit. The second deployment's targets come down to one, which rounding holds where it is. Three bytes have a first, a middle and a last one. Era tables of the deployed length are
too long to walk: `Schedule` starts next to each edge with the emission the column claims, so an error
within an era would show at its end.

In the client's runs, blocks 0 to 3 leave room for a submission that lands unreported, one by another
process, and one that is accounted, in any order, with a rotation among them. A clock one second
fast rotates a second too early, fails, and rotates again; a larger skew repeats the failure. The
other directions of the clock change only when the worker tries. A search range of
three nonces on two threads has a remainder, three items in groups of two have a padded one, and the
second round starts where the first, having run round the end, stopped.

In `Submissions` a blockhash that serves one slot lets each transaction be in time, late, or signed with a hash
that is already too old; a call sends at most three transactions, of which two are for token accounts. In `VastBoot`
a second key to generate is what a second key would need to appear; crashes are not bounded. In
`VastConsole` five lamports are less than two deposits and cover fee, rent and a submission, so a transfer may be payable,
become unpayable and be reserved exactly; the second call is the retry of one that was given up. In `Studio` one wallet
made and one imported are enough to have one selected, another mined with and a third record stale; the first
failure cuts every call once, and the second cuts the calls that meet what it left. `SessionPhraseRestores` says only what holds
before the second (below), and the other properties are proved for any number.

*Deadlock* is checked except in `Schedule`, which walks through data and stops, and in the client's, the search's,
the submitter's, the console's and the studio's runs: a process may be stopped, a call returns, and the bounds on
rounds, slots and withdrawals are reached.

*Fairness.* `FairSpec` of `Blockmine` has weak fairness on the clock and on `RotateStaleBlock`. Anyone may
rotate; the worker loop of every running client does so as soon as its view of the block is expired
(`C/mining_service.rs` 457–495), and repeats until it works. A block can stop being stale only by being
rotated, so weak fairness is enough. Nothing is assumed of submissions. `Retarget`'s `FairSpec` says that
blocks keep being solved; its two properties speak only of runs in which they are, and `SlowBlocksRecover` of those in which
the target stays above one: a block that took little more than twice the time is smoothed to seven quarters of it, and one times
seven quarters rounds down to one. `MinerClient`'s says
that each of the two threads goes on: every call has a timeout, so it is answered if only by an error
(10 s in the relay's client, the default of `RpcClient` for the rest, 20 s for a confirmation); and
that the relay, if the chain rests, serves its present block in the end. Nothing is assumed of the
network, of other processes, or of the user. `SearchRound`'s says that threads run and the device works.
`VastConsole`'s says that the loop goes on while no key is pressed (it polls the keyboard with a timeout, `C/bin/blockmine-vast-console.rs`
232–258), that reading the chain succeeds now and then (strong fairness: it is tried every few seconds), and that a
miner told to stop ends. `MinesWhenFunded` speaks of runs in which the user leaves the wallet funded.

*The finding.* `SavedPhrase` asks what the studio tells its user, "Before you start mining, save your recovery phrase."
(`C/bin/blockmine-studio.rs` 1351). TLC answers with the first start on a new machine: a wallet is made, the user
presses "Recovery" (3557), which opens the window without the condition (`open_seed_phrase_for_wallet(false)`, 953), does not
reveal the phrase, and presses "Start mining", which finds nothing to wait for. Selecting a wallet (824) and
restarting the program drop the condition too.

*What the model showed beside it, which no run states.* The phrase in the session's files can be another wallet's after two
failures: a deletion of the session wallet that fails after the keypair, and a creation that fails before the phrase
(`C/wallet_store.rs` 277 and 210-212), leave the phrase of the deleted wallet beside the key of the new one. The names are fixed,
nothing compares the two, and the next start loads them as one wallet, whose recovery window says "These words recover
the desktop mining wallet." (`C/bin/blockmine-studio.rs` 2017). One phrase file that is locked can cause both failures. That is why
`SessionPhraseRestores` has `failures <= 1`; without it TLC finds this in `Studio`.

## 4. Proofs

Eight modules hold theorems. Every one is about `Spec` (no fairness) and about all values of the constants that
the module's named assumptions allow; the assumptions say what the code checks or its types give.

**`RetargetTheorems`**, for every width of hash and of byte, and all parameters:

- About the operators: `TargetFalls` (more bits, smaller target), `RetargetInRange` (the retarget ends between the bounds
  whatever it starts from), `BitsReadBack` (bits read back from their own target), `RetargetDirection` and `RetargetPace`. The direction follows the
  code's three steps: clamping does not move the observed time past the expected one (`ClampedObservedSide`), the ratio in basis
  points is on the right side of one (`RatioSide`), and neither rounding nor saturation carries the target across
  (`ScalingSide`). The pace goes the same way with bounds in place of sides: what the clamps let through of the observed
  time (`ClampedObservedPace`, with the fast ramp), what ratio in basis points that makes (`RatioPace`), and what scaling by it, rounded
  down, does to a target (`ScalingPace`). The factors are the code's own: the clamp at eight times, the ramp to 35 in a hundred,
  which for an expected second or two is the floor of one second, the weight of three quarters for a slow block. Fourteen
  is what the ramp to 15 in a hundred comes to at the worst, an expected 13 s, after its three roundings.
- About the bytes: `ScalingAgrees`, `BytesOfBits` and `BitsOfBytes` say that what `scale_target`,
  `target_from_difficulty_bits` and `difficulty_bits_from_target` do to an array of bytes is what `Difficulty` does to the number it
  spells. An array is worth the sum of its bytes times their weights, and the value of its prefixes is what the lemmas
  count on (`Prefixes`, `ConcatValue`); in a multiplication the carry and in a division the remainder at each
  byte keep the balance between the prefix read and the one written (`MultiplyValue`, `DivideValue`). The schema of induction
  takes an operator, which the provers cannot instantiate; here induction is over the *set* of numbers for which
  a formula holds (`SetInduction`), and recursive functions are shown to be the tables they are meant to be
  (`TableExists`).
- About a difficulty's life, from `IInv` (its bits are those of its target, its target is between the bounds):
  `BytesAlwaysAgree`, `NeverGoesTheWrongWay` and `AlwaysMovesAtItsPace`. None of the properties is inductive: they speak of what would
  follow from the present difficulty, and a difficulty out of range could be moved the wrong way, or too far, by the clamp alone.

**`BlockmineTheorems`**, for every schedule that satisfies `ScheduleAssumption`, every width, finite set of wallets and
parameters that `initialize_protocol` accepts. What it needs of the difficulty it takes from `RetargetTheorems` through
the instance `Life`, whose assumptions `LifeAssumptions` discharges.

- About schedules: rewards are positive for exactly the first `RewardedBlocks` blocks (`RewardsEndOnce`), each block adds its
  reward to the cumulative column (`EmissionStep`, the case analysis over era edges and the tail), the column ends at the
  total (`EmissionBounded`) and is full exactly when rewards end (`EmissionEnds`).
- `TypeCorrect`: balances and shares never go negative. `StepKinds` splits a step into initialisation, settlement, rotation, and
  everything else, which leaves the config and the block alone; each invariant is then proved over four cases.
- `ConfigAlwaysMatchesBlock`, `TargetStaysWithinBounds`, from `DifficultyInv`: a settlement needs `RetargetInRange`,
  initialisation and rotation need `BitsReadBack`. From it also `RetargetsTheRightWay` and `RetargetsAtItsPace`.
- `OpenExactlyWhileRewardsRemain`, `VaultAlwaysCoversSchedule`, from `LedgerInv`. `VaultCoversSchedule`
  alone is not inductive: the next block's reward is read from the schedule and paid from the vault,
  so the step needs that the schedule at the current count is what the block carries, and that the
  sum of the schedule up to the next block fits the total.
- `StatsAreNeverReset`, `BlockIsFixedUnderItsNumber`, `OnlySettlementEmits`: action properties, from
  `TypeOK` and `LedgerInv`. The vault must be known to lose exactly the block's reward even when the
  winner is the treasury, whose one account takes both shares.
- `ProgramImplementsEmission`: the refinement. A settlement of the open block is a payment of
  `Emission`, everything else a stutter. For `InitializeProtocol` and the first `RegisterMiner`,
  which write zeroes over counters, that needs `EmissionInv`: the counters are already zero.
  `EmissionIsExhausted` is what the abstract specification promises of its end, of the program.
- `EmissionPaysBySchedule` and `EmissionExhaustsItself`: of the abstract specification by itself (`EmissionSpec`,
  with any fee and any finite set of miners). That the sum over the miners grows by what one of them is paid is
  `SumChange`; that it is then the cumulative column of the next block is `EmissionStep`.
- `ProgramImplementsBlockChain`: the same for the clients' view, with `ChainInv`: nobody has found a
  block without an account, and the first block has number 0.
- `GrantsStayWithinCap`: `GrantWithinCap` is inductive given the types; renewing a grant restarts its
  count together with its cap.
- `RotationsAreRationed`: `RotationsTakeTheirTime` with `TimeInv`, which adds that an open block's expiry
  is its opening plus the TTL and that blocks do not open in the future.
- `AccountsAlwaysAddUp`, from `BooksInv`. The sums over wallets are folds; `Sums` says what they are by what one wallet adds, so
  `SumChange` can say that a sum grows by what its only changed term does, and `MoveKeepsSum` that a transfer between two
  accounts, or of one to itself, changes none. What was distributed before initialisation must be known to be nothing.
- `GrantsCountTheirOwnUses`, `FeesAlwaysPaidBySigner`: what the events and their signatures say. A submission appends one of
  each (`Recorded`) and every other step none (`SubmissionKinds`), so a count of events grows by one or stays. The first is
  inductive only with `SignaturesMatch`: each event has its signature, and no grant was given after more events than there are,
  or a new grant would not start from nothing. The second needs it too, and that each of the two submit instructions has
  `process_submission` charge the one who signed.

**`SearchRoundTheorems`**, for all engines, batches, threads, sizes of work groups and of the nonce space: `NoneIsMissed`
(which says of a solution also that it solves) and `HashedOnce`. The arithmetic comes first: the engines' ranges follow one another and fill the round (`RangesInOrder`, `RangesCover`),
and each place in the round is one worker's, at one of its tries (`PlaceOnce`, `PlaceAll`), with the ceilings and the padded work
group. `IInv` then says, at every moment of a round, which nonces have been tried in vain (`NothingMissed`) and
which cannot have been hashed yet (`HashedInTurn`, across rounds and past the end of the nonce space); that slots hold
winners of this round (`SlotsSolve`), which needs that a device holds this round's puzzle (`Bound`); and what has been reported
(`Reports`).

**`MinerClientTheorems`**, for every set of miners, skew and time to live, and every bound on number and time: `TypeCorrect`, and
`SessionCountsTheWalletsGrowth`, `SessionCountsTheAccepted` from `SessionInv`. Neither property is
inductive: that an accepted submission adds a block depends on when it landed. `SessionInv` adds that a
submission the worker waits for, once landed, landed after the wallet was last read, so the wallet
was below what it was right after it (`LandedAfterReading`), and that at most one accepted
submission is not counted yet (`AcceptedUpToOne`). `OnTheChain` shows that every step is, on the
chain, a step of `BlockChain` or none, so `found` only grows. `CountersUntouched` covers all
actions but `Start`, `Confirmed`, `Account` and `Land`.

**`SubmitterTheorems`**, for every blockhash life and any number of slots: `AccountsComeFirst`, from `CallInv` (what is in
flight are the transactions this call signed, at most one of them does the operation, that one is `tx`, and a token
account no longer in `todo` exists); and `SubmitterImplementsDelivery`: every step that makes the operation land is
`Delivery`'s effect, which `EffectIsTx` shows to be the first, and `Return("Success")` its report.

**`VastWalletTheorems`**, for every set of keys and of environments: `ScreensAreConsistent`, `OnlyBackedUpKeysAreUsed` and
`WalletIsKept`, from one inductive invariant. None of the three is inductive alone: a program that reads the phrase
after the address must know that nobody has written either in between. `SetupGoesFirst` says that until
`on-start.sh` has passed its first command only `Setup` runs and afterwards the keypair is written or was never
readable; `FilesAgree`, that files which can be read are of one key; `Knows`, for each program, what its memory
and its screen have to do with the files at each of its steps; `PrintedIsKept`, that every address ever printed is that of the
keypair on the disk, which with the marker there is stored.

**`VastConsoleTheorems`**, for any fees, rent, deposits and number of calls: `NothingIsReportedInVain`, `FeeAndRentAreSetAside`. What
is reported must be covered by what has landed while a transfer of an earlier call, given up on, may still land: so a call has
at most one transfer on its way and a number is never used again (`OneTransferPerCall`), that transfer is the one the call
will report (`TransferIsTheCalls`), and the books are kept with what has landed and is not reported yet (`Books`).

**`StudioTheorems`**, for any set of keys: `MinesWithTheActiveWallet`, `ShowsTheActiveBalance`, `AcknowledgesWhatWasShown` and
`KeysAreAlwaysKept`, for any number of failures. A plan is a sequence of steps on files put together from sequences. The proofs never look into it: they ask what it leaves in a
file when it is done (`Leaves`, `Settles`), which a step and a concatenation keep, and whether all its steps
are of a kind. The invariant needs that a call which makes the session wallet will end with one key in both its files
(`SessionMade`), so that a wallet listed afterwards is the one the call speaks of. `KeysAreAlwaysKept` is an action property from `KeepInv`:
a readable keypair is left alone by the rest of every plan (`Spared`) unless the call is the one that may take it. Three
things make that inductive. A plan leaves a keypair's file alone once it has put a key there (`Once`), so a step cannot make a
keypair that the next one takes. A key generated now is nowhere yet (`Provenance`): every key in a file, a plan, a window or
a record is one that was generated or made elsewhere, so the name of a new wallet is free. And the wallet in the delete window is
there only together with an active wallet (`RequestFits`), while which no session wallet is made, so nobody can have taken its name. `ThePhraseRestores` says of its property what the property itself
says, that it holds until a second failure (section 3 has what then happens). Its invariant says how the files of the session wallet come and
go together before the failure (`Together`), and that afterwards they are still of one key, but for a phrase left without a
keypair (`OneKey`); and that a phrase of an earlier version keeps every other step away until it is migrated (`Legacy`).

*Theorems that no run's property states.* Those about the operators; `TypeCorrect` of several modules,
`TargetStaysWithinBounds`, `OnlySettlementEmits` and `RotationsAreRationed`, since the runs' own properties say
more; and three that carry a property over to the program: `RetargetsTheRightWay`, `RetargetsAtItsPace` and `EmissionIsExhausted`.

*Only model-checked.* Liveness (`ExpiredBlockIsReplaced`, `UnsolvableBlockGivesWay`, `SlowBlocksRecover`,
`FastBlocksRampUp`, `FollowsTheChain`, `StopEndsBothThreads`, `RoundEnds`, `MinesWhenFunded`), which the provers cannot
do. Every other property of a passing run is a theorem. That the deployed table satisfies `ScheduleAssumption`, from which the theorems
about schedules start, is evaluated by TLC in `Schedule`.

## 5. Not modelled

- `P/instructions/admin.rs`: `lib.rs` dispatches none of it.
- `C/commands/*`, `C/cli.rs`, `C/config.rs`, `C/main.rs`: a command line's mining is a simpler loop than the worker's, without
  a refresh thread; the rest are commands that build one transaction or print an account.
- Of the worker loop: the leaderboard's heartbeat, the release monitor and the window of hash rates, which feed nothing
  back. Of the search: SHA-256, the list of devices, the benchmarks.
- Of the studio: drawing, charts, text fields, the GPU's autotune, the display of the current block, and the session of a
  browser wallet, which no button starts. Of wallets: how a key is derived from a phrase.
- The runtime's rent rule for what a withdrawal leaves behind (`hazards` has it): the code does not ask for it.
- Operator scripts, packaging other than `on-start.sh`, and vendored crates.

## 6. What would come next

1. `MinerClient` with `Submitter` in place of its `Land`, `Confirmed` and `Refused`.
2. `C/commands/mine.rs` on `BlockChain`, as a second process beside `MinerClient`.
3. `SessionPhraseRestores` for any number of failures, once a deletion removes the phrase before the keypair, or loading a
   wallet compares the two.
