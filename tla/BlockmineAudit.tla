--------------------------- MODULE BlockmineAudit ---------------------------
(***************************************************************************)
(* The books of the program: what the accounts say, summed over miners and *)
(* compared with the BlockSolved events.                                   *)
(***************************************************************************)
EXTENDS Blockmine, Functions, FiniteSets

ASSUME AuditAssumption == IsFiniteSet(Wallets)

SumOver(f) == SumFunctionOnSet(f, DOMAIN f)

\* The miner accounts add up to the totals of the config account, which is
\* what a leaderboard shows next to the protocol's totals; and the tokens they
\* speak of left the vault and were neither made nor lost on the way.
AccountsAddUp ==
  /\ SumOver(token) \in VaultFundings
  /\ SumOver([m \in Wallets |-> stats[m].valid_blocks_found])
       = config.total_blocks_mined
  /\ SumOver([m \in Wallets |-> stats[m].total_rewards_earned])
       + config.total_treasury_fees_distributed
       = config.total_rewards_distributed

\* Whoever signed a submission paid its fee, once per block settled, to the
\* treasury: the delegate of a session and never the miner it works for
\* (submit_solution.rs 138, session_mining.rs).
FeesPaidBySigner ==
  \A w \in Wallets :
    lamports[w] = InitialLamports[w]
      - SubmitFeeLamports * Cardinality({i \in DOMAIN signed : signed[i].signer = w})
      + IF w = Treasury THEN SubmitFeeLamports * Len(settled) ELSE 0

\* What was settled for a miner with a session since its present grant was made.
Uses(m) ==
  {i \in DOMAIN settled : i > granted[m] /\ settled[i].winner = m /\ signed[i].with_session}

\* A grant counts the submissions made with it, all of them and nothing before it,
\* and the delegate it names has signed each: a new grant starts from nothing, and
\* the delegate it replaced has no more say (session_mining.rs 105,
\* submit_solution.rs 118).
GrantCountsItsOwnUses ==
  \A m \in Wallets :
    /\ session[m].submissions_used = Cardinality(Uses(m))
    /\ \A i \in Uses(m) : signed[i].signer = session[m].delegate
=============================================================================
