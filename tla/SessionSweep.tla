----------------------------- MODULE SessionSweep -----------------------------
(***************************************************************************)
(* Withdrawing from a wallet that mines: session_wallet.rs reads the       *)
(* balances, works out what can be spent, signs one transaction and waits  *)
(* for it, while the miner may spend from the same wallet.                 *)
(***************************************************************************)
EXTENDS Naturals

CONSTANTS
  Fee,           \* of a transaction
  FallbackFee,   \* assumed when nobody says what it is
  Rent,          \* of a token account
  MaxSweeps      \* bound on the number of calls

ASSUME SweepAssumption ==
  /\ Fee \in Nat /\ FallbackFee \in Nat /\ Rent \in Nat
  /\ Fee <= FallbackFee
  /\ MaxSweeps \in Nat

VARIABLES
  sol, bloc,     \* what the wallet holds
  ata,           \* whether the recipient has a token account
  afloat,        \* transfers handed over that have not been run
  landed,        \* calls whose transfer was run
  received,      \* history: what the transfers have brought the recipient
  sweeping,      \* where the call is
  sweep,         \* what it knows
  swept,         \* history: calls that returned a signature
  reported       \* history: what these said was sent

walletVars == <<sol, bloc, ata>>
transferVars == <<afloat, landed, received>>
callVars == <<sweeping, sweep, swept, reported>>
sweepVars == <<walletVars, transferVars, callVars>>

NoSweep == [call |-> 0, want_sol |-> 0, want_bloc |-> 0, balance |-> 0, tokens |-> 0,
            rent_known |-> TRUE, transfer |-> [call |-> 0, sol |-> 0, bloc |-> 0, creates |-> FALSE]]

SweepInit ==
  /\ bloc = 0
  /\ ata \in BOOLEAN
  /\ afloat = {} /\ landed = {}
  /\ received = [sol |-> 0, bloc |-> 0]
  /\ sweeping = "None"
  /\ sweep = NoSweep
  /\ swept = {}
  /\ reported = [sol |-> 0, bloc |-> 0]

----------------------------------------------------------------------------
(* What can be spent *)

\* A mistake: the rent of the recipient's token account is not set aside.
TransferWithoutRent(s, creates, fee, rent) ==
  [call |-> s.call, bloc |-> s.want_bloc, creates |-> creates,
   sol |-> IF s.want_sol >= s.balance /\ s.want_sol > 0 THEN s.balance - fee ELSE s.want_sol]

\* All there is, less what the transaction costs, if that much or more is asked for.
Transfer(s, creates, fee, rent) ==
  LET reserve == fee + (IF creates THEN rent ELSE 0) IN
  [call |-> s.call, bloc |-> s.want_bloc, creates |-> creates,
   sol |-> IF s.want_sol >= s.balance /\ s.want_sol > 0 THEN s.balance - reserve ELSE s.want_sol]

Spendable(s, creates, fee, rent) ==
  LET reserve == fee + (IF creates THEN rent ELSE 0) IN
  /\ s.want_sol > 0 \/ s.want_bloc > 0
  /\ s.want_bloc <= s.tokens
  /\ reserve <= s.balance
  /\ s.want_sol > 0 => reserve < s.balance
  /\ s.want_sol < s.balance => s.want_sol <= s.balance - reserve

----------------------------------------------------------------------------
(* A call of sweep_single_session_delegate_wallet *)

\* More than the wallet can hold is "MAX", which is u64::MAX.
BeginSweep(want_sol, want_bloc) ==
  /\ sweeping = "None" /\ sweep.call < MaxSweeps
  /\ sweep' = [NoSweep EXCEPT !.call = sweep.call + 1,
                              !.want_sol = want_sol, !.want_bloc = want_bloc]
  /\ sweeping' = "Begun"
  /\ UNCHANGED <<swept, reported, walletVars, transferVars>>

\* The call ends, with a reason why it skipped the wallet or with an error.
Skip ==
  /\ sweeping' = "Skipped"
  /\ UNCHANGED <<swept, reported>>

\* The config, the keypair, whose wallet may be the recipient's, and the balance.
ReadBalance ==
  /\ sweeping = "Begun"
  /\ \/ Skip /\ UNCHANGED sweep
     \/ /\ sweep' = [sweep EXCEPT !.balance = sol]
        /\ sweeping' = "Balance"
        /\ UNCHANGED <<swept, reported>>
  /\ UNCHANGED <<walletVars, transferVars>>

\* Tokens that cannot be read are none.
ReadTokens ==
  /\ sweeping = "Balance"
  /\ \E tokens \in {bloc, 0} :
       /\ sweep' = [sweep EXCEPT !.tokens = tokens]
       /\ IF sweep.balance = 0 /\ tokens = 0
          THEN Skip
          ELSE sweeping' = "Tokens" /\ UNCHANGED <<swept, reported>>
  /\ UNCHANGED <<walletVars, transferVars>>

\* Whether the recipient has a token account, what one costs and what the fee is:
\* each is asked for, the node may lag, and without an answer the account is
\* taken to exist, to cost nothing, and the fee to be the fallback.
HandOver ==
  /\ sweeping = "Tokens"
  /\ \/ \E creates \in (IF sweep.want_bloc > 0 THEN BOOLEAN ELSE {FALSE}),
           rent \in {Rent, 0}, fee \in {Fee, FallbackFee} :
          IF Spendable(sweep, creates, fee, rent)
          THEN LET transfer == Transfer(sweep, creates, fee, rent) IN
               /\ afloat' \in {afloat, afloat \cup {transfer}}
               /\ sweep' = [sweep EXCEPT !.transfer = transfer, !.rent_known = (rent = Rent)]
               /\ sweeping' = "Sent"
               /\ UNCHANGED <<swept, reported>>
          ELSE Skip /\ UNCHANGED <<afloat, sweep>>
     \/ Skip /\ UNCHANGED <<afloat, sweep>>
  /\ UNCHANGED <<walletVars, landed, received>>

\* A mistake: having sent it counts as having seen it.
ConfirmSent ==
  /\ sweeping = "Sent"
  /\ swept' = swept \cup {sweep.call}
  /\ reported' = [sol |-> reported.sol + sweep.transfer.sol,
                  bloc |-> reported.bloc + sweep.transfer.bloc]
  /\ sweeping' = "Swept"
  /\ UNCHANGED <<sweep, walletVars, transferVars>>

\* send_and_confirm_transaction returns the signature.
ConfirmSweep ==
  /\ sweeping = "Sent" /\ sweep.call \in landed
  /\ swept' = swept \cup {sweep.call}
  /\ reported' = [sol |-> reported.sol + sweep.transfer.sol,
                  bloc |-> reported.bloc + sweep.transfer.bloc]
  /\ sweeping' = "Swept"
  /\ UNCHANGED <<sweep, walletVars, transferVars>>

\* It returns an error, whatever has become of the transaction.
GiveUpSweep ==
  /\ sweeping = "Sent"
  /\ Skip
  /\ UNCHANGED <<sweep, walletVars, transferVars>>

EndSweep ==
  /\ sweeping' = "None"
  /\ sweep' = [NoSweep EXCEPT !.call = sweep.call]
  /\ UNCHANGED <<swept, reported, walletVars, transferVars>>

----------------------------------------------------------------------------
(* The chain *)

Payable(t) ==
  /\ Fee + t.sol + (IF t.creates /\ ~ata THEN Rent ELSE 0) <= sol
  /\ t.bloc <= bloc
  /\ t.bloc > 0 => ata \/ t.creates

\* A transfer is run as a whole or, if it is not payable, costs the fee at most.
LandSweep ==
  /\ \E t \in afloat :
       /\ afloat' = afloat \ {t}
       /\ IF Payable(t)
          THEN /\ sol' = sol - (Fee + t.sol + (IF t.creates /\ ~ata THEN Rent ELSE 0))
               /\ bloc' = bloc - t.bloc
               /\ ata' = (ata \/ t.creates)
               /\ landed' = landed \cup {t.call}
               /\ received' = [sol |-> received.sol + t.sol, bloc |-> received.bloc + t.bloc]
          ELSE /\ sol' \in {sol, IF sol < Fee THEN 0 ELSE sol - Fee}
               /\ UNCHANGED <<bloc, ata, landed, received>>
  /\ UNCHANGED callVars

SweepStep == ReadBalance \/ ReadTokens \/ HandOver \/ ConfirmSweep \/ GiveUpSweep

----------------------------------------------------------------------------
(* Properties *)

\* What the calls have said was sent, the recipient has, once each, although a
\* transfer given up on may land later (sweep_wallet_with_client, sweep_wallets_with_rpc).
ReportedIsReceived ==
  /\ swept \subseteq landed
  /\ reported.sol <= received.sol /\ reported.bloc <= received.bloc

\* A transfer on its way can be paid, unless somebody has taken from the wallet
\* since it was read, or nobody said what a token account costs: fee and rent
\* are set aside whatever is asked for.
TransferIsCovered ==
  LET t == sweep.transfer IN
  sweeping = "Sent" /\ t \in afloat /\ sweep.rent_known
    /\ sol >= sweep.balance /\ bloc >= sweep.tokens /\ (t.bloc > 0 => ata \/ t.creates)
  => Payable(t)
=============================================================================
