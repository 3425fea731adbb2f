------------------------- MODULE VastConsoleTheorems -------------------------
(***************************************************************************)
(* Withdrawals, for any fees, rent, amounts and deposits, and any number   *)
(* of calls: whatever the miner spends and however late a transfer lands,  *)
(* what was reported was received, and fee and rent are set aside.         *)
(***************************************************************************)
EXTENDS VastConsole, TLAPS

Amount == [sol : Nat, bloc : Nat]
Transfers == [call : Nat, sol : Nat, bloc : Nat, creates : BOOLEAN]
Sweeps == [call : Nat, want_sol : Nat, want_bloc : Nat, balance : Nat, tokens : Nat,
           rent_known : BOOLEAN, transfer : Transfers]

Types ==
  /\ sol \in Nat /\ bloc \in Nat /\ ata \in BOOLEAN
  /\ afloat \subseteq Transfers /\ landed \subseteq Nat /\ received \in Amount
  /\ sweeping \in {"None", "Begun", "Balance", "Tokens", "Sent", "Skipped", "Swept"}
  /\ sweep \in Sweeps
  /\ swept \subseteq Nat /\ reported \in Amount

\* No call before its transfer is signed has one on its way, and none has two: a call's
\* number is never used again, and a transfer that was run is not run once more.
OneTransferPerCall ==
  /\ \A t \in afloat : t.call <= sweep.call /\ t.call \notin landed
  /\ \A t, u \in afloat : t.call = u.call => t = u
  /\ \A c \in landed : c <= sweep.call
  /\ sweeping \in {"Begun", "Balance", "Tokens"} =>
       sweep.call \notin landed /\ \A t \in afloat : t.call # sweep.call

\* What is on its way for the present call is what that call will report.
TransferIsTheCalls ==
  sweeping = "Sent" =>
    /\ sweep.transfer.call = sweep.call
    /\ \A t \in afloat : t.call = sweep.call => t = sweep.transfer

\* What has landed for the present call and is not reported yet.
Unreported(amount) ==
  IF sweeping = "Sent" /\ sweep.call \in landed THEN amount ELSE 0

Books ==
  /\ swept \subseteq landed
  /\ reported.sol + Unreported(sweep.transfer.sol) <= received.sol
  /\ reported.bloc + Unreported(sweep.transfer.bloc) <= received.bloc

\* The transfer fits what was read, with all it costs.
FitsWhatWasRead ==
  LET t == sweep.transfer IN
  sweeping = "Sent" =>
    /\ sweep.rent_known =>
         Fee + t.sol + (IF t.creates THEN Rent ELSE 0) <= sweep.balance
    /\ t.bloc <= sweep.tokens

IInv == Types /\ OneTransferPerCall /\ TransferIsTheCalls /\ Books /\ FitsWhatWasRead

----------------------------------------------------------------------------
\* The first state satisfies IInv.
LEMMA Beginning == Init => IInv
<1>1. SUFFICES ASSUME Init PROVE IInv
  OBVIOUS
<1>2. Types
  BY <1>1 DEF Init, SweepInit, Types, NoSweep, Sweeps, Transfers, Amount
<1>3. OneTransferPerCall /\ TransferIsTheCalls /\ FitsWhatWasRead
  BY <1>1 DEF Init, SweepInit, OneTransferPerCall, TransferIsTheCalls, FitsWhatWasRead
<1>4. Books
  BY <1>1 DEF Init, SweepInit, Books, Unreported
<1>5. QED
  BY <1>2, <1>3, <1>4 DEF IInv

\* What a call hands over is within what it has read: the subtraction of fee and rent
\* does not wrap, and leaves them aside.
LEMMA TransferFits ==
  ASSUME NEW s \in Sweeps, NEW creates \in BOOLEAN, NEW fee \in Nat, NEW rent \in Nat,
         Spendable(s, creates, fee, rent)
  PROVE  LET t == Transfer(s, creates, fee, rent) IN
         /\ t \in Transfers
         /\ t.call = s.call /\ t.creates = creates /\ t.bloc <= s.tokens
         /\ fee + t.sol + (IF creates THEN rent ELSE 0) <= s.balance
<1> DEFINE reserve == fee + (IF creates THEN rent ELSE 0)
           all == s.want_sol >= s.balance /\ s.want_sol > 0
<1>1. /\ s.call \in Nat /\ s.want_sol \in Nat /\ s.want_bloc \in Nat
      /\ s.balance \in Nat /\ s.tokens \in Nat /\ reserve \in Nat
  BY DEF Sweeps
<1>2. Transfer(s, creates, fee, rent)
        = [call |-> s.call, bloc |-> s.want_bloc, creates |-> creates,
           sol |-> IF all THEN s.balance - reserve ELSE s.want_sol]
  BY DEF Transfer
<1>3. /\ s.want_bloc <= s.tokens /\ reserve <= s.balance
      /\ s.want_sol < s.balance => s.want_sol <= s.balance - reserve
  BY DEF Spendable
<1>4. s.balance - reserve \in Nat
  BY <1>1, <1>3
<1>5. ~all => reserve + s.want_sol <= s.balance
  BY <1>1, <1>3
<1> HIDE DEF reserve, all
<1>6. Transfer(s, creates, fee, rent) \in Transfers
  BY <1>1, <1>2, <1>4 DEF Transfers
<1>7. reserve + Transfer(s, creates, fee, rent).sol <= s.balance
  BY <1>1, <1>2, <1>3, <1>5
<1>8. fee + Transfer(s, creates, fee, rent).sol + (IF creates THEN rent ELSE 0) <= s.balance
  BY <1>1, <1>6, <1>7 DEF reserve, Transfers
<1>9. QED
  BY <1>2, <1>3, <1>6, <1>8

----------------------------------------------------------------------------
\* A call, up to what it hands over.
LEMMA CallPreserves ==
  ASSUME IInv,
         \/ \E want_sol \in Amounts, want_bloc \in 0 .. MaxBloc : BeginSweep(want_sol, want_bloc)
         \/ ReadBalance \/ ReadTokens \/ GiveUpSweep \/ EndSweep
  PROVE  IInv'
<1> USE SweepAssumption, ConsoleAssumption DEF IInv, walletVars, transferVars
<1>1. ASSUME NEW want_sol \in Amounts, NEW want_bloc \in 0 .. MaxBloc, BeginSweep(want_sol, want_bloc)
      PROVE  IInv'
  <2>1. want_sol \in Nat /\ want_bloc \in Nat /\ NoSweep \in Sweeps /\ sweep.call \in Nat
    BY DEF NoSweep, Sweeps, Transfers, Types
  <2> DEFINE next == sweep.call + 1
  <2>2. /\ sweep' = [NoSweep EXCEPT !.call = next, !.want_sol = want_sol, !.want_bloc = want_bloc]
        /\ sweeping' = "Begun"
        /\ UNCHANGED <<swept, reported, sol, bloc, ata, afloat, landed, received>>
    BY <1>1, Zenon DEF BeginSweep
  <2>3. next \in Nat /\ next > sweep.call
    BY <2>1
  <2> HIDE DEF next
  <2>4. sweep' \in Sweeps /\ sweep'.call = next
    BY <2>1, <2>2, <2>3 DEF Sweeps
  <2>5. Types'
    BY <2>2, <2>4 DEF Types
  <2>6. OneTransferPerCall'
    <3>1. ASSUME NEW t \in afloat PROVE t.call \in Nat /\ t.call < next
      BY <2>1, <2>3, t.call <= sweep.call DEF Types, Transfers, OneTransferPerCall
    <3>2. ASSUME NEW c \in landed PROVE c \in Nat /\ c < next
      BY <2>1, <2>3, c <= sweep.call DEF Types, OneTransferPerCall
    <3>3. QED
      BY <2>2, <2>4, <2>3, <3>1, <3>2 DEF OneTransferPerCall
  <2>7. TransferIsTheCalls' /\ FitsWhatWasRead' /\ Books'
    BY <1>1, <2>2 DEF BeginSweep, Types, Amount, TransferIsTheCalls, FitsWhatWasRead, Books, Unreported
  <2>8. QED
    BY <2>5, <2>6, <2>7
<1>2. ASSUME ReadBalance PROVE IInv'
  <2>1. Types' /\ sweep'.call = sweep.call /\ sweeping' \in {"Balance", "Skipped"}
    BY <1>2 DEF ReadBalance, Skip, Types, Sweeps
  <2>2. OneTransferPerCall'
    BY <1>2, <2>1 DEF ReadBalance, OneTransferPerCall
  <2>3. TransferIsTheCalls' /\ FitsWhatWasRead' /\ Books'
    BY <1>2, <2>1 DEF ReadBalance, Skip, TransferIsTheCalls, FitsWhatWasRead, Books, Unreported
  <2>4. QED
    BY <2>1, <2>2, <2>3
<1>3. ASSUME ReadTokens PROVE IInv'
  <2>1. Types' /\ sweep'.call = sweep.call /\ sweeping' \in {"Tokens", "Skipped"}
    BY <1>3 DEF ReadTokens, Skip, Types, Sweeps
  <2>2. OneTransferPerCall'
    BY <1>3, <2>1 DEF ReadTokens, OneTransferPerCall
  <2>3. TransferIsTheCalls' /\ FitsWhatWasRead' /\ Books'
    BY <1>3, <2>1 DEF ReadTokens, Skip, TransferIsTheCalls, FitsWhatWasRead, Books, Unreported
  <2>4. QED
    BY <2>1, <2>2, <2>3
<1>4. ASSUME GiveUpSweep PROVE IInv'
  <2>1. Types' /\ sweeping' = "Skipped"
    BY <1>4 DEF GiveUpSweep, Skip, Types
  <2>2. OneTransferPerCall' /\ TransferIsTheCalls' /\ FitsWhatWasRead'
    BY <1>4, <2>1 DEF GiveUpSweep, OneTransferPerCall, TransferIsTheCalls, FitsWhatWasRead
  <2>3. Books'
    BY <1>4, <2>1 DEF GiveUpSweep, Skip, Types, Amount, Sweeps, Transfers, Books, Unreported
  <2>4. QED
    BY <2>1, <2>2, <2>3
<1>5. ASSUME EndSweep PROVE IInv'
  <2>1. Types' /\ sweep'.call = sweep.call /\ sweeping' = "None"
    BY <1>5 DEF EndSweep, NoSweep, Types, Sweeps, Transfers
  <2>2. OneTransferPerCall' /\ TransferIsTheCalls' /\ FitsWhatWasRead'
    BY <1>5, <2>1 DEF EndSweep, OneTransferPerCall, TransferIsTheCalls, FitsWhatWasRead
  <2>3. Books'
    BY <1>5, <2>1 DEF EndSweep, Types, Amount, Sweeps, Transfers, Books, Unreported
  <2>4. QED
    BY <2>1, <2>2, <2>3
<1>6. QED
  BY <1>1, <1>2, <1>3, <1>4, <1>5

\* A transfer is signed, and perhaps sent.
LEMMA HandOverPreserves ==
  ASSUME IInv, HandOver PROVE IInv'
<1> USE SweepAssumption DEF IInv, walletVars
<1>1. CASE Skip /\ UNCHANGED <<afloat, sweep, walletVars, landed, received>>
  <2>1. Types' /\ sweeping' = "Skipped"
    BY <1>1 DEF Skip, Types
  <2>2. OneTransferPerCall' /\ TransferIsTheCalls' /\ FitsWhatWasRead'
    BY <1>1, <2>1 DEF OneTransferPerCall, TransferIsTheCalls, FitsWhatWasRead
  <2>3. Books'
    BY <1>1, <2>1 DEF Skip, HandOver, Types, Amount, Sweeps, Transfers, Books, Unreported
  <2>4. QED
    BY <2>1, <2>2, <2>3
<1>2. ASSUME NEW creates \in BOOLEAN, NEW rent \in {Rent, 0}, NEW fee \in {Fee, FallbackFee},
             Spendable(sweep, creates, fee, rent),
             LET t == Transfer(sweep, creates, fee, rent) IN
             /\ afloat' \in {afloat, afloat \cup {t}}
             /\ sweep' = [sweep EXCEPT !.transfer = t, !.rent_known = (rent = Rent)]
             /\ sweeping' = "Sent"
             /\ UNCHANGED <<swept, reported, walletVars, landed, received>>
      PROVE  IInv'
  <2> DEFINE t == Transfer(sweep, creates, fee, rent)
  <2>1. /\ t \in Transfers /\ t.call = sweep.call /\ t.creates = creates /\ t.bloc <= sweep.tokens
        /\ fee + t.sol + (IF creates THEN rent ELSE 0) <= sweep.balance
    BY <1>2, TransferFits DEF Types
  <2>2. /\ afloat' \in {afloat, afloat \cup {t}}
        /\ sweep' = [sweep EXCEPT !.transfer = t, !.rent_known = (rent = Rent)]
        /\ sweeping = "Tokens" /\ sweeping' = "Sent"
        /\ UNCHANGED <<swept, reported, sol, bloc, ata, landed, received>>
    BY <1>2 DEF HandOver
  <2> HIDE DEF t
  <2>3. /\ sweep' \in Sweeps /\ sweep'.call = sweep.call /\ sweep'.transfer = t
        /\ sweep'.rent_known = (rent = Rent)
        /\ sweep'.balance = sweep.balance /\ sweep'.tokens = sweep.tokens
    BY <2>1, <2>2 DEF Types, Sweeps
  <2>4. Types'
    BY <2>1, <2>2, <2>3 DEF Types
  <2>5. OneTransferPerCall'
    BY <2>1, <2>2, <2>3 DEF Types, Sweeps, OneTransferPerCall
  <2>6. TransferIsTheCalls'
    BY <2>1, <2>2, <2>3 DEF OneTransferPerCall, TransferIsTheCalls
  <2>7. Books'
    BY <2>2, <2>3 DEF OneTransferPerCall, Books, Unreported
  <2>8. FitsWhatWasRead'
    <3>1. Fee <= fee /\ t.sol \in Nat /\ sweep.balance \in Nat
      BY <2>1 DEF Types, Transfers, Sweeps
    <3>2. rent = Rent => Fee + t.sol + (IF t.creates THEN Rent ELSE 0) <= sweep.balance
      BY <2>1, <3>1
    <3>3. QED
      BY <2>1, <2>3, <3>2 DEF FitsWhatWasRead
  <2>9. QED
    BY <2>4, <2>5, <2>6, <2>7, <2>8
<1>3. CASE ~(Skip /\ UNCHANGED <<afloat, sweep>>)
  <2> DEFINE Kinds == IF sweep.want_bloc > 0 THEN BOOLEAN ELSE {FALSE}
             Sends(creates, rent, fee) ==
               LET t == Transfer(sweep, creates, fee, rent) IN
               /\ afloat' \in {afloat, afloat \cup {t}}
               /\ sweep' = [sweep EXCEPT !.transfer = t, !.rent_known = (rent = Rent)]
               /\ sweeping' = "Sent"
               /\ UNCHANGED <<swept, reported>>
  <2>1. PICK creates \in Kinds, rent \in {Rent, 0}, fee \in {Fee, FallbackFee} :
          IF Spendable(sweep, creates, fee, rent) THEN Sends(creates, rent, fee)
          ELSE Skip /\ UNCHANGED <<afloat, sweep>>
    BY <1>3, Zenon DEF HandOver
  <2>2. Spendable(sweep, creates, fee, rent) /\ Sends(creates, rent, fee)
    BY <1>3, <2>1, Zenon
  <2>3. UNCHANGED <<walletVars, landed, received>>
    BY Zenon DEF HandOver
  <2>4. creates \in BOOLEAN
    OBVIOUS
  <2>5. QED
    BY <1>2, <2>2, <2>3, <2>4
<1>4. QED
  BY <1>1, <1>3 DEF HandOver

\* A call hears that its transfer was run.
LEMMA ConfirmPreserves ==
  ASSUME IInv, ConfirmSweep PROVE IInv'
<1> USE DEF IInv, walletVars, transferVars, ConfirmSweep
<1>1. /\ sweep.call \in landed /\ sweeping' = "Swept"
      /\ swept' = swept \cup {sweep.call}
      /\ reported' = [sol |-> reported.sol + sweep.transfer.sol,
                      bloc |-> reported.bloc + sweep.transfer.bloc]
      /\ UNCHANGED <<sweep, sol, bloc, ata, afloat, landed, received>>
  OBVIOUS
<1>2. Types'
  <2>1. reported' \in Amount
    BY <1>1 DEF Types, Amount, Sweeps, Transfers
  <2>2. QED
    BY <1>1, <2>1 DEF Types
<1>3. OneTransferPerCall' /\ TransferIsTheCalls' /\ FitsWhatWasRead'
  BY <1>1 DEF OneTransferPerCall, TransferIsTheCalls, FitsWhatWasRead
<1>4. Books'
  <2>1. sweeping = "Sent" /\ sweep.call \in landed
    OBVIOUS
  <2>2. reported'.sol = reported.sol + sweep.transfer.sol /\ reported'.bloc = reported.bloc + sweep.transfer.bloc
    BY <1>1
  <2>3. /\ reported.sol \in Nat /\ reported.bloc \in Nat
        /\ sweep.transfer.sol \in Nat /\ sweep.transfer.bloc \in Nat
    BY DEF Types, Amount, Sweeps, Transfers
  <2>4. QED
    BY <1>1, <2>1, <2>2, <2>3 DEF Books, Unreported
<1>5. QED
  BY <1>2, <1>3, <1>4

\* A transfer is run, of the present call or of one that was given up, or fails.
LEMMA LandingPreserves ==
  ASSUME IInv, LandSweep PROVE IInv'
<1> USE SweepAssumption DEF IInv, callVars
<1>1. PICK t \in afloat :
        /\ afloat' = afloat \ {t}
        /\ IF Payable(t)
           THEN /\ sol' = sol - (Fee + t.sol + (IF t.creates /\ ~ata THEN Rent ELSE 0))
                /\ bloc' = bloc - t.bloc
                /\ ata' = (ata \/ t.creates)
                /\ landed' = landed \cup {t.call}
                /\ received' = [sol |-> received.sol + t.sol, bloc |-> received.bloc + t.bloc]
           ELSE /\ sol' \in {sol, IF sol < Fee THEN 0 ELSE sol - Fee}
                /\ UNCHANGED <<bloc, ata, landed, received>>
  BY DEF LandSweep
<1>2. UNCHANGED <<sweeping, sweep, swept, reported>> /\ afloat' \subseteq afloat
  BY <1>1 DEF LandSweep
<1>3. t \in Transfers /\ t.call \in Nat /\ t.sol \in Nat /\ t.bloc \in Nat /\ t.creates \in BOOLEAN
  BY DEF Types, Transfers
<1>4. TransferIsTheCalls' /\ FitsWhatWasRead'
  BY <1>2 DEF TransferIsTheCalls, FitsWhatWasRead
<1>5. CASE Payable(t)
  <2>1. Types'
    <3>1. sol' \in Nat /\ bloc' \in Nat /\ ata' \in BOOLEAN
      BY <1>1, <1>3, <1>5 DEF Types, Payable
    <3>2. received' \in Amount
      BY <1>1, <1>3, <1>5 DEF Types, Amount
    <3>3. QED
      BY <1>1, <1>2, <1>3, <1>5, <3>1, <3>2 DEF Types
  <2>2. OneTransferPerCall'
    BY <1>1, <1>2, <1>5 DEF OneTransferPerCall
  <2>3. Books'
    <3>1. /\ received'.sol = received.sol + t.sol /\ received'.bloc = received.bloc + t.bloc
          /\ landed' = landed \cup {t.call} /\ t.call \notin landed
      BY <1>1, <1>5 DEF OneTransferPerCall
    <3>2. /\ reported.sol \in Nat /\ reported.bloc \in Nat /\ received.sol \in Nat /\ received.bloc \in Nat
          /\ sweep.transfer.sol \in Nat /\ sweep.transfer.bloc \in Nat
      BY DEF Types, Amount, Sweeps, Transfers
    <3>3. CASE sweeping = "Sent" /\ t.call = sweep.call
      BY <1>2, <1>3, <3>1, <3>2, <3>3 DEF Books, Unreported, TransferIsTheCalls
    <3>4. CASE ~(sweeping = "Sent" /\ t.call = sweep.call)
      BY <1>2, <1>3, <3>1, <3>2, <3>4 DEF Books, Unreported
    <3>5. QED
      BY <3>3, <3>4
  <2>4. QED
    BY <1>4, <2>1, <2>2, <2>3
<1>6. CASE ~Payable(t)
  <2>1. Types'
    <3>1. sol' = sol \/ sol' = IF sol < Fee THEN 0 ELSE sol - Fee
      BY <1>1, <1>6
    <3>2. sol' \in Nat
      BY <3>1 DEF Types
    <3>3. QED
      BY <1>1, <1>2, <1>6, <3>2 DEF Types
  <2>2. OneTransferPerCall'
    BY <1>1, <1>2, <1>6 DEF OneTransferPerCall
  <2>3. Books'
    BY <1>1, <1>2, <1>6 DEF Books, Unreported
  <2>4. QED
    BY <1>4, <2>1, <2>2, <2>3
<1>7. QED
  BY <1>5, <1>6

\* What the miner and the user do to the balances leaves the withdrawals alone.
LEMMA OthersPreserve ==
  ASSUME IInv, UNCHANGED <<ata, transferVars, callVars>>, sol' \in Nat, bloc' \in Nat
  PROVE  IInv'
BY DEF IInv, Types, OneTransferPerCall, TransferIsTheCalls, Books, Unreported, FitsWhatWasRead,
       transferVars, callVars

\* Every step of the console, its miner, its user and the chain preserves IInv.
LEMMA Preservation ==
  ASSUME IInv, [Next]_vars PROVE IInv'
<1>1. sol \in Nat /\ bloc \in Nat
  BY DEF IInv, Types
<1>2. CASE UNCHANGED sweepVars
  BY <1>1, <1>2, OthersPreserve DEF sweepVars, walletVars
<1>3. CASE Prompt \/ PromptFails \/ WithdrawDone
  BY <1>2, <1>3, CallPreserves DEF Prompt, PromptFails, WithdrawDone
<1>4. CASE Withdraw
  BY <1>4, CallPreserves, HandOverPreserves, ConfirmPreserves DEF Withdraw, SweepStep
<1>5. CASE SubmissionLands
  <2>1. sol' \in Nat /\ bloc' \in Nat
    BY <1>1, <1>5, ConsoleAssumption DEF SubmissionLands
  <2>2. QED
    BY <1>5, <2>1, OthersPreserve DEF SubmissionLands
<1>6. CASE Deposit
  <2>1. sol' \in Nat /\ bloc' \in Nat
    BY <1>1, <1>6, ConsoleAssumption DEF Deposit
  <2>2. QED
    BY <1>6, <2>1, OthersPreserve DEF Deposit
<1>7. CASE TransferLands
  BY <1>7, LandingPreserves DEF TransferLands
<1>8. CASE Refresh \/ PollAndStart \/ NoKey \/ KeyRefresh \/ KeyToggle \/ KeyWithdraw \/ Quit \/ Reopen
             \/ WaitForShutdown \/ MinerSubmits \/ MinerEnds
  BY <1>2, <1>8 DEF Refresh, PollAndStart, NoKey, KeyRefresh, KeyToggle, KeyWithdraw, Quit, Reopen,
                   WaitForShutdown, MinerSubmits, MinerEnds
<1>9. CASE UNCHANGED vars
  BY <1>2, <1>9 DEF vars
<1>10. QED
  BY <1>3, <1>4, <1>5, <1>6, <1>7, <1>8, <1>9 DEF Next, ConsoleStep

----------------------------------------------------------------------------
\* IInv is an invariant.
THEOREM Inductive == Spec => []IInv
BY Beginning, Preservation, PTL DEF Spec

\* What the calls have said was sent, the recipient has, once each
\* (sweep_wallet_with_client, sweep_wallets_with_rpc).
THEOREM NothingIsReportedInVain == Spec => []ReportedIsReceived
<1>1. IInv => ReportedIsReceived
  BY DEF IInv, Types, Amount, Sweeps, Transfers, Books, Unreported, ReportedIsReceived
<1>2. QED
  BY <1>1, Inductive, PTL

\* A transfer on its way can be paid, unless somebody has taken from the wallet since
\* it was read, or nobody said what a token account costs.
THEOREM FeeAndRentAreSetAside == Spec => []TransferIsCovered
<1>1. IInv => TransferIsCovered
  <2>1. SUFFICES ASSUME IInv, sweeping = "Sent", sweep.rent_known,
                        sol >= sweep.balance, bloc >= sweep.tokens,
                        sweep.transfer.bloc > 0 => ata \/ sweep.transfer.creates
                 PROVE  Payable(sweep.transfer)
    BY DEF TransferIsCovered
  <2>2. /\ sol \in Nat /\ bloc \in Nat /\ sweep.balance \in Nat /\ sweep.tokens \in Nat
        /\ sweep.transfer.sol \in Nat /\ sweep.transfer.bloc \in Nat
    BY <2>1 DEF IInv, Types, Sweeps, Transfers
  <2>3. QED
    BY <2>1, <2>2, SweepAssumption DEF IInv, FitsWhatWasRead, Payable
<1>2. QED
  BY <1>1, Inductive, PTL
=============================================================================
