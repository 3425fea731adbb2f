----------------------------- MODULE VastConsole -----------------------------
(***************************************************************************)
(* The console of a rented worker, once the wallet is backed up: a loop    *)
(* that reads the chain, hears from the miner, starts it when the wallet   *)
(* is funded and obeys a key, and the withdrawal it makes from the wallet  *)
(* that its miner may still be spending from.                              *)
(***************************************************************************)
EXTENDS SessionSweep

CONSTANTS
  Required,        \* lamports that wallet_is_funded asks for
  SubmissionCost,  \* fee of a submission and of its transaction
  Deposits,        \* what the user may send to the wallet
  Amounts,         \* of SOL the user may ask for
  MaxSol, MaxBloc  \* bounds on what the wallet may hold

ASSUME ConsoleAssumption ==
  /\ Required \in Nat /\ SubmissionCost \in Nat /\ MaxSol \in Nat /\ MaxBloc \in Nat
  /\ Deposits \subseteq Nat /\ Amounts \subseteq Nat

VARIABLES
  at,            \* where the console is
  shown,         \* the balances it has read
  devices,       \* whether it sees a device for its backend
  manual_stop,
  miner,         \* of the handle, "None" without one
  submission     \* whether a submission may land

consoleVars == <<at, shown, devices, manual_stop, miner>>
vars == <<sweepVars, consoleVars, submission>>

Init ==
  /\ SweepInit
  /\ sol = 0
  /\ at = "Refresh"
  /\ shown = [sol |-> 0, bloc |-> 0]
  /\ devices \in BOOLEAN
  /\ manual_stop = FALSE
  /\ miner = "None"
  /\ submission = FALSE

Funded == shown.sol >= Required

----------------------------------------------------------------------------
(* The loop *)

\* Not yet due, or the relay and the nodes do not answer, and the old balances
\* stay.
Read == shown' \in {shown, [sol |-> sol, bloc |-> bloc]}

Refresh ==
  /\ at = "Refresh"
  /\ Read
  /\ at' = "Poll"
  /\ UNCHANGED <<devices, manual_stop, miner, submission, sweepVars>>

\* A mistake: only a miner that was told to stop is known to have ended.
PolledAfterStop == IF miner = "Ended" /\ manual_stop THEN "None" ELSE miner

\* poll_mining_updates: the end of the miner is the last update.
Polled == IF miner = "Ended" THEN "None" ELSE miner

\* start_mining, which ends the console if the keypair, the devices or the
\* handle fail.
StartMining(next) ==
  \/ miner' = "Running" /\ manual_stop' = FALSE /\ at' = next
  \/ miner' = Polled /\ at' = "Ended" /\ UNCHANGED manual_stop

\* maybe_auto_start
MayStart == Polled = "None" /\ ~manual_stop /\ Funded /\ devices

PollAndStart ==
  /\ at = "Poll"
  /\ IF MayStart
     THEN StartMining("Key")
     ELSE miner' = Polled /\ at' = "Key" /\ UNCHANGED manual_stop
  /\ UNCHANGED <<shown, devices, submission, sweepVars>>

\* stop_mining: the flag is raised for the miner, if there is one.
Stop ==
  /\ miner' = IF miner = "Running" THEN "Stopping" ELSE miner
  /\ manual_stop' = (manual_stop \/ miner # "None")

NoKey ==
  /\ at = "Key"
  /\ at' = "Refresh"
  /\ UNCHANGED <<shown, devices, manual_stop, miner, submission, sweepVars>>

KeyRefresh ==
  /\ at = "Key"
  /\ Read
  /\ devices' \in BOOLEAN
  /\ at' = "Refresh"
  /\ UNCHANGED <<manual_stop, miner, submission, sweepVars>>

\* toggle_mining asks neither for a device nor whether it was stopped.
KeyToggle ==
  /\ at = "Key"
  /\ \/ miner # "None" /\ Stop /\ at' = "Refresh"
     \/ miner = "None" /\ ~Funded /\ at' = "Refresh" /\ UNCHANGED <<miner, manual_stop>>
     \/ miner = "None" /\ Funded /\ StartMining("Refresh")
  /\ UNCHANGED <<shown, devices, submission, sweepVars>>

\* The handle's flag is raised and the process ends, the miner with it; what it
\* has sent may still land.
Quit ==
  /\ at = "Key"
  /\ at' = "Ended" /\ miner' = "None"
  /\ UNCHANGED <<shown, devices, manual_stop, submission, sweepVars>>

\* The user starts the console again; nothing is remembered.
Reopen ==
  /\ at = "Ended"
  /\ at' = "Refresh"
  /\ shown' = [sol |-> 0, bloc |-> 0]
  /\ devices' \in BOOLEAN
  /\ manual_stop' = FALSE
  /\ UNCHANGED <<miner, submission, sweepVars>>

----------------------------------------------------------------------------
(* withdraw_flow *)

KeyWithdraw ==
  /\ at = "Key"
  /\ Stop
  /\ at' = "Waiting"
  /\ UNCHANGED <<shown, devices, submission, sweepVars>>

\* wait_for_worker_shutdown: until the miner has ended, or eight seconds.
WaitForShutdown ==
  /\ at = "Waiting"
  /\ miner' = Polled
  /\ at' = "Prompt"
  /\ UNCHANGED <<shown, devices, manual_stop, submission, sweepVars>>

\* Amounts the user may ask for; MAX tokens are those last read.
Prompt ==
  /\ at = "Prompt"
  /\ \E want_sol \in Amounts, want_bloc \in 0 .. MaxBloc :
       /\ want_bloc > 0 => want_bloc \in {1, shown.bloc}
       /\ BeginSweep(want_sol, want_bloc)
  /\ at' = "Sweep"
  /\ UNCHANGED <<shown, devices, manual_stop, miner, submission>>

\* Bad input, or a config that cannot be read, ends the console.
PromptFails ==
  /\ \/ at = "Prompt" /\ UNCHANGED sweepVars
     \/ at = "Sweep" /\ sweeping = "Begun" /\ EndSweep
  /\ at' = "Ended" /\ miner' = "None"
  /\ Read
  /\ UNCHANGED <<devices, manual_stop, submission>>

Withdraw ==
  /\ at = "Sweep"
  /\ SweepStep
  /\ UNCHANGED <<consoleVars, submission>>

WithdrawDone ==
  /\ at = "Sweep" /\ sweeping \in {"Skipped", "Swept"}
  /\ EndSweep
  /\ Read
  /\ at' = "Refresh"
  /\ UNCHANGED <<devices, manual_stop, miner, submission>>

----------------------------------------------------------------------------
(* The miner, the user and the chain *)

MinerSubmits ==
  /\ miner \in {"Running", "Stopping"}
  /\ submission' = TRUE
  /\ UNCHANGED <<consoleVars, sweepVars>>

\* It obeys the flag, or a call fails.
MinerEnds ==
  /\ miner \in {"Running", "Stopping"}
  /\ miner' = "Ended"
  /\ UNCHANGED <<at, shown, devices, manual_stop, submission, sweepVars>>

\* A submission lands, whether or not the miner has given up on it.
SubmissionLands ==
  /\ submission
  /\ submission' = FALSE
  /\ IF sol >= SubmissionCost /\ bloc < MaxBloc
     THEN sol' = sol - SubmissionCost /\ bloc' = bloc + 1
     ELSE UNCHANGED <<sol, bloc>>
  /\ UNCHANGED <<ata, transferVars, callVars, consoleVars>>

Deposit ==
  /\ \E amount \in Deposits : sol + amount <= MaxSol /\ sol' = sol + amount
  /\ UNCHANGED <<bloc, ata, transferVars, callVars, consoleVars, submission>>

TransferLands ==
  /\ LandSweep
  /\ UNCHANGED <<consoleVars, submission>>

----------------------------------------------------------------------------
ConsoleStep ==
  \/ Refresh \/ PollAndStart \/ NoKey \/ KeyRefresh \/ KeyToggle \/ KeyWithdraw \/ Quit \/ Reopen
  \/ WaitForShutdown \/ Prompt \/ PromptFails \/ Withdraw \/ WithdrawDone

Next ==
  \/ ConsoleStep
  \/ MinerSubmits \/ MinerEnds \/ SubmissionLands \/ Deposit \/ TransferLands

Spec == Init /\ [][Next]_vars

\* The loop goes on while no key is pressed, and its calls succeed now and then.
FairSpec ==
  /\ Spec
  /\ WF_vars(Refresh) /\ WF_vars(PollAndStart) /\ WF_vars(NoKey)
  /\ SF_vars(Refresh /\ shown' = [sol |-> sol, bloc |-> bloc])
  /\ WF_vars(MinerEnds /\ miner = "Stopping")

----------------------------------------------------------------------------
\* A wallet that stays funded is mined with again and again, whatever ends the
\* miner, unless the user stops it, quits, withdraws or shows it no device
\* (maybe_auto_start, poll_mining_updates).
MinesWhenFunded ==
  <>[](sol >= Required /\ devices /\ ~manual_stop /\ at \in {"Refresh", "Poll", "Key"})
    => []<>(miner = "Running")
=============================================================================
