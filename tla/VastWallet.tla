------------------------------ MODULE VastWallet ------------------------------
(***************************************************************************)
(* The wallet of a rented worker: the files of vast_wallet.rs, and the     *)
(* programs that make, show, fund and use it: on-start.sh runs the setup   *)
(* before the others, and the container may end all of them at any point.  *)
(*                                                                         *)
(* A key stands for the keypair, for its address and for the phrase that   *)
(* restores it.  A file is opened, which empties it, and then written.     *)
(***************************************************************************)

CONSTANTS
  FreshKeys,     \* keys that may be generated
  GivenKey,      \* the key of the seed, or private key, in the environment
  Environments   \* the environments to look at

Keys == FreshKeys \cup {GivenKey}
Programs == {"Setup", "Tool", "Console", "Worker"}
Miners == {"Console", "Worker"}

None == "None"
Torn == "Torn"

ASSUME WalletAssumption ==
  /\ Environments \subseteq {"Nothing", "Seed", "PrivateKey", "Invalid"}
  /\ {None, Torn} \cap Keys = {}

VARIABLES
  environment,      \* of the container; nothing changes it
  keypair, phrase,  \* worker-wallet.json and worker-wallet.recovery.json
  acknowledged,     \* worker-wallet.backup-confirmed
  set_up,           \* on-start.sh has once come past its first command
  generated,        \* keys generated so far
  pc,               \* where each program is
  wallet,           \* the address each program has in memory
  shown,            \* the recovery material each program has on its screen
  signer,           \* the key each miner mines with
  displayed,        \* history: addresses a program has printed
  stored,           \* history: keys the user can restore
  deposited         \* history: addresses the user has sent SOL to

files == <<keypair, phrase, acknowledged>>
memory == <<wallet, shown, signer>>
history == <<displayed, stored, deposited>>
vars == <<environment, files, set_up, generated, pc, memory, history>>

Nothing == [phrase |-> None, private_key |-> None]

Init ==
  /\ environment \in Environments
  /\ keypair = None /\ phrase = None
  /\ acknowledged = FALSE
  /\ set_up = FALSE
  /\ generated = {}
  /\ pc = [p \in Programs |-> "Off"]
  /\ wallet = [p \in Programs |-> None]
  /\ shown = [p \in Programs |-> Nothing]
  /\ signer = [p \in Programs |-> None]
  /\ displayed = {} /\ stored = {} /\ deposited = {}

\* p goes on to step s; a program that ends forgets what it had in memory.
To(p, s) == pc' = [pc EXCEPT ![p] = s]

Exit(p) ==
  /\ To(p, "Off")
  /\ wallet' = [wallet EXCEPT ![p] = None]
  /\ shown' = [shown EXCEPT ![p] = Nothing]
  /\ signer' = [signer EXCEPT ![p] = None]

\* A mistake: the other programs are started at once.
LaunchAtOnce(p) ==
  /\ pc[p] = "Off"
  /\ To(p, "Load")
  /\ UNCHANGED <<environment, files, set_up, generated, memory, history>>

\* on-start.sh begins with `blockmine-wallet ensure`, and only then starts the
\* worker or has terminals open the console.
Launch(p) ==
  /\ pc[p] = "Off"
  /\ p = "Setup" \/ set_up
  /\ To(p, "Load")
  /\ UNCHANGED <<environment, files, set_up, generated, memory, history>>

----------------------------------------------------------------------------
(* ensure_vast_worker_wallet *)

\* A mistake: what the environment says goes before what the file says.
LoadEnvironmentFirst(p) ==
  /\ pc[p] = "Load"
  /\ \/ (keypair = None \/ environment = "Seed") /\ To(p, "Make") /\ UNCHANGED memory
     \/ keypair = Torn /\ Exit(p)
     \/ /\ keypair \in Keys
        /\ wallet' = [wallet EXCEPT ![p] = keypair]
        /\ To(p, "Ensured")
        /\ UNCHANGED <<shown, signer>>
  /\ UNCHANGED <<environment, files, set_up, generated, history>>

\* load_vast_worker_wallet: a file that cannot be read is an error, for good.
LoadVastWorkerWallet(p) ==
  /\ pc[p] = "Load"
  /\ \/ keypair = None /\ To(p, "Make") /\ UNCHANGED memory
     \/ keypair = Torn /\ Exit(p)
     \/ /\ keypair \in Keys
        /\ wallet' = [wallet EXCEPT ![p] = keypair]
        /\ To(p, "Ensured")
        /\ UNCHANGED <<shown, signer>>
  /\ UNCHANGED <<environment, files, set_up, generated, history>>

\* The key of the environment, or a new one; and the keypair's file is opened.
Candidates == IF environment = "Nothing" THEN FreshKeys \ generated ELSE {GivenKey}

MakeWallet(p) ==
  /\ pc[p] = "Make"
  /\ \/ environment = "Invalid" /\ Exit(p) /\ UNCHANGED <<keypair, generated>>
     \/ /\ environment # "Invalid"
        /\ \E key \in Candidates :
             /\ wallet' = [wallet EXCEPT ![p] = key]
             /\ generated' = generated \cup {key}
        /\ keypair' = Torn
        /\ To(p, "Keypair")
        /\ UNCHANGED <<shown, signer>>
  /\ UNCHANGED <<environment, phrase, acknowledged, set_up, history>>

\* Over another program's keypair, which may be the longer one, the file may end
\* up as neither.
WriteKeypair(p) ==
  /\ pc[p] = "Keypair"
  /\ keypair' \in {wallet[p]} \cup (IF keypair \in Keys \ {wallet[p]} THEN {Torn} ELSE {})
  /\ To(p, "Phrase")
  /\ UNCHANGED <<environment, phrase, acknowledged, set_up, generated, memory, history>>

\* A private key has no phrase, and a stale one is removed.
OpenPhrase(p) ==
  /\ pc[p] = "Phrase"
  /\ \/ environment = "PrivateKey" /\ phrase' = None /\ To(p, "Ensured")
     \/ environment # "PrivateKey" /\ phrase' = Torn /\ To(p, "WritePhrase")
  /\ UNCHANGED <<environment, keypair, acknowledged, set_up, generated, memory, history>>

WritePhrase(p) ==
  /\ pc[p] = "WritePhrase"
  /\ phrase' = wallet[p]
  /\ To(p, "Ensured")
  /\ UNCHANGED <<environment, keypair, acknowledged, set_up, generated, memory, history>>

----------------------------------------------------------------------------
(* The programs *)

\* The addresses that a program prints.
Display(keys) ==
  /\ displayed' = displayed \cup keys
  /\ UNCHANGED <<stored, deposited>>

\* `blockmine-wallet ensure` prints the address, and on-start.sh goes on.
FinishSetup ==
  /\ pc["Setup"] = "Ensured"
  /\ Display({wallet["Setup"]})
  /\ Exit("Setup")
  /\ set_up' = TRUE
  /\ UNCHANGED <<environment, files, generated>>

\* The user's own `blockmine-wallet ensure`, and `blockmine-wallet address`.
Address ==
  /\ pc["Tool"] = "Ensured"
  /\ Display({wallet["Tool"]})
  /\ Exit("Tool")
  /\ UNCHANGED <<environment, files, set_up, generated>>

\* `blockmine-wallet funding-hint`, with which `reveal` ends as well, reading the
\* wallet again: "Deposit SOL to:" and the address, with the marker there or not.  A
\* call to the chain may fail.
FundingHint ==
  /\ pc["Tool"] \in {"Ensured", "Open"}
  /\ LET address == IF pc["Tool"] = "Ensured" THEN wallet["Tool"] ELSE keypair
     IN  Display({address} \cap Keys) \/ UNCHANGED history
  /\ Exit("Tool")
  /\ UNCHANGED <<environment, files, set_up, generated>>

\* The phrase and the keypair are read again, after the address.  Neither may be
\* unreadable, and the console asks the chain as well.  Once open it goes on
\* showing the address.
Reveal(p) ==
  /\ p \in {"Tool", "Console"} /\ pc[p] = "Ensured"
  /\ \/ /\ p = "Console" /\ acknowledged
        /\ Display({wallet[p]})
        /\ To(p, "Open")
        /\ UNCHANGED memory
     \/ /\ p = "Tool" \/ ~acknowledged
        /\ keypair \in Keys /\ phrase # Torn
        /\ shown' = [shown EXCEPT ![p] = [phrase |-> phrase, private_key |-> keypair]]
        /\ Display({wallet[p]})
        /\ To(p, "Shown")
        /\ UNCHANGED <<wallet, signer>>
     \/ (p = "Tool" \/ ~acknowledged) /\ Exit(p) /\ UNCHANGED history
  /\ UNCHANGED <<environment, files, set_up, generated>>

\* The user says that the material is stored: the marker is written.
Confirm(p) ==
  /\ pc[p] = "Shown"
  /\ acknowledged' = TRUE
  /\ stored' = stored \cup ({shown[p].phrase, shown[p].private_key} \cap Keys)
  /\ To(p, "Open")
  /\ UNCHANGED <<environment, keypair, phrase, set_up, generated, memory, displayed, deposited>>

\* The worker starts by printing the address.
Banner ==
  /\ pc["Worker"] = "Ensured"
  /\ Display({wallet["Worker"]})
  /\ To("Worker", "Waiting")
  /\ UNCHANGED <<environment, files, set_up, generated, memory>>

\* A mistake: the worker does not wait for the marker.
AwaitNothing ==
  /\ pc["Worker"] = "Waiting"
  /\ To("Worker", "Open")
  /\ UNCHANGED <<environment, files, set_up, generated, memory, history>>

\* wait_for_backup_confirmation
AwaitBackup ==
  /\ pc["Worker"] = "Waiting" /\ acknowledged
  /\ To("Worker", "Open")
  /\ UNCHANGED <<environment, files, set_up, generated, memory, history>>

\* The user funds an address that has been printed, whichever program printed it
\* and whatever else it said.
Deposit(key) ==
  /\ key \in displayed
  /\ deposited' = deposited \cup {key}
  /\ UNCHANGED <<environment, files, set_up, generated, pc, memory, displayed, stored>>

\* wait_for_funding, which the console does without waiting; what both print
\* meanwhile has been printed before
Funded(p) == wallet[p] \in deposited

\* The address is funded, and the signer is read from the file.
StartMining(p) ==
  /\ p \in Miners /\ pc[p] = "Open" /\ Funded(p)
  /\ \/ /\ keypair \in Keys
        /\ signer' = [signer EXCEPT ![p] = keypair]
        /\ To(p, "Mining")
        /\ UNCHANGED <<wallet, shown>>
     \/ keypair \notin Keys /\ Exit(p)
  /\ UNCHANGED <<environment, files, set_up, generated, history>>

\* The console's miner stops: it may start again.
StopMining ==
  /\ pc["Console"] = "Mining"
  /\ signer' = [signer EXCEPT !["Console"] = None]
  /\ To("Console", "Open")
  /\ UNCHANGED <<environment, files, set_up, generated, wallet, shown, history>>

\* The user refuses or quits, a call to the chain fails, or the miner ends.
Quit(p) ==
  /\ pc[p] \in {"Shown", "Waiting", "Open", "Mining"}
  /\ Exit(p)
  /\ UNCHANGED <<environment, files, set_up, generated, history>>

\* The container is ended; the files stay as they are.
Crash ==
  /\ pc' = [p \in Programs |-> "Off"]
  /\ wallet' = [p \in Programs |-> None]
  /\ shown' = [p \in Programs |-> Nothing]
  /\ signer' = [p \in Programs |-> None]
  /\ UNCHANGED <<environment, files, set_up, generated, history>>

----------------------------------------------------------------------------
Next ==
  \/ \E p \in Programs :
       \/ Launch(p) \/ LoadVastWorkerWallet(p) \/ MakeWallet(p) \/ WriteKeypair(p)
       \/ OpenPhrase(p) \/ WritePhrase(p)
       \/ Reveal(p) \/ Confirm(p) \/ StartMining(p) \/ Quit(p)
  \/ \E key \in Keys : Deposit(key)
  \/ FinishSetup \/ Address \/ FundingHint \/ Banner \/ AwaitBackup
  \/ StopMining \/ Crash

Spec == Init /\ [][Next]_vars

----------------------------------------------------------------------------
(* Properties *)

\* The address, the phrase and the private key on a screen belong together
\* (reveal_wallet_if_needed, reveal_wallet_and_confirm).
ShownTogether ==
  \A p \in Programs : pc[p] = "Shown" =>
    /\ shown[p].private_key = wallet[p]
    /\ shown[p].phrase \in {None, wallet[p]}

\* Whichever of the programs made the wallet, and wherever the container was
\* ended: only a key the user can restore mines, and SOL sent at any time to an
\* address that any program has printed is that of the keypair on the disk, so
\* with the marker there the user can restore it (ensure_vast_worker_wallet, the
\* marker, load_managed_keypair).
OnlyBackedUpKeys ==
  /\ deposited \subseteq {keypair}
  /\ acknowledged => deposited \subseteq stored
  /\ {signer[p] : p \in Miners} \ {None} \subseteq stored

\* A keypair once written is the keypair for good, through restarts and whatever
\* the environment says (ensure_vast_worker_wallet).
KeepsTheWallet == [][(keypair \in Keys) => keypair' = keypair]_keypair
=============================================================================
