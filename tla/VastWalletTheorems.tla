------------------------- MODULE VastWalletTheorems -------------------------
(***************************************************************************)
(* For any keys and environments: on-start.sh makes the wallet before      *)
(* anything else runs, so one program alone makes it, and from then on the *)
(* files can be taken for granted.                                         *)
(***************************************************************************)
EXTENDS VastWallet, TLAPS

Making == {"Make", "Keypair", "Phrase", "WritePhrase"}
Holding == {"Phrase", "WritePhrase", "Ensured", "Shown", "Waiting", "Open", "Mining"}
Steps == {"Off", "Load"} \cup Making \cup Holding
FileContents == Keys \cup {None, Torn}

Types ==
  /\ keypair \in FileContents /\ phrase \in FileContents
  /\ acknowledged \in BOOLEAN /\ set_up \in BOOLEAN
  /\ pc \in [Programs -> Steps]
  /\ wallet \in [Programs -> Keys \cup {None}]
  /\ signer \in [Programs -> Keys \cup {None}]
  /\ shown \in [Programs -> [phrase : FileContents, private_key : FileContents]]

\* Only the setup makes a wallet, only once, and alone.
SetupGoesFirst ==
  /\ ~set_up => \A p \in Programs \ {"Setup"} : pc[p] = "Off"
  /\ \A p \in Programs : pc[p] \in Making => p = "Setup" /\ ~set_up
  /\ pc["Setup"] \notin {"Shown", "Waiting", "Open", "Mining"}

FilesAgree ==
  /\ set_up => keypair \in Keys
  /\ keypair \in Keys => phrase \in {None, Torn, keypair}
  /\ keypair \notin Keys => phrase = None
  /\ acknowledged => set_up /\ keypair \in stored

\* What a program holds is what the files hold.
Knows(p) ==
  /\ pc[p] = "Make" => keypair = None
  /\ pc[p] = "Keypair" => keypair = Torn /\ wallet[p] \in Keys
  /\ pc[p] \in Holding => keypair \in Keys /\ wallet[p] = keypair
  /\ pc[p] = "Shown" => shown[p].private_key = keypair /\ shown[p].phrase \in {None, keypair}
  /\ pc[p] \in {"Open", "Mining"} => acknowledged
  /\ signer[p] # None => acknowledged /\ signer[p] = keypair

\* Only the keypair's address is ever printed, and only once it is on the disk.
PrintedIsKept == displayed \subseteq {keypair} \cap Keys /\ deposited \subseteq displayed

IInv ==
  /\ Types
  /\ SetupGoesFirst
  /\ FilesAgree
  /\ \A p \in Programs : Knows(p)
  /\ PrintedIsKept

----------------------------------------------------------------------------
\* The first state satisfies IInv.
LEMMA Beginning == Init => IInv
<1> USE WalletAssumption DEF Keys, FileContents
<1>1. SUFFICES ASSUME Init PROVE IInv
  OBVIOUS
<1>2. Types
  BY <1>1 DEF Init, Types, Steps, Nothing
<1>3. SetupGoesFirst /\ FilesAgree /\ PrintedIsKept
  BY <1>1 DEF Init, SetupGoesFirst, FilesAgree, PrintedIsKept, Making, Programs, None, Torn
<1>4. \A p \in Programs : Knows(p)
  BY <1>1 DEF Init, Knows, Making, Holding, None
<1>5. QED
  BY <1>2, <1>3, <1>4 DEF IInv

\* Every step of every program, and the container's end, preserves IInv.
LEMMA Preservation ==
  ASSUME IInv, [Next]_vars PROVE IInv'
<1> USE WalletAssumption DEF Keys, FileContents, Programs, Making, Holding, None, Torn, To, Exit, files,
        memory, history, Display
<1> USE DEF IInv
<1>1. ASSUME NEW p \in Programs, Launch(p) PROVE IInv'
  <2>1. Types'
    BY <1>1 DEF Types, SetupGoesFirst, Steps, Launch
  <2>2. SetupGoesFirst' /\ FilesAgree'
    BY <1>1 DEF Types, SetupGoesFirst, FilesAgree, Knows, Launch
  <2>3. ASSUME NEW q \in Programs PROVE Knows(q)'
    BY <1>1, <2>3 DEF Types, SetupGoesFirst, FilesAgree, Knows, Launch
  <2>4. PrintedIsKept'
    BY <1>1 DEF Types, PrintedIsKept, FilesAgree, Knows, Launch
  <2>5. QED
    BY <2>1, <2>2, <2>3, <2>4
<1>2. ASSUME NEW p \in Programs, LoadVastWorkerWallet(p) PROVE IInv'
  <2>1. Types'
    BY <1>2 DEF Types, SetupGoesFirst, Steps, LoadVastWorkerWallet, Nothing
  <2>2. SetupGoesFirst' /\ FilesAgree'
    BY <1>2 DEF Types, SetupGoesFirst, FilesAgree, Knows, LoadVastWorkerWallet
  <2>3. ASSUME NEW q \in Programs PROVE Knows(q)'
    BY <1>2, <2>3 DEF Types, SetupGoesFirst, FilesAgree, Knows, LoadVastWorkerWallet
  <2>4. PrintedIsKept'
    BY <1>2 DEF Types, PrintedIsKept, FilesAgree, Knows, LoadVastWorkerWallet
  <2>5. QED
    BY <2>1, <2>2, <2>3, <2>4
<1>3. ASSUME NEW p \in Programs, MakeWallet(p) PROVE IInv'
  <2>1. Types'
    BY <1>3 DEF Types, SetupGoesFirst, Steps, MakeWallet, Candidates, Nothing
  <2>2. SetupGoesFirst' /\ FilesAgree'
    BY <1>3 DEF Types, SetupGoesFirst, FilesAgree, Knows, MakeWallet, Candidates
  <2>3. ASSUME NEW q \in Programs PROVE Knows(q)'
    BY <1>3, <2>3 DEF Types, SetupGoesFirst, FilesAgree, Knows, MakeWallet, Candidates
  <2>4. PrintedIsKept'
    BY <1>3 DEF Types, PrintedIsKept, FilesAgree, Knows, MakeWallet
  <2>5. QED
    BY <2>1, <2>2, <2>3, <2>4
<1>4. ASSUME NEW p \in Programs, WriteKeypair(p) PROVE IInv'
  <2>1. Types'
    BY <1>4 DEF Types, SetupGoesFirst, Steps, WriteKeypair
  <2>2. SetupGoesFirst' /\ FilesAgree'
    BY <1>4 DEF Types, SetupGoesFirst, FilesAgree, Knows, WriteKeypair
  <2>3. ASSUME NEW q \in Programs PROVE Knows(q)'
    BY <1>4, <2>3 DEF Types, SetupGoesFirst, FilesAgree, Knows, WriteKeypair
  <2>4. PrintedIsKept'
    BY <1>4 DEF Types, PrintedIsKept, FilesAgree, Knows, WriteKeypair
  <2>5. QED
    BY <2>1, <2>2, <2>3, <2>4
<1>5. ASSUME NEW p \in Programs, OpenPhrase(p) PROVE IInv'
  <2>1. Types'
    BY <1>5 DEF Types, SetupGoesFirst, Steps, OpenPhrase
  <2>2. SetupGoesFirst' /\ FilesAgree'
    BY <1>5 DEF Types, SetupGoesFirst, FilesAgree, Knows, OpenPhrase
  <2>3. ASSUME NEW q \in Programs PROVE Knows(q)'
    BY <1>5, <2>3 DEF Types, SetupGoesFirst, FilesAgree, Knows, OpenPhrase
  <2>4. PrintedIsKept'
    BY <1>5 DEF Types, PrintedIsKept, FilesAgree, Knows, OpenPhrase
  <2>5. QED
    BY <2>1, <2>2, <2>3, <2>4
<1>6. ASSUME NEW p \in Programs, WritePhrase(p) PROVE IInv'
  <2>1. Types'
    BY <1>6 DEF Types, SetupGoesFirst, Steps, WritePhrase
  <2>2. SetupGoesFirst' /\ FilesAgree'
    BY <1>6 DEF Types, SetupGoesFirst, FilesAgree, Knows, WritePhrase
  <2>3. ASSUME NEW q \in Programs PROVE Knows(q)'
    BY <1>6, <2>3 DEF Types, SetupGoesFirst, FilesAgree, Knows, WritePhrase
  <2>4. PrintedIsKept'
    BY <1>6 DEF Types, PrintedIsKept, FilesAgree, Knows, WritePhrase
  <2>5. QED
    BY <2>1, <2>2, <2>3, <2>4
<1>7. ASSUME NEW p \in Programs, Reveal(p) PROVE IInv'
  <2>1. Types'
    BY <1>7 DEF Types, SetupGoesFirst, Steps, Reveal, Nothing
  <2>2. SetupGoesFirst' /\ FilesAgree'
    BY <1>7 DEF Types, SetupGoesFirst, FilesAgree, Knows, Reveal
  <2>3. ASSUME NEW q \in Programs PROVE Knows(q)'
    BY <1>7, <2>3 DEF Types, SetupGoesFirst, FilesAgree, Knows, Reveal
  <2>4. PrintedIsKept'
    BY <1>7 DEF Types, PrintedIsKept, FilesAgree, Knows, Reveal
  <2>5. QED
    BY <2>1, <2>2, <2>3, <2>4
<1>8. ASSUME NEW p \in Programs, Confirm(p) PROVE IInv'
  <2>1. Types'
    BY <1>8 DEF Types, SetupGoesFirst, Steps, Confirm
  <2>2. SetupGoesFirst' /\ FilesAgree'
    BY <1>8 DEF Types, SetupGoesFirst, FilesAgree, Knows, Confirm
  <2>3. ASSUME NEW q \in Programs PROVE Knows(q)'
    BY <1>8, <2>3 DEF Types, SetupGoesFirst, FilesAgree, Knows, Confirm
  <2>4. PrintedIsKept'
    BY <1>8 DEF Types, PrintedIsKept, FilesAgree, Knows, Confirm
  <2>5. QED
    BY <2>1, <2>2, <2>3, <2>4
<1>9. ASSUME NEW key \in Keys, Deposit(key) PROVE IInv'
  <2>1. Types'
    BY <1>9 DEF Types, SetupGoesFirst, Steps, Deposit
  <2>2. SetupGoesFirst' /\ FilesAgree'
    BY <1>9 DEF Types, SetupGoesFirst, FilesAgree, Knows, Deposit
  <2>3. ASSUME NEW q \in Programs PROVE Knows(q)'
    BY <1>9, <2>3 DEF Types, SetupGoesFirst, FilesAgree, Knows, Deposit
  <2>4. PrintedIsKept'
    BY <1>9 DEF Types, PrintedIsKept, FilesAgree, Knows, Deposit
  <2>5. QED
    BY <2>1, <2>2, <2>3, <2>4
<1>10. ASSUME NEW p \in Programs, StartMining(p) PROVE IInv'
  <2>1. Types'
    BY <1>10 DEF Types, SetupGoesFirst, Steps, StartMining, Nothing
  <2>2. SetupGoesFirst' /\ FilesAgree'
    BY <1>10 DEF Types, SetupGoesFirst, FilesAgree, Knows, StartMining
  <2>3. ASSUME NEW q \in Programs PROVE Knows(q)'
    BY <1>10, <2>3 DEF Types, SetupGoesFirst, FilesAgree, Knows, StartMining
  <2>4. PrintedIsKept'
    BY <1>10 DEF Types, PrintedIsKept, FilesAgree, Knows, StartMining
  <2>5. QED
    BY <2>1, <2>2, <2>3, <2>4
<1>11. ASSUME NEW p \in Programs, Quit(p) PROVE IInv'
  <2>1. Types'
    BY <1>11 DEF Types, SetupGoesFirst, Steps, Quit, Nothing
  <2>2. SetupGoesFirst' /\ FilesAgree'
    BY <1>11 DEF Types, SetupGoesFirst, FilesAgree, Knows, Quit
  <2>3. ASSUME NEW q \in Programs PROVE Knows(q)'
    BY <1>11, <2>3 DEF Types, SetupGoesFirst, FilesAgree, Knows, Quit
  <2>4. PrintedIsKept'
    BY <1>11 DEF Types, PrintedIsKept, FilesAgree, Knows, Quit
  <2>5. QED
    BY <2>1, <2>2, <2>3, <2>4
<1>12. CASE FinishSetup
  <2>1. Types'
    BY <1>12 DEF Types, SetupGoesFirst, Steps, FinishSetup, Nothing
  <2>2. SetupGoesFirst' /\ FilesAgree'
    BY <1>12 DEF Types, SetupGoesFirst, FilesAgree, Knows, FinishSetup
  <2>3. ASSUME NEW q \in Programs PROVE Knows(q)'
    BY <1>12, <2>3 DEF Types, SetupGoesFirst, FilesAgree, Knows, FinishSetup
  <2>4. PrintedIsKept'
    BY <1>12 DEF Types, PrintedIsKept, FilesAgree, Knows, FinishSetup
  <2>5. QED
    BY <2>1, <2>2, <2>3, <2>4
<1>13. CASE AwaitBackup
  <2>1. Types'
    BY <1>13 DEF Types, SetupGoesFirst, Steps, AwaitBackup
  <2>2. SetupGoesFirst' /\ FilesAgree'
    BY <1>13 DEF Types, SetupGoesFirst, FilesAgree, Knows, AwaitBackup
  <2>3. ASSUME NEW q \in Programs PROVE Knows(q)'
    BY <1>13, <2>3 DEF Types, SetupGoesFirst, FilesAgree, Knows, AwaitBackup
  <2>4. PrintedIsKept'
    BY <1>13 DEF Types, PrintedIsKept, FilesAgree, Knows, AwaitBackup
  <2>5. QED
    BY <2>1, <2>2, <2>3, <2>4
<1>14. CASE StopMining
  <2>1. Types'
    BY <1>14 DEF Types, SetupGoesFirst, Steps, StopMining
  <2>2. SetupGoesFirst' /\ FilesAgree'
    BY <1>14 DEF Types, SetupGoesFirst, FilesAgree, Knows, StopMining
  <2>3. ASSUME NEW q \in Programs PROVE Knows(q)'
    BY <1>14, <2>3 DEF Types, SetupGoesFirst, FilesAgree, Knows, StopMining
  <2>4. PrintedIsKept'
    BY <1>14 DEF Types, PrintedIsKept, FilesAgree, Knows, StopMining
  <2>5. QED
    BY <2>1, <2>2, <2>3, <2>4
<1>15. CASE Crash
  <2>1. Types'
    BY <1>15 DEF Types, SetupGoesFirst, Steps, Crash, Nothing
  <2>2. SetupGoesFirst' /\ FilesAgree'
    BY <1>15 DEF Types, SetupGoesFirst, FilesAgree, Knows, Crash, Nothing
  <2>3. ASSUME NEW q \in Programs PROVE Knows(q)'
    BY <1>15, <2>3 DEF Types, SetupGoesFirst, FilesAgree, Knows, Crash, Nothing
  <2>4. PrintedIsKept'
    BY <1>15 DEF Types, PrintedIsKept, FilesAgree, Knows, Crash
  <2>5. QED
    BY <2>1, <2>2, <2>3, <2>4
<1>16. CASE Address
  <2>1. Types'
    BY <1>16 DEF Types, SetupGoesFirst, Steps, Address, Nothing
  <2>2. SetupGoesFirst' /\ FilesAgree'
    BY <1>16 DEF Types, SetupGoesFirst, FilesAgree, Knows, Address
  <2>3. ASSUME NEW q \in Programs PROVE Knows(q)'
    BY <1>16, <2>3 DEF Types, SetupGoesFirst, FilesAgree, Knows, Address
  <2>4. PrintedIsKept'
    BY <1>16 DEF Types, PrintedIsKept, FilesAgree, Knows, Address
  <2>5. QED
    BY <2>1, <2>2, <2>3, <2>4
<1>17. CASE FundingHint
  <2>1. Types'
    BY <1>17 DEF Types, SetupGoesFirst, Steps, FundingHint, Nothing
  <2>2. SetupGoesFirst' /\ FilesAgree'
    BY <1>17 DEF Types, SetupGoesFirst, FilesAgree, Knows, FundingHint
  <2>3. ASSUME NEW q \in Programs PROVE Knows(q)'
    BY <1>17, <2>3 DEF Types, SetupGoesFirst, FilesAgree, Knows, FundingHint
  <2>4. PrintedIsKept'
    BY <1>17 DEF Types, PrintedIsKept, FilesAgree, Knows, FundingHint
  <2>5. QED
    BY <2>1, <2>2, <2>3, <2>4
<1>18. CASE Banner
  <2>1. Types'
    BY <1>18 DEF Types, SetupGoesFirst, Steps, Banner
  <2>2. SetupGoesFirst' /\ FilesAgree'
    BY <1>18 DEF Types, SetupGoesFirst, FilesAgree, Knows, Banner
  <2>3. ASSUME NEW q \in Programs PROVE Knows(q)'
    BY <1>18, <2>3 DEF Types, SetupGoesFirst, FilesAgree, Knows, Banner
  <2>4. PrintedIsKept'
    BY <1>18 DEF Types, PrintedIsKept, FilesAgree, Knows, Banner
  <2>5. QED
    BY <2>1, <2>2, <2>3, <2>4
<1>19. CASE UNCHANGED vars
  BY <1>19 DEF vars, Types, SetupGoesFirst, FilesAgree, PrintedIsKept, Knows
<1>20. QED
  BY <1>1, <1>2, <1>3, <1>4, <1>5, <1>6, <1>7, <1>8, <1>9, <1>10, <1>11, <1>12, <1>13, <1>14, <1>15, <1>16, <1>17,
     <1>18, <1>19 DEF Next

\* Types, FilesAgree and what each program Knows hold throughout, in the order
\* of starts that SetupGoesFirst states (on-start.sh).
THEOREM Inductive == Spec => []IInv
  BY Beginning, Preservation, PTL DEF Spec

\* What a screen shows belongs together (ShownTogether of reveal_wallet_if_needed),
\* whichever program wrote the files and wherever it was ended.
THEOREM ScreensAreConsistent == Spec => []ShownTogether
<1>1. IInv => ShownTogether
  BY DEF IInv, ShownTogether, Knows, Holding
<1>2. QED
  BY <1>1, Inductive, PTL

\* Nobody mines with a key that cannot be restored, and SOL sent to any address
\* ever printed is that of the one keypair: OnlyBackedUpKeys of
\* wait_for_backup_confirmation, ensure_vast_worker_wallet and the marker.
THEOREM OnlyBackedUpKeysAreUsed == Spec => []OnlyBackedUpKeys
<1>1. IInv => OnlyBackedUpKeys
  BY DEF IInv, OnlyBackedUpKeys, FilesAgree, PrintedIsKept, Knows, Miners, Programs
<1>2. QED
  BY <1>1, Inductive, PTL

\* KeepsTheWallet: once the keypair is written, no program writes it again
\* (ensure_vast_worker_wallet).
THEOREM WalletIsKept == Spec => KeepsTheWallet
<1>1. IInv /\ [Next]_vars => [(keypair \in Keys) => keypair' = keypair]_keypair
  <2>1. ASSUME IInv, NEW p \in Programs, MakeWallet(p) \/ WriteKeypair(p), keypair \in Keys
        PROVE  FALSE
    BY <2>1, WalletAssumption DEF IInv, Knows, MakeWallet, WriteKeypair, None, Torn
  <2>2. ASSUME [Next]_vars, \A p \in Programs : ~MakeWallet(p) /\ ~WriteKeypair(p)
        PROVE  keypair' = keypair
    BY <2>2 DEF Next, vars, files, Launch, LoadVastWorkerWallet, OpenPhrase, WritePhrase, Reveal,
         Confirm, Deposit, StartMining, Quit, FinishSetup, Address, FundingHint, Banner, AwaitBackup,
         StopMining, Crash
  <2>3. QED
    BY <2>1, <2>2
<1>2. QED
  BY <1>1, Inductive, PTL DEF Spec, KeepsTheWallet
=============================================================================
