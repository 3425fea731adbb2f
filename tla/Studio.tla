-------------------------------- MODULE Studio --------------------------------
(***************************************************************************)
(* The desktop studio: one thread draws the windows, obeys their buttons   *)
(* and hears, once a frame, from the threads it has started, each at the   *)
(* other end of a channel: the miner, a withdrawal, the balance of the     *)
(* active wallet and those of all wallets.  What the balances are, whose   *)
(* are known, and so whether a wallet may be deleted, is left open.        *)
(***************************************************************************)
EXTENDS WalletStore

VARIABLES
  open,                             \* whether the program runs
  call,                             \* the call that is at work on the files
  available, active,                \* the wallets, and the one selected
  mining, runtime,                  \* whether there is a handle, and its wallet
  receiver, summary,                \* whose balance a thread reads; whose is shown
  material,                         \* what the recovery window can show, None without one
  revealed_once, requires_ack, acknowledged,
  pending_delete,                   \* the wallet the delete window is about
  prefs,                            \* the selected wallet, in the file of preferences
  generated, revealed               \* history: keys generated, and seen by the user

wallets == <<available, active>>
miner == <<mining, runtime>>
balances == <<receiver, summary>>
recovery == <<material, revealed_once, requires_ack, acknowledged>>
history == <<generated, revealed>>
vars == <<storeVars, open, call, wallets, miner, balances, recovery, pending_delete, prefs, history>>

NoCall == [name |-> "None", key |-> None, ok |-> TRUE, part |-> "First"]

Init ==
  /\ StoreInit
  /\ open = FALSE /\ call = NoCall
  /\ available = {} /\ active = NoWallet
  /\ mining = FALSE /\ runtime = NoWallet
  /\ receiver = None /\ summary = None
  /\ material = None
  /\ revealed_once = FALSE /\ requires_ack = FALSE /\ acknowledged = FALSE
  /\ pending_delete = NoWallet
  /\ prefs = None
  /\ generated = {} /\ revealed = {}

KeysOf(ws) == {w.key : w \in ws}

\* The first of a list of wallets: the session wallet, if it is there.
Firsts(ws) ==
  IF ws = {} THEN {NoWallet}
  ELSE IF \E w \in ws : w.slot = Session THEN {w \in ws : w.slot = Session} ELSE ws

\* The wallet with that key or, without one, one of the others.
Choices(key, others) ==
  LET same == {w \in available' : w.key = key} IN IF same = {} THEN others ELSE Firsts(same)

\* save_desktop_ui_preferences
PersistUiPreferences(w) == prefs' = w.key

----------------------------------------------------------------------------
(* Calls that work on the files: the windows stand still until they return *)

Idle == open /\ call = NoCall

Call(name, key, plan) ==
  /\ call' = [name |-> name, key |-> key, ok |-> TRUE, part |-> "First"]
  /\ todo' = plan
  /\ UNCHANGED <<disk, failures>>

\* Each part of a call that looks at the session wallet tries again what could not
\* be migrated before: at the opening the session wallet is loaded, else created, and
\* then the wallets are listed, which is also the last part of a change.
RetryDue ==
  /\ open /\ todo = <<>> /\ Exists(SeedTxt)
  /\ call.part # "Listing"
  /\ call.name = "Open" \/ (call.ok /\ call.name \in {"Create", "ImportPhrase", "ImportKey", "Delete"})

Returns(name) ==
  /\ open /\ call.name = name /\ todo = <<>> /\ ~RetryDue
  /\ call' = NoCall
  /\ UNCHANGED <<storeVars, open>>

\* A mistake: a session wallet that is there is not kept.
CallSessionAnew(name) ==
  \E key \in FreshKeys \ generated :
    /\ Call(name, key, Migrate \o WriteWallet(Session, key, TRUE))
    /\ generated' = generated \cup {key}

\* create_session_delegate_wallet loads the session wallet or makes a new one.
CallSession(name) ==
  IF Exists(Keypair(Session))
  THEN Call(name, None, Migrate) /\ UNCHANGED generated
  ELSE \E key \in FreshKeys \ generated :
         Call(name, key, CreateSession(key)) /\ generated' = generated \cup {key}

SessionWallet ==
  IF call.ok /\ disk[Keypair(Session)] \in Keys
  THEN Managed(Session, disk[Keypair(Session)], Exists(Phrase(Session)), call.key)
  ELSE NoWallet

CallStep ==
  /\ FileStep
  /\ UNCHANGED <<open, call, wallets, miner, balances, recovery, pending_delete, prefs, history>>

CallFails ==
  /\ CutShort
  /\ call' = [call EXCEPT !.ok = @ /\ call.part = "Listing"]
  /\ UNCHANGED <<open, wallets, miner, balances, recovery, pending_delete, prefs, history>>

Retry ==
  /\ RetryDue
  /\ LET creates == call.name = "Open" /\ call.part = "First" IN
     /\ call' = [call EXCEPT !.ok = @ \/ creates, !.part = IF creates THEN "Creating" ELSE "Listing"]
     /\ todo' = IF creates THEN CreateSession(call.key) ELSE Migrate
  /\ UNCHANGED <<disk, failures, open, wallets, miner, balances, recovery, pending_delete, prefs, history>>

\* refresh_available_wallets: what is known stays if the listing has failed.
Listed == IF Exists(SeedTxt) THEN available ELSE ListManagedWallets

----------------------------------------------------------------------------
(* The balances *)

\* start_session_balance_refresh, unless a thread is there already.
StartBalance(w) == receiver' = IF receiver = None THEN w.key ELSE receiver

\* cached_balance_summary_for_wallet, if the wallet is on the list.
Cached(w) == {w.key, None}

\* The timers, trigger_rpc_refresh and, with the preferences, apply_rpc_change.
TriggerRefresh ==
  /\ Idle
  /\ StartBalance(active)
  /\ PersistUiPreferences(active)
  /\ UNCHANGED <<storeVars, open, call, wallets, miner, summary, recovery, pending_delete, history>>

PollBalance ==
  /\ Idle /\ receiver # None
  /\ receiver' = None
  /\ summary' \in {receiver, summary}
  /\ UNCHANGED <<storeVars, open, call, wallets, miner, recovery, pending_delete,
                 prefs, history>>

\* Of the balances of all wallets the active one's is shown, if no thread is
\* reading it.
PollList ==
  /\ Idle /\ receiver = None /\ active # NoWallet
  /\ summary' = active.key
  /\ UNCHANGED <<storeVars, open, call, wallets, miner, receiver, recovery, pending_delete, prefs, history>>

----------------------------------------------------------------------------
(* Opening and closing *)

Open ==
  /\ ~open /\ call = NoCall
  /\ CallSession("Open")
  /\ open' = TRUE
  /\ UNCHANGED <<wallets, miner, balances, recovery, pending_delete, prefs, revealed>>

\* BlockMineStudioApp::new
Opened ==
  /\ Returns("Open")
  /\ LET session == SessionWallet
         made    == session # NoWallet /\ call.key # None
     IN
     /\ available' = Listed
     /\ active' \in Choices(prefs, IF session # NoWallet THEN {session} ELSE Firsts(available'))
     /\ requires_ack' = made
  /\ StartBalance(active')
  /\ UNCHANGED <<miner, summary, material, revealed_once, acknowledged, pending_delete, prefs, history>>

\* The program is closed, or ends in the middle of a call, and the miner with it.
Quit ==
  /\ open
  /\ IF todo = <<>> THEN UNCHANGED storeVars ELSE CutShort
  /\ open' = FALSE /\ call' = NoCall
  /\ available' = {} /\ active' = NoWallet
  /\ mining' = FALSE /\ runtime' = NoWallet
  /\ receiver' = None /\ summary' = None
  /\ material' = None
  /\ revealed_once' = FALSE /\ requires_ack' = FALSE /\ acknowledged' = FALSE
  /\ pending_delete' = NoWallet
  /\ UNCHANGED <<prefs, history>>

----------------------------------------------------------------------------
(* Managing wallets *)

\* A mistake: a thread at work on the wallet before is not forgotten.
SelectKeepingReceiver(w) ==
  /\ active' = w
  /\ requires_ack' = FALSE /\ acknowledged' = FALSE
  /\ PersistUiPreferences(w)
  /\ summary' \in Cached(w)
  /\ StartBalance(w)

\* A mistake: the acknowledgement is kept.
SelectKeepingAck(w) ==
  /\ active' = w
  /\ UNCHANGED <<requires_ack, acknowledged>>
  /\ PersistUiPreferences(w)
  /\ summary' \in Cached(w)
  /\ receiver' = w.key

\* select_active_wallet
Select(w) ==
  /\ active' = w
  /\ requires_ack' = FALSE /\ acknowledged' = FALSE
  /\ PersistUiPreferences(w)
  /\ summary' \in Cached(w)
  /\ receiver' = w.key

\* "Use wallet", which is there only while nothing mines.
UseWallet(w) ==
  /\ Idle /\ ~mining
  /\ w.key # active.key
  /\ Select(w)
  /\ UNCHANGED <<storeVars, open, call, available, miner, material,
                 revealed_once, pending_delete, history>>

CreateManagedWallet ==
  /\ Idle /\ ~mining
  /\ \E key \in FreshKeys \ generated :
       /\ generated' = generated \cup {key}
       /\ Call("Create", key, CreateDedicatedWallet(key))
  /\ UNCHANGED <<open, wallets, miner, balances, recovery, pending_delete, prefs, revealed>>

\* The new wallet is selected, and the recovery window is there at once.
Created ==
  /\ Returns("Create")
  /\ \/ ~call.ok /\ UNCHANGED <<wallets, balances, recovery, prefs>>
     \/ /\ call.ok
        /\ available' = Listed
        /\ active' = Managed(call.key, call.key, TRUE, call.key)
        /\ PersistUiPreferences(active')
        /\ summary' \in Cached(active')
        /\ receiver' = call.key
        /\ material' = call.key
        /\ revealed_once' = FALSE /\ requires_ack' = TRUE /\ acknowledged' = FALSE
  /\ UNCHANGED <<miner, pending_delete, history>>

\* The phrase or the private key of a foreign wallet, or of one the user has seen and
\* has no longer.
ImportManagedWallet ==
  /\ Idle /\ ~mining
  /\ \E key \in ForeignKeys \cup (revealed \ KeysOf(available)), with_phrase \in BOOLEAN :
       Call(IF with_phrase THEN "ImportPhrase" ELSE "ImportKey", key, ImportWallet(key, with_phrase))
  /\ UNCHANGED <<open, wallets, miner, balances, recovery, pending_delete, prefs, history>>

Imported(with_phrase) ==
  /\ Returns(IF with_phrase THEN "ImportPhrase" ELSE "ImportKey")
  /\ \/ ~call.ok /\ UNCHANGED <<wallets, balances, requires_ack, acknowledged, prefs>>
     \/ /\ call.ok
        /\ available' = Listed
        /\ Select(Managed(call.key, call.key, with_phrase, IF with_phrase THEN call.key ELSE None))
  /\ UNCHANGED <<miner, material, revealed_once, pending_delete, history>>

\* Only a wallet whose balances are known, and are none.
RequestWalletDelete(w) ==
  /\ Idle /\ ~mining
  /\ pending_delete' = w
  /\ UNCHANGED <<storeVars, open, call, wallets, miner, balances, recovery,
                 prefs, history>>

CancelDelete ==
  /\ Idle /\ pending_delete # NoWallet
  /\ pending_delete' = NoWallet
  /\ UNCHANGED <<storeVars, open, call, wallets, miner, balances, recovery,
                 prefs, history>>

\* A mistake: what the request has checked is not checked again.
ConfirmDeleteUnchecked ==
  /\ Idle /\ pending_delete # NoWallet
  /\ Call("Delete", pending_delete.key, DeleteManagedWallet(pending_delete))
  /\ UNCHANGED <<open, wallets, miner, balances, recovery, pending_delete, prefs, history>>

ConfirmWalletDelete ==
  /\ Idle /\ pending_delete # NoWallet
  /\ ~mining
  /\ Call("Delete", pending_delete.key, DeleteManagedWallet(pending_delete))
  /\ UNCHANGED <<open, wallets, miner, balances, recovery, pending_delete, prefs, history>>

\* The rest of the wallets are listed, and the first of them is selected if the
\* active one is gone.
Deleted ==
  /\ Returns("Delete")
  /\ \/ ~call.ok /\ UNCHANGED <<wallets, balances, recovery, pending_delete, prefs>>
     \/ /\ call.ok
        /\ available' = Listed
        /\ active' \in IF Exists(SeedTxt) THEN {active} ELSE Choices(active.key, Firsts(available'))
        /\ PersistUiPreferences(active')
        /\ receiver' = active'.key /\ summary' = None
        /\ material' = None
        /\ revealed_once' = FALSE /\ requires_ack' = FALSE /\ acknowledged' = FALSE
        /\ pending_delete' = NoWallet
  /\ UNCHANGED <<miner, history>>

----------------------------------------------------------------------------
(* The recovery window *)

\* open_seed_phrase_for_wallet, which may find it unreadable.
OpenSeedPhrase(w, require_ack) ==
  IF RecoveryMaterial(w) = Torn
  THEN UNCHANGED recovery
  ELSE /\ material' = RecoveryMaterial(w)
       /\ revealed_once' = FALSE
       /\ requires_ack' = require_ack /\ acknowledged' = FALSE

\* The buttons "Recovery", which requires nothing, and "Reveal".
OpenRecovery(require_ack) ==
  /\ Idle /\ active # NoWallet
  /\ require_ack => requires_ack /\ ~acknowledged
  /\ OpenSeedPhrase(active, require_ack)
  /\ UNCHANGED <<storeVars, open, call, wallets, miner, balances, pending_delete, prefs, history>>

ShowMaterial ==
  /\ Idle /\ material # None
  /\ revealed_once' = TRUE
  /\ revealed' = revealed \cup {material}
  /\ UNCHANGED <<storeVars, open, call, wallets, miner, balances, material, requires_ack,
                 acknowledged, pending_delete, prefs, generated>>

\* "I saved the recovery material"
Acknowledge ==
  /\ Idle /\ material # None /\ requires_ack /\ revealed_once
  /\ acknowledged' = TRUE
  /\ material' = None
  /\ UNCHANGED <<storeVars, open, call, wallets, miner, balances, revealed_once, requires_ack,
                 pending_delete, prefs, history>>

\* While the acknowledgement is required the window stays.
CloseRecovery ==
  /\ Idle /\ material # None /\ ~requires_ack
  /\ material' = None
  /\ UNCHANGED <<storeVars, open, call, wallets, miner, balances, revealed_once, requires_ack,
                 acknowledged, pending_delete, prefs, history>>

----------------------------------------------------------------------------
(* Mining *)

\* start_native_mining: the keypair is read, and the settings may be refused.
StartNativeMining(w) ==
  /\ PersistUiPreferences(w)
  /\ \/ UNCHANGED miner
     \/ disk[Keypair(w.slot)] \in Keys /\ mining' = TRUE /\ runtime' = w

\* start_mining, once there is a wallet.
StartWith(w, unsaved) ==
  IF unsaved
  THEN OpenSeedPhrase(w, TRUE) /\ UNCHANGED <<miner, prefs>>
  ELSE StartNativeMining(w) /\ UNCHANGED recovery

StartMining ==
  /\ Idle /\ ~mining /\ active # NoWallet
  /\ StartWith(active, requires_ack /\ ~acknowledged)
  /\ UNCHANGED <<storeVars, open, call, wallets, balances, pending_delete, history>>

\* ensure_active_wallet, for a deposit or for mining.
EnsureActiveWallet(name) ==
  /\ Idle /\ active = NoWallet
  /\ CallSession(name)
  /\ UNCHANGED <<open, wallets, miner, balances, recovery, pending_delete, prefs, revealed>>

Ensured(name) ==
  /\ Returns(name)
  /\ LET w    == SessionWallet
         made == w # NoWallet /\ call.key # None
     IN
     IF w = NoWallet
     THEN UNCHANGED <<wallets, miner, recovery, prefs>>
     ELSE /\ available' = IF w.key \in KeysOf(available) THEN available ELSE available \cup {w}
          /\ active' = w
          /\ IF name = "Start"
             THEN StartWith(w, made \/ (requires_ack /\ ~acknowledged))
             ELSE /\ requires_ack' = (made \/ requires_ack)
                  /\ acknowledged' = (~made /\ acknowledged)
                  /\ UNCHANGED <<miner, material, revealed_once, prefs>>
  /\ UNCHANGED <<balances, pending_delete, history>>

\* The worker has obeyed stop_mining, or has failed, and its last update is there.
PollMining ==
  /\ Idle /\ mining
  /\ mining' = FALSE /\ runtime' = NoWallet
  /\ UNCHANGED <<storeVars, open, call, wallets, balances, recovery, pending_delete, prefs, history>>

----------------------------------------------------------------------------
(* Withdrawals *)

\* From the active wallet, which is SessionSweep's matter, or, without one, from the
\* session wallet, which may have to be made first; the window may have been there
\* since there was one.
Withdraw ==
  /\ Idle /\ active = NoWallet
  /\ CallSession("Withdraw")
  /\ UNCHANGED <<open, wallets, miner, balances, recovery, pending_delete, prefs, revealed>>

SessionReady ==
  /\ Returns("Withdraw")
  /\ UNCHANGED <<wallets, miner, balances, recovery, pending_delete, prefs, history>>

----------------------------------------------------------------------------
Next ==
  \/ Open \/ Opened \/ Quit \/ CallStep \/ CallFails \/ Retry
  \/ TriggerRefresh \/ PollBalance \/ PollList
  \/ \E w \in available : UseWallet(w) \/ RequestWalletDelete(w)
  \/ CreateManagedWallet \/ Created
  \/ ImportManagedWallet \/ \E with_phrase \in BOOLEAN : Imported(with_phrase)
  \/ CancelDelete \/ ConfirmWalletDelete \/ Deleted
  \/ \E require_ack \in BOOLEAN : OpenRecovery(require_ack)
  \/ ShowMaterial \/ Acknowledge \/ CloseRecovery
  \/ StartMining \/ \E name \in {"Deposit", "Start"} : EnsureActiveWallet(name) \/ Ensured(name)
  \/ PollMining
  \/ Withdraw \/ SessionReady

Spec == Init /\ [][Next]_vars

----------------------------------------------------------------------------
(* Properties *)

\* What mines is the active wallet, and its keypair is on disk, however selecting,
\* creating, deleting, starting and stopping are interleaved (select_active_wallet,
\* confirm_wallet_delete, poll_updates).
OneWalletAtATime ==
  mining =>
    /\ runtime # NoWallet /\ runtime = active
    /\ disk[Keypair(runtime.slot)] = runtime.key

\* The balance shown is never that of a wallet selected before, although a thread
\* may still be reading it (select_active_wallet, poll_updates).
BalanceIsOfActiveWallet == summary \in {None, active.key}

\* An acknowledgement is about what the user has really seen, and about the active
\* wallet (open_seed_phrase_for_wallet, select_active_wallet).
AcknowledgedWasShown == acknowledged => active.key \in revealed

\* "New wallet created. Save the recovery phrase before mining."
SavedBeforeMining ==
  mining /\ runtime.key \in generated => runtime.key \in revealed

\* A keypair that can be read is lost only with the wallet whose deletion the user has
\* confirmed, or while its own key is imported again: no other call touches it, however
\* often calls have failed, and the delete window is never about a wallet whose name
\* another has taken (confirm_wallet_delete, create_session_delegate_wallet,
\* persist_managed_wallet).
KeysAreKept ==
  [][\A s \in Slots : disk[Keypair(s)] \in Keys =>
       \/ disk'[Keypair(s)] = disk[Keypair(s)]
       \/ call.name = "Delete" /\ pending_delete.slot = s /\ pending_delete.key = disk[Keypair(s)]
       \/ call.name \in {"ImportPhrase", "ImportKey"} /\ call.key = disk[Keypair(s)]]_vars
=============================================================================
