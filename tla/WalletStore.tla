----------------------------- MODULE WalletStore -----------------------------
(***************************************************************************)
(* The wallet directory of wallet_store.rs.  Every wallet is a keypair's   *)
(* file and, mostly, a phrase's; the session wallet's have fixed names,    *)
(* which the next session wallet uses again, all others the key's.         *)
(*                                                                         *)
(* A key stands for the keypair, for its address and for the phrase that   *)
(* restores it.  A file is opened, which empties it, and then written, so  *)
(* a call is a sequence of steps on files; it may fail, or the process may *)
(* be ended, between any two of them.                                      *)
(***************************************************************************)
EXTENDS Sequences, Naturals

CONSTANTS
  FreshKeys,    \* keys that may be generated
  ForeignKeys,  \* keys made elsewhere that the user may import
  MaxFailures   \* bound on the calls that fail or are cut short

Keys == FreshKeys \cup ForeignKeys
None == "None"
Torn == "Torn"
Session == "Session"

ASSUME StoreAssumption ==
  /\ FreshKeys \cap ForeignKeys = {}
  /\ {None, Torn, Session} \cap Keys = {}
  /\ MaxFailures \in Nat

\* The names of a key's own files carry the key; several files of one key, under
\* different labels, are one here.
Slots == {Session} \cup Keys

Keypair(slot) == <<"keypair", slot>>
Phrase(slot) == <<"phrase", slot>>
SeedTxt == <<"seed_txt", Session>>   \* the phrase's file of an earlier version
Files == ({"keypair", "phrase"} \X Slots) \cup {SeedTxt}

VARIABLES
  disk,     \* what each file holds
  todo,     \* the steps on files that the call still has to take
  failures  \* calls that failed

storeVars == <<disk, todo, failures>>

\* A new machine, or one on which an earlier version has run.
StoreInit ==
  /\ \E old \in ForeignKeys \cup {None} :
       disk = [f \in Files |-> IF f \in {Keypair(Session), SeedTxt} THEN old ELSE None]
  /\ todo = <<>>
  /\ failures = 0

----------------------------------------------------------------------------
(* Plans: what a call does to the files, given what they are *)

Exists(file) == disk[file] # None
Write(file, key) == <<[file |-> file, to |-> Torn], [file |-> file, to |-> key]>>
Remove(file) == IF Exists(file) THEN <<[file |-> file, to |-> None]>> ELSE <<>>

\* persist_managed_wallet: a private key has no phrase.
WriteWallet(slot, key, with_phrase) ==
  Write(Keypair(slot), key) \o (IF with_phrase THEN Write(Phrase(slot), key) ELSE <<>>)

CreateDedicatedWallet(key) == WriteWallet(key, key, TRUE)
ImportWallet(key, with_phrase) == WriteWallet(key, key, with_phrase)

\* migrate_legacy_session_wallet_files
Migrate ==
  (IF Exists(SeedTxt) /\ ~Exists(Phrase(Session)) THEN Write(Phrase(Session), disk[SeedTxt]) ELSE <<>>)
  \o Remove(SeedTxt)

\* create_session_delegate_wallet: the wallet there is stays, readable or not.
CreateSession(key) ==
  Migrate \o (IF Exists(Keypair(Session)) THEN <<>> ELSE WriteWallet(Session, key, TRUE))

\* A mistake: the phrase of a deleted wallet stays.
DeleteKeypairOnly(w) == Remove(Keypair(w.slot))

\* delete_managed_wallet
DeleteManagedWallet(w) ==
  Remove(Keypair(w.slot)) \o (IF w.phrase_path THEN Remove(Phrase(w.slot)) ELSE <<>>)

----------------------------------------------------------------------------
(* What a call returns *)

\* A ManagedWallet; the phrase is in memory only if the call has just made it.
Managed(slot, key, phrase_path, in_memory) ==
  [slot |-> slot, key |-> key, phrase_path |-> phrase_path, phrase |-> in_memory]
NoWallet == Managed(None, None, FALSE, None)

\* list_managed_wallets: files that cannot be read are passed over.
ListManagedWallets ==
  {Managed(s, disk[Keypair(s)], Exists(Phrase(s)), None) : s \in {r \in Slots : disk[Keypair(r)] \in Keys}}

\* load_wallet_recovery_material: the phrase or, without one, the private key; Torn
\* if that cannot be read.
RecoveryMaterial(w) ==
  IF w.phrase # None THEN w.phrase
  ELSE IF w.phrase_path /\ Exists(Phrase(w.slot)) THEN disk[Phrase(w.slot)]
  ELSE IF Exists(Keypair(w.slot)) THEN disk[Keypair(w.slot)] ELSE Torn

----------------------------------------------------------------------------
(* Steps *)

FileStep ==
  /\ todo # <<>>
  /\ disk' = [disk EXCEPT ![Head(todo).file] = Head(todo).to]
  /\ todo' = Tail(todo)
  /\ UNCHANGED failures

\* The rest of a call is not done.
CutShort ==
  /\ todo # <<>> /\ failures < MaxFailures
  /\ todo' = <<>>
  /\ failures' = failures + 1
  /\ UNCHANGED disk

----------------------------------------------------------------------------
\* While at most one call has failed or been cut short, the phrase under the session
\* wallet's names is never another wallet's, whatever was created, deleted or migrated
\* there (create_session_delegate_wallet, delete_managed_wallet,
\* migrate_legacy_session_wallet_files).  After a deletion and then a creation that
\* fail between keypair and phrase it may be.
SessionPhraseRestores ==
  failures <= 1 /\ todo = <<>> /\ disk[Keypair(Session)] \in Keys
    => disk[Phrase(Session)] \in {None, Torn, disk[Keypair(Session)]}
=============================================================================
