----------------------------- MODULE Submitter -----------------------------
(***************************************************************************)
(* One call of submitter.rs, down the paths of rpc.rs: read the protocol's *)
(* config, see that the token accounts exist, sign, and send over the      *)
(* sender, the primary node and the fallback node, one after the other.    *)
(*                                                                         *)
(* A transaction is known by what it does and the blockhash it is signed   *)
(* with: the same two make the same signature, which the validators run    *)
(* once.  A blockhash is the slot it was made in and serves BlockhashLife  *)
(* slots.  An answer of a node is anything a lagging node may say.         *)
(***************************************************************************)
EXTENDS Naturals

CONSTANTS
  BlockhashLife,  \* slots for which a blockhash is accepted
  SenderUrls,     \* whether sender_url_for_rpc gives a URL: the cases to look at
  MaxSlot         \* bound on the slots

ASSUME SubmitterAssumption ==
  /\ BlockhashLife \in Nat /\ MaxSlot \in Nat
  /\ SenderUrls \subseteq BOOLEAN

Operations == {"InitializeProtocol", "SubmitSolution", "SubmitSolutionWithSession",
               "RegisterMiner", "RotateStaleBlock"}
TokenAccounts == {"RewardVault", "TreasuryVault", "MinerAccount"}
Paths == {"Sender", "Primary", "Fallback"}

\* does: an operation, or the token account it creates.
Transactions == [does : Operations \cup TokenAccounts, blockhash : 0 .. MaxSlot]

VARIABLES
  sender_url,     \* whether there is a sender; nothing changes it
  slot,           \* of the chain
  accounts,       \* token accounts that exist
  in_flight,      \* transactions somebody has been given, and may still include
  landed, failed, \* transactions the validators have run, by outcome
  pc,             \* where the call is
  op,             \* the operation called for
  todo,           \* token accounts to see to before it
  tx,             \* the transaction being sent
  path,           \* the path it is sent over
  told            \* what the caller was told

chainVars == <<slot, accounts, in_flight, landed, failed>>
callVars == <<pc, op, todo, tx, path, told>>
vars == <<sender_url, chainVars, callVars>>

TypeOK ==
  /\ sender_url \in SenderUrls
  /\ slot \in 0 .. MaxSlot
  /\ accounts \subseteq TokenAccounts
  /\ in_flight \subseteq Transactions
  /\ landed \subseteq Transactions /\ failed \subseteq Transactions
  /\ pc \in {"Idle", "Config", "Accounts", "Sign", "Send", "Confirm", "Returned"}
  /\ op \in Operations
  /\ todo \subseteq TokenAccounts
  /\ tx \in Transactions
  /\ path \in Paths
  /\ told \in {"Nothing", "Success", "Error"}

Run == landed \cup failed
Accepted(t) == slot <= t.blockhash + BlockhashLife

Init ==
  /\ sender_url \in SenderUrls
  /\ slot = 0
  /\ accounts \in SUBSET TokenAccounts
  /\ in_flight = {} /\ landed = {} /\ failed = {}
  /\ pc = "Idle"
  /\ op \in Operations
  /\ todo = {}
  /\ tx = [does |-> op, blockhash |-> 0]
  /\ path = "Sender"
  /\ told = "Nothing"

----------------------------------------------------------------------------
(* The operations *)

Call(o, needs, first) ==
  /\ pc = "Idle" /\ op = o
  /\ todo' = needs
  /\ pc' = first
  /\ UNCHANGED <<op, tx, path, told, sender_url>>
  /\ UNCHANGED chainVars

InitializeProtocol == Call("InitializeProtocol", {"RewardVault", "TreasuryVault"}, "Accounts")
SubmitSolution == Call("SubmitSolution", {"MinerAccount"}, "Config")
SubmitSolutionWithSession == Call("SubmitSolutionWithSession", {"MinerAccount"}, "Config")
RegisterMiner == Call("RegisterMiner", {}, "Accounts")
RotateStaleBlock == Call("RotateStaleBlock", {}, "Accounts")

\* The account to see to next: initialize_protocol begins with the reward vault.
First == IF "RewardVault" \in todo THEN "RewardVault" ELSE CHOOSE a \in todo : TRUE

Return(what) ==
  /\ pc' = "Returned"
  /\ told' = what
  /\ UNCHANGED <<op, todo, tx, path, sender_url>>

\* The relay's answer counts if it is one, even if its config cannot be
\* converted: only a relay that gives none makes the client ask the nodes.
RelayAnswers == {"State", "Malformed", "None"}

\* All of the config's fields are keys, or numbers of their width.
Convertible(answer) == answer = "State"

FetchProtocolConfig ==
  /\ pc = "Config"
  /\ \E relay \in RelayAnswers, node \in BOOLEAN :
       IF Convertible(relay) \/ (relay = "None" /\ node)
       THEN pc' = "Accounts" /\ UNCHANGED <<op, todo, tx, path, told, sender_url>>
       ELSE Return("Error")
  /\ UNCHANGED chainVars

\* What account_exists may say.  A node answers with the account, if there is one,
\* or that it is missing, even if it has only just been created, or it fails.
\* One "missing" from either node outweighs a failure of the other.
NodeAnswers(a) == {"Missing", "Fails"} \cup (IF a \in accounts THEN {"Exists"} ELSE {})

AccountExists(primary, fallback) ==
  IF "Exists" \in {primary, fallback} THEN "Yes"
  ELSE IF "Missing" \in {primary, fallback} THEN "No" ELSE "Error"

\* A mistake: an account that cannot be read is taken to be there.
EnsureUnlessMissing ==
  /\ pc = "Accounts" /\ todo # {}
  /\ \E primary, fallback \in NodeAnswers(First) :
       IF AccountExists(primary, fallback) # "No"
       THEN todo' = todo \ {First} /\ UNCHANGED <<pc, op, tx, path, told, sender_url>>
       ELSE pc' = "Sign" /\ UNCHANGED <<op, todo, tx, path, told, sender_url>>
  /\ UNCHANGED chainVars

EnsureAssociatedTokenAccount ==
  /\ pc = "Accounts" /\ todo # {}
  /\ \E primary, fallback \in NodeAnswers(First) :
       LET exists == AccountExists(primary, fallback) IN
       \/ /\ exists = "Yes"
          /\ todo' = todo \ {First}
          /\ UNCHANGED <<pc, op, tx, path, told, sender_url>>
       \/ /\ exists = "No"
          /\ pc' = "Sign"
          /\ UNCHANGED <<op, todo, tx, path, told, sender_url>>
       \/ exists = "Error" /\ Return("Error")
  /\ UNCHANGED chainVars

AccountsDone ==
  /\ pc = "Accounts" /\ todo = {}
  /\ pc' = "Sign"
  /\ UNCHANGED <<op, todo, tx, path, told, sender_url>>
  /\ UNCHANGED chainVars

----------------------------------------------------------------------------
(* send_instructions *)

\* The blockhash is as new or as old as the node that gives it.
Sign ==
  /\ pc = "Sign"
  /\ \/ /\ \E h \in 0 .. slot :
             tx' = [does |-> IF todo = {} THEN op ELSE First, blockhash |-> h]
        /\ path' = IF sender_url THEN "Sender" ELSE "Primary"
        /\ pc' = "Send"
        /\ UNCHANGED <<op, todo, told, sender_url>>
     \/ Return("Error")
  /\ UNCHANGED chainVars

\* A mistake: each path takes a blockhash of its own.
GiveUpPathSigningAgain ==
  \/ /\ path # "Fallback"
     /\ path' = IF path = "Sender" THEN "Primary" ELSE "Fallback"
     /\ pc' = "Send"
     /\ tx' = [tx EXCEPT !.blockhash = slot]
     /\ UNCHANGED <<op, todo, told, sender_url>>
  \/ /\ path = "Fallback"
     /\ Return("Error")

\* The path has failed; the next one gets the same signed transaction.  After
\* the last, it is simulated for the logs, and the error goes to the caller.
GiveUpPath ==
  \/ /\ path # "Fallback"
     /\ path' = IF path = "Sender" THEN "Primary" ELSE "Fallback"
     /\ pc' = "Send"
     /\ UNCHANGED <<op, todo, tx, told, sender_url>>
  \/ /\ path = "Fallback"
     /\ Return("Error")

\* Hand the transaction over.  It may be on its way even if the answer is an
\* error, and it may not be even if it is none.  A node that knows it has run
\* answers with an error, which is a failure like any other.
Send ==
  /\ pc = "Send"
  /\ in_flight' \in {in_flight, in_flight \cup {tx}}
  /\ \/ GiveUpPath
     \/ pc' = "Confirm" /\ UNCHANGED <<op, todo, tx, path, told, sender_url>>
  /\ UNCHANGED <<slot, accounts, landed, failed>>

\* The transaction is there: the token account is dealt with, or all is done.
Confirmed ==
  IF todo = {}
  THEN Return("Success")
  ELSE /\ todo' = todo \ {First}
       /\ pc' = "Accounts"
       /\ UNCHANGED <<op, tx, path, told, sender_url>>

\* A poll that finds the transaction.  None, and a node that fails, is no step
\* on the sender's path, where the primary stands for the fallback too.
SeesIt ==
  /\ pc = "Confirm"
  /\ \/ tx \in landed /\ Confirmed
     \/ tx \in failed /\ GiveUpPath
  /\ UNCHANGED chainVars

\* confirm_signature gives up by the clock, whether the transaction has landed,
\* may land, or cannot.
TimesOut ==
  /\ pc = "Confirm" /\ path = "Sender"
  /\ GiveUpPath
  /\ UNCHANGED chainVars

\* RpcClient::send_and_confirm_transaction gives up when a call of its own fails,
\* and when it finds neither the transaction nor a use for its blockhash.
NodeGivesUp ==
  /\ pc = "Confirm" /\ path # "Sender"
  /\ GiveUpPath
  /\ UNCHANGED chainVars

----------------------------------------------------------------------------
(* The chain *)

Effect(t) == IF t.does \in TokenAccounts THEN accounts \cup {t.does} ELSE accounts

\* A transaction in flight is run, if its blockhash serves and it never was.
Land ==
  /\ \E t \in in_flight \ Run :
       /\ Accepted(t)
       /\ \/ landed' = landed \cup {t} /\ accounts' = Effect(t) /\ UNCHANGED failed
          \/ failed' = failed \cup {t} /\ UNCHANGED <<landed, accounts>>
  /\ UNCHANGED <<slot, in_flight, sender_url>>
  /\ UNCHANGED callVars

\* Anybody may create a token account for anybody.
OthersCreate ==
  /\ \E a \in TokenAccounts \ accounts : accounts' = accounts \cup {a}
  /\ UNCHANGED <<slot, in_flight, landed, failed, sender_url>>
  /\ UNCHANGED callVars

Tick ==
  /\ slot < MaxSlot
  /\ slot' = slot + 1
  /\ UNCHANGED <<accounts, in_flight, landed, failed, sender_url>>
  /\ UNCHANGED callVars

----------------------------------------------------------------------------
CallStep ==
  \/ InitializeProtocol \/ SubmitSolution \/ SubmitSolutionWithSession
  \/ RegisterMiner \/ RotateStaleBlock
  \/ FetchProtocolConfig \/ EnsureAssociatedTokenAccount \/ AccountsDone
  \/ Sign \/ Send \/ SeesIt \/ TimesOut \/ NodeGivesUp

Next == CallStep \/ Land \/ OthersCreate \/ Tick

Spec == Init /\ [][Next]_vars

----------------------------------------------------------------------------
(* Properties *)

Promise == INSTANCE Delivery WITH effects <- {t \in landed : t.does = op}

\* Whatever is lost, late, repeated or misreported on three paths, the
\* instruction takes effect at most once, and the caller hears "Success" only of
\* one that has (send_and_confirm_transaction, send_instructions).
ImplementsDelivery == Promise!Spec

Needs ==
  IF op = "InitializeProtocol" THEN {"RewardVault", "TreasuryVault"}
  ELSE IF op \in {"SubmitSolution", "SubmitSolutionWithSession"} THEN {"MinerAccount"}
  ELSE {}

\* The operation's transaction is on its way only when every token account it
\* names exists, although nodes that lag or fail are all there is to ask
\* (ensure_associated_token_account).
InstructionHasItsAccounts ==
  (\E t \in in_flight : t.does = op) => Needs \subseteq accounts
=============================================================================
