------------------------- MODULE SubmitterTheorems -------------------------
(***************************************************************************)
(* Proofs about Submitter.tla, for any life of a blockhash and any bound   *)
(* on the slots, with a sender or without.                                 *)
(***************************************************************************)
EXTENDS Submitter, TLAPS

LEMMA OperationsAreNotAccounts == Operations \cap TokenAccounts = {}
BY DEF Operations, TokenAccounts

LEMMA FirstIsOfThem == todo # {} => First \in todo
BY DEF First

\* What the variables hold (TypeOK of Submitter).
THEOREM TypeCorrect == Spec => []TypeOK
<1>1. Init => TypeOK
  BY SubmitterAssumption DEF Init, TypeOK, Transactions, Operations, TokenAccounts, Paths
<1>2. TypeOK /\ [Next]_vars => TypeOK'
  <2> SUFFICES ASSUME TypeOK, [Next]_vars PROVE TypeOK'
    OBVIOUS
  <2> USE DEF TypeOK
  <2>1. CASE UNCHANGED vars
    BY <2>1 DEF vars, chainVars, callVars
  <2>2. CASE \/ InitializeProtocol \/ SubmitSolution \/ SubmitSolutionWithSession
             \/ RegisterMiner \/ RotateStaleBlock
    BY <2>2 DEF InitializeProtocol, SubmitSolution, SubmitSolutionWithSession, RegisterMiner,
                RotateStaleBlock, Call, chainVars, TokenAccounts
  <2>3. CASE FetchProtocolConfig
    BY <2>3 DEF FetchProtocolConfig, Return, chainVars
  <2>4. CASE EnsureAssociatedTokenAccount
    BY <2>4 DEF EnsureAssociatedTokenAccount, Return, chainVars
  <2>5. CASE AccountsDone
    BY <2>5 DEF AccountsDone, chainVars
  <2>6. CASE Sign
    <3>1. CASE Return("Error")
      BY <2>6, <3>1 DEF Sign, Return, chainVars
    <3>2. CASE ~Return("Error")
      <4>1. tx' \in Transactions
        BY <2>6, <3>2, FirstIsOfThem, SubmitterAssumption DEF Sign, Transactions
      <4> QED
        BY <2>6, <3>2, <4>1 DEF Sign, chainVars, Paths
    <3> QED
      BY <3>1, <3>2
  <2>7. CASE Send
    BY <2>7 DEF Send, GiveUpPath, Return, Paths
  <2>8. CASE SeesIt \/ TimesOut \/ NodeGivesUp
    BY <2>8 DEF SeesIt, TimesOut, NodeGivesUp, Confirmed, GiveUpPath, Return, Paths, chainVars
  <2>9. CASE Land
    <3>1. PICK t \in in_flight \ Run :
            \/ landed' = landed \cup {t} /\ accounts' = Effect(t) /\ UNCHANGED failed
            \/ failed' = failed \cup {t} /\ UNCHANGED <<landed, accounts>>
      BY <2>9 DEF Land
    <3> QED
      BY <2>9, <3>1 DEF Land, Effect, callVars
  <2>10. CASE OthersCreate
    BY <2>10 DEF OthersCreate, callVars
  <2>11. CASE Tick
    BY <2>11, SubmitterAssumption DEF Tick, callVars
  <2> QED
    BY <2>1, <2>2, <2>3, <2>4, <2>5, <2>6, <2>7, <2>8, <2>9, <2>10, <2>11 DEF Next, CallStep
<1> QED
  BY <1>1, <1>2, PTL DEF Spec

----------------------------------------------------------------------------
(* The inductive invariant.  That a success has had its effect needs what is   *)
(* being sent (SentIsDue); that there is one effect needs that only tx was     *)
(* ever given away (SignedOnce); the accounts need both, and AccountsAdded.    *)

RunWereGiven == landed \cup failed \subseteq in_flight
AccountsAdded == \A t \in landed : t.does \in TokenAccounts => t.does \in accounts
SentIsDue == pc \in {"Send", "Confirm"} => tx.does = IF todo = {} THEN op ELSE First
SignedOnce ==
  \A t \in in_flight :
    t.does = op => t = tx /\ todo = {} /\ pc \in {"Send", "Confirm", "Returned"}
SeenTo == pc # "Idle" => Needs \subseteq accounts \cup todo
SuccessHasEffect == told = "Success" => \E t \in landed : t.does = op
ToldOnReturn == told # "Nothing" <=> pc = "Returned"

CallInv ==
  /\ RunWereGiven /\ AccountsAdded /\ SentIsDue /\ SignedOnce
  /\ SeenTo /\ SuccessHasEffect /\ ToldOnReturn

LEMMA CallStepKeepsInv == TypeOK /\ CallInv /\ CallStep => CallInv'
<1> SUFFICES ASSUME TypeOK, CallInv, CallStep PROVE CallInv'
  OBVIOUS
<1> USE DEF CallInv, Needs
<1>1. CASE \/ InitializeProtocol \/ SubmitSolution \/ SubmitSolutionWithSession
           \/ RegisterMiner \/ RotateStaleBlock
  BY <1>1 DEF InitializeProtocol, SubmitSolution, SubmitSolutionWithSession, RegisterMiner,
              RotateStaleBlock, Call, chainVars, RunWereGiven, AccountsAdded, SentIsDue,
              SignedOnce, SeenTo, SuccessHasEffect, ToldOnReturn, TypeOK, First
<1>2. CASE FetchProtocolConfig \/ AccountsDone
  BY <1>2 DEF FetchProtocolConfig, AccountsDone, Return, chainVars, RunWereGiven,
              AccountsAdded, SentIsDue, SignedOnce, SeenTo, SuccessHasEffect, ToldOnReturn,
              First
<1>3. CASE EnsureAssociatedTokenAccount
  <2>1. PICK primary \in NodeAnswers(First), fallback \in NodeAnswers(First) :
          LET exists == AccountExists(primary, fallback) IN
          \/ /\ exists = "Yes"
             /\ todo' = todo \ {First}
             /\ UNCHANGED <<pc, op, tx, path, told, sender_url>>
          \/ /\ exists = "No"
             /\ pc' = "Sign"
             /\ UNCHANGED <<op, todo, tx, path, told, sender_url>>
          \/ exists = "Error" /\ Return("Error")
    BY <1>3 DEF EnsureAssociatedTokenAccount
  <2>2. AccountExists(primary, fallback) = "Yes" => First \in accounts
    BY <2>1 DEF AccountExists, NodeAnswers
  <2>3. pc = "Accounts" /\ todo # {} /\ UNCHANGED chainVars
    BY <1>3 DEF EnsureAssociatedTokenAccount
  <2>4. SeenTo'
    BY <2>1, <2>2, <2>3 DEF SeenTo, chainVars, Return
  <2>5. (SignedOnce /\ SentIsDue /\ ToldOnReturn /\ SuccessHasEffect)'
    BY <2>1, <2>3 DEF SignedOnce, SentIsDue, ToldOnReturn, SuccessHasEffect, chainVars, Return
  <2> QED
    BY <2>3, <2>4, <2>5 DEF RunWereGiven, AccountsAdded, chainVars
<1>4. CASE Sign
  <2>1. SentIsDue'
    <3>1. CASE Return("Error")
      BY <3>1 DEF Return, SentIsDue
    <3>2. CASE ~Return("Error")
      <4>1. PICK h \in 0 .. slot :
              tx' = [does |-> IF todo = {} THEN op ELSE First, blockhash |-> h]
        BY <1>4, <3>2 DEF Sign
      <4>2. tx'.does = IF todo = {} THEN op ELSE First
        BY <4>1
      <4>3. UNCHANGED <<op, todo>>
        BY <1>4, <3>2 DEF Sign
      <4> QED
        BY <4>2, <4>3 DEF SentIsDue, First
    <3> QED
      BY <3>1, <3>2
  <2>2. SignedOnce'
    BY <1>4 DEF Sign, SignedOnce, Return, chainVars
  <2> QED
    BY <1>4, <2>1, <2>2 DEF Sign, Return, chainVars, RunWereGiven, AccountsAdded, SeenTo,
                            SuccessHasEffect, ToldOnReturn
<1>5. CASE Send
  <2>1. \A t \in in_flight' : t \in in_flight \/ t = tx
    BY <1>5 DEF Send
  <2>2. tx.does = op => todo = {}
    BY <1>5, FirstIsOfThem, OperationsAreNotAccounts DEF Send, SentIsDue, TypeOK
  <2>3. SignedOnce'
    BY <1>5, <2>1, <2>2 DEF Send, GiveUpPath, Return, SignedOnce
  <2> QED
    BY <1>5, <2>3 DEF Send, GiveUpPath, Return, RunWereGiven, AccountsAdded, SeenTo, SentIsDue,
                      SuccessHasEffect, ToldOnReturn, First
<1>6. CASE SeesIt /\ tx \in landed /\ Confirmed
  <2>1. UNCHANGED chainVars /\ pc = "Confirm"
    BY <1>6 DEF SeesIt
  <2>2. CASE todo = {}
    BY <1>6, <2>1, <2>2 DEF Confirmed, Return, chainVars, RunWereGiven, AccountsAdded, SeenTo,
                            SentIsDue, SignedOnce, SuccessHasEffect, ToldOnReturn
  <2>3. CASE todo # {}
    <3>1. First \in accounts
      BY <1>6, <2>1, <2>3, FirstIsOfThem DEF SentIsDue, AccountsAdded, TypeOK
    <3>2. todo' = todo \ {First} /\ pc' = "Accounts" /\ UNCHANGED <<op, tx, told>>
      BY <1>6, <2>3 DEF Confirmed
    <3>3. SeenTo'
      BY <2>1, <3>1, <3>2 DEF SeenTo, chainVars
    <3> QED
      BY <2>1, <2>3, <3>2, <3>3 DEF chainVars, RunWereGiven, AccountsAdded, SentIsDue,
                                    SignedOnce, SuccessHasEffect, ToldOnReturn
  <2> QED
    BY <2>2, <2>3
<1>7. CASE (SeesIt \/ TimesOut \/ NodeGivesUp) /\ GiveUpPath
  BY <1>7 DEF SeesIt, TimesOut, NodeGivesUp, GiveUpPath, Return, chainVars, RunWereGiven,
              AccountsAdded, SeenTo, SentIsDue, SignedOnce, SuccessHasEffect, ToldOnReturn,
              First
<1> QED
  BY <1>1, <1>2, <1>3, <1>4, <1>5, <1>6, <1>7 DEF CallStep, SeesIt, TimesOut, NodeGivesUp

LEMMA ChainStepKeepsInv == TypeOK /\ CallInv /\ (Land \/ OthersCreate \/ Tick) => CallInv'
<1> SUFFICES ASSUME TypeOK, CallInv, Land \/ OthersCreate \/ Tick PROVE CallInv'
  OBVIOUS
<1>1. UNCHANGED callVars /\ UNCHANGED in_flight
  BY DEF Land, OthersCreate, Tick
<1>2. accounts \subseteq accounts' /\ landed \subseteq landed'
  BY DEF Land, OthersCreate, Tick, Effect
<1>3. RunWereGiven'
  BY DEF CallInv, RunWereGiven, Land, OthersCreate, Tick, Run
<1>4. AccountsAdded'
  BY DEF CallInv, AccountsAdded, Land, OthersCreate, Tick, Effect
<1> QED
  BY <1>1, <1>2, <1>3, <1>4
     DEF CallInv, callVars, SentIsDue, SignedOnce, SeenTo, SuccessHasEffect, ToldOnReturn,
         Needs, First

LEMMA InvAlways == Spec => [](TypeOK /\ CallInv)
<1>1. Init => CallInv
  BY DEF Init, CallInv, RunWereGiven, AccountsAdded, SentIsDue, SignedOnce, SeenTo,
         SuccessHasEffect, ToldOnReturn
<1>2. TypeOK /\ CallInv /\ UNCHANGED vars => CallInv'
  BY DEF vars, chainVars, callVars, CallInv, RunWereGiven, AccountsAdded, SentIsDue, SignedOnce,
         SeenTo, SuccessHasEffect, ToldOnReturn, Needs, First
<1>3. TypeOK /\ CallInv /\ [Next]_vars => CallInv'
  BY <1>2, CallStepKeepsInv, ChainStepKeepsInv DEF Next
<1> QED
  BY <1>1, <1>3, TypeCorrect, PTL DEF Spec

\* No transaction goes out before the token accounts it names are there
\* (ensure_associated_token_account before every send_instruction).
THEOREM AccountsComeFirst == Spec => []InstructionHasItsAccounts
<1>1. TypeOK /\ CallInv => InstructionHasItsAccounts
  BY DEF CallInv, SignedOnce, SeenTo, InstructionHasItsAccounts
<1> QED
  BY <1>1, InvAlways, PTL

----------------------------------------------------------------------------
LEMMA EffectIsTx == TypeOK /\ CallInv => {t \in landed : t.does = op} \subseteq {tx}
BY DEF CallInv, SignedOnce, RunWereGiven

LEMMA StepRefines ==
  ASSUME TypeOK, CallInv, CallInv', [Next]_vars
  PROVE  [Promise!Next]_<<{t \in landed : t.does = op}, told>>
<1> DEFINE effects == {t \in landed : t.does = op}
<1>1. CASE UNCHANGED vars
  BY <1>1 DEF vars, chainVars, callVars
<1>2. CASE CallStep
  <2>1. UNCHANGED landed /\ UNCHANGED op
    BY <1>2 DEF CallStep, InitializeProtocol, SubmitSolution, SubmitSolutionWithSession,
                RegisterMiner, RotateStaleBlock, Call, FetchProtocolConfig,
                EnsureAssociatedTokenAccount, AccountsDone, Sign, Send, SeesIt, TimesOut,
                NodeGivesUp, Confirmed, GiveUpPath, Return, chainVars
  <2>2. pc # "Returned"
    BY <1>2 DEF CallStep, InitializeProtocol, SubmitSolution, SubmitSolutionWithSession,
                RegisterMiner, RotateStaleBlock, Call, FetchProtocolConfig,
                EnsureAssociatedTokenAccount, AccountsDone, Sign, Send, SeesIt, TimesOut,
                NodeGivesUp
  <2>3. told = "Nothing"
    BY <2>2 DEF CallInv, ToldOnReturn
  <2>4. told' \in {told, "Success", "Error"}
    BY <1>2 DEF CallStep, InitializeProtocol, SubmitSolution, SubmitSolutionWithSession,
                RegisterMiner, RotateStaleBlock, Call, FetchProtocolConfig,
                EnsureAssociatedTokenAccount, AccountsDone, Sign, Send, SeesIt, TimesOut,
                NodeGivesUp, Confirmed, GiveUpPath, Return
  <2>5. told' = "Success" => effects # {}
    BY <2>1 DEF CallInv, SuccessHasEffect
  <2> QED
    BY <2>1, <2>3, <2>4, <2>5 DEF Promise!Next, Promise!TellSuccess, Promise!TellError
<1>3. CASE Land
  <2>1. UNCHANGED <<op, told, tx>>
    BY <1>3 DEF Land, callVars
  <2>2. effects' = effects \/ (effects = {} /\ effects' = {tx})
    <3>1. PICK t \in in_flight \ Run :
            \/ landed' = landed \cup {t} /\ accounts' = Effect(t) /\ UNCHANGED failed
            \/ failed' = failed \cup {t} /\ UNCHANGED <<landed, accounts>>
      BY <1>3 DEF Land
    <3>2. CASE t.does # op \/ UNCHANGED landed
      BY <2>1, <3>1, <3>2
    <3>3. CASE t.does = op /\ landed' = landed \cup {t}
      <4>1. t = tx
        BY <3>1, <3>3 DEF CallInv, SignedOnce
      <4>2. effects = {}
        BY <3>1, <4>1, EffectIsTx DEF Run
      <4> QED
        BY <2>1, <3>3, <4>1, <4>2
    <3> QED
      BY <3>1, <3>2, <3>3
  <2>3. tx \in Transactions
    BY DEF TypeOK
  <2> QED
    BY <2>1, <2>2, <2>3 DEF Promise!Next, Promise!TakeEffect
<1>4. CASE OthersCreate \/ Tick
  BY <1>4 DEF OthersCreate, Tick, callVars
<1> QED
  BY <1>1, <1>2, <1>3, <1>4 DEF Next

\* The refinement: whatever happens on the three paths, the instruction takes
\* effect at most once and "Success" is said only after it
\* (send_and_confirm_transaction, send_instructions).
THEOREM SubmitterImplementsDelivery == Spec => ImplementsDelivery
<1>1. Init => Promise!Init
  BY DEF Init, Promise!Init
<1>2. TypeOK /\ CallInv /\ (TypeOK /\ CallInv)' /\ [Next]_vars
        => [Promise!Next]_<<{t \in landed : t.does = op}, told>>
  BY StepRefines
<1> QED
  BY <1>1, <1>2, InvAlways, PTL DEF Spec, ImplementsDelivery, Promise!Spec, Promise!deliveryVars
=============================================================================
