------------------------- MODULE MinerClientTheorems -------------------------
(***************************************************************************)
(* What a mining session counts, for every set of miners, every time to    *)
(* live, every skew of the clock, and chains and runs of any length.       *)
(***************************************************************************)
EXTENDS MinerClient, TLAPS

(* Types *)

\* A step of the chain keeps its types, and takes no block away from a miner.
LEMMA ChainSteps ==
  ASSUME ChainTypeOK, ChainNext \/ UNCHANGED chainVars
  PROVE  /\ ChainTypeOK'
         /\ \A m \in Miners : found[m] <= found'[m]
<1> USE DEF ChainTypeOK
<1>1. Expiry \in Nat
  BY TtlAssumption DEF Expiry
<1>2. CASE OpenFirst
  BY <1>1, <1>2 DEF OpenFirst
<1>3. CASE \E m \in Miners : Register(m)
  BY <1>3 DEF Register
<1>4. ASSUME NEW m \in Miners, Settle(m)
      PROVE  ChainTypeOK' /\ \A n \in Miners : found[n] <= found'[n]
  <2>1. found' = [found EXCEPT ![m] = @ + 1]
    BY <1>4 DEF Settle
  <2>2. found' \in [Miners -> Nat] /\ \A n \in Miners : found[n] <= found'[n]
    BY <2>1
  <2>3. QED BY <1>1, <1>4, <2>2 DEF Settle
<1>5. CASE Rotate
  BY <1>1, <1>5 DEF Rotate
<1>6. CASE Pass
  BY <1>6 DEF Pass
<1>7. CASE UNCHANGED chainVars
  BY <1>7 DEF chainVars
<1>8. QED BY <1>2, <1>3, <1>4, <1>5, <1>6, <1>7 DEF ChainNext

\* Every step of the process and its surroundings is, on the chain, a step of the
\* chain or none.
LEMMA OnTheChain ==
  ASSUME [Next]_vars
  PROVE  ChainNext \/ UNCHANGED chainVars
<1>1. CASE RegisterMe
  BY <1>1, ClientAssumption DEF RegisterMe, ChainNext
<1>2. CASE Start \/ Fail \/ Stop \/ Turn \/ Search \/ Check \/ Confirmed \/ Refused
           \/ ReadAfterRotation \/ Account
  BY <1>2 DEF Start, Fail, Stop, Turn, Search, Check, Confirmed, Refused,
     ReadAfterRotation, Account
<1>3. CASE Poll \/ EndRefresh \/ RequestStop \/ RelayCatchUp
  BY <1>3 DEF Poll, EndRefresh, RequestStop, RelayCatchUp
<1>4. ASSUME NEW kind, Execute(kind)
      PROVE  ChainNext
  BY <1>4, ClientAssumption DEF Execute, ChainNext
<1>5. CASE Land
  BY <1>4, <1>5 DEF Land
<1>6. CASE LandLate
  BY <1>4, <1>6 DEF LandLate
<1>7. CASE Others
  BY <1>7 DEF Others, ChainNext
<1>8. CASE UNCHANGED vars
  BY <1>8 DEF vars, chainVars
<1>9. QED BY <1>1, <1>2, <1>3, <1>5, <1>6, <1>7, <1>8 DEF Next, Worker

\* What a node serves of the block, relay or account, is a snapshot.
LEMMA ReadingsTyped ==
  ASSUME TypeOK
  PROVE  ChainBlock \in Snapshots /\ Readings \subseteq Snapshots
BY DEF TypeOK, ChainTypeOK, ChainBlock, Snapshots, Readings

\* A reading of the wallet never runs ahead of the chain, nor, if the nodes do not
\* lag, behind what the process knows.
LEMMA StatsTyped ==
  ASSUME TypeOK, NEW known \in Nat
  PROVE  /\ \A mined \in StatsReadings(known) : mined \in Nat /\ mined <= found[Me]
         /\ ~nodes_lag => \A mined \in StatsReadings(known) : mined >= known
BY ClientAssumption DEF TypeOK, ChainTypeOK, StatsReadings

\* The process starts with values of their types, whatever the chain's parameters.
LEMMA TypeInit == Init => TypeOK
<1> SUFFICES ASSUME Init
             PROVE  TypeOK
  OBVIOUS
<1>1. number = 0 /\ status = "Absent" /\ expires_at = 0 /\ now = 1 /\ registered = {}
  BY DEF Init, ChainInit
<1>2. found \in [Miners -> Nat]
  BY DEF Init, ChainInit
<1>3. ChainTypeOK
  BY <1>1, <1>2 DEF ChainTypeOK
<1>4. ChainBlock \in Snapshots
  BY <1>1 DEF ChainBlock, Snapshots
<1>5. NoTransaction \in Transactions /\ NoBlock \in Snapshots
  BY DEF NoTransaction, NoBlock, Transactions, Kinds, Snapshots
<1>6. QED BY <1>3, <1>4, <1>5 DEF Init, TypeOK

\* Every action of the worker, the refresh thread and the network keeps the types.
LEMMA TypeStep ==
  ASSUME TypeOK, [Next]_vars
  PROVE  TypeOK'
<1> USE DEF TypeOK
<1>0. ChainTypeOK'
  BY ChainSteps, OnTheChain
<1>1. ChainBlock \in Snapshots /\ Readings \subseteq Snapshots
  BY ReadingsTyped
<1>2. NoTransaction \in Transactions /\ NoBlock \in Snapshots
  BY DEF NoTransaction, NoBlock, Transactions, Kinds, Snapshots
<1>3. \A n \in Nat : Signed("Rotate", n) \in Transactions /\ Signed("Submit", n) \in Transactions
  BY DEF Signed, Transactions, Kinds
<1>4. CASE RegisterMe
  BY <1>0, <1>4 DEF RegisterMe, clientVars
<1>5. CASE Start
  <2>1. PICK b \in Readings, mined \in StatsReadings(found[Me]) :
          current_block' = b /\ wallet_blocks_mined' = mined /\ started_with' = mined
    BY <1>5 DEF Start
  <2>2. found[Me] \in Nat
    BY ClientAssumption DEF ChainTypeOK
  <2>3. mined \in Nat
    BY <2>2, StatsTyped
  <2>4. QED BY <1>0, <1>1, <1>5, <2>1, <2>3 DEF Start
<1>6. CASE Fail
  BY <1>0, <1>6 DEF Fail
<1>7. CASE Stop
  BY <1>0, <1>7 DEF Stop
<1>8. CASE Turn
  <2>1. Latest \in Snapshots
    BY DEF Latest
  <2>2. sent' \in Transactions
    BY <1>3, <1>8 DEF Turn
  <2>3. QED BY <1>0, <1>2, <1>8, <2>1, <2>2 DEF Turn
<1>9. CASE Search
  BY <1>0, <1>9 DEF Search, Snapshots
<1>10. CASE Check
  <2>1. sent' \in Transactions
    BY <1>3, <1>10 DEF Check
  <2>2. QED BY <1>0, <1>1, <1>10, <2>1 DEF Check
<1>11. CASE Confirmed
  BY <1>0, <1>11 DEF Confirmed
<1>12. CASE Refused
  <2>1. lingering' \subseteq Kinds
    BY <1>12 DEF Refused, Transactions
  <2>2. QED BY <1>0, <1>2, <1>12, <2>1 DEF Refused
<1>13. CASE ReadAfterRotation
  BY <1>0, <1>1, <1>2, <1>13 DEF ReadAfterRotation
<1>14. CASE Account
  <2>1. PICK mined \in StatsReadings(sent.seen) :
          /\ session_blocks_mined' =
               session_blocks_mined + SaturatingSub(mined, wallet_blocks_mined)
          /\ wallet_blocks_mined' = mined
    BY <1>14 DEF Account
  <2>2. sent.seen \in Nat
    BY DEF Transactions
  <2>3. mined \in Nat
    BY <2>2, StatsTyped
  <2>4. session_blocks_mined' \in Nat
    BY <2>1, <2>3 DEF SaturatingSub
  <2>5. QED BY <1>0, <1>1, <1>2, <1>14, <2>1, <2>3, <2>4 DEF Account
<1>15. CASE Poll
  BY <1>0, <1>1, <1>15 DEF Poll
<1>16. CASE EndRefresh
  BY <1>0, <1>16 DEF EndRefresh
<1>17. CASE RequestStop
  BY <1>0, <1>17 DEF RequestStop
<1>18. CASE RelayCatchUp
  BY <1>0, <1>1, <1>18 DEF RelayCatchUp
<1>19. CASE Land
  <2>1. found'[Me] \in Nat
    BY <1>0, ClientAssumption DEF ChainTypeOK
  <2>2. sent' \in Transactions
    BY <1>19, <2>1 DEF Land, Transactions
  <2>3. QED BY <1>0, <1>19, <2>2 DEF Land
<1>20. CASE LandLate
  BY <1>0, <1>20 DEF LandLate
<1>21. CASE Others
  BY <1>0, <1>21 DEF Others, clientVars
<1>22. CASE UNCHANGED vars
  BY <1>0, <1>22 DEF vars
<1>23. QED
  BY <1>4, <1>5, <1>6, <1>7, <1>8, <1>9, <1>10, <1>11, <1>12, <1>13, <1>14, <1>15,
     <1>16, <1>17, <1>18, <1>19, <1>20, <1>21, <1>22 DEF Next, Worker

\* The state of a mining process keeps its types, however long it runs.
THEOREM TypeCorrect == Spec => []TypeOK
<1>1. Init => TypeOK
  BY TypeInit
<1>2. TypeOK /\ [Next]_vars => TypeOK'
  BY TypeStep
<1>3. QED BY <1>1, <1>2, PTL DEF Spec

----------------------------------------------------------------------------
(* The session's count.  What makes it inductive is the order of things:   *)
(* a submission that the worker was told of landed after the wallet was    *)
(* last read, so the next reading is of at least one block more.           *)

UnstartedIsZero ==
  pc = "Starting" =>
    session_blocks_mined = 0 /\ wallet_blocks_mined = 0 /\ started_with = 0 /\ accepted = 0

AcceptedHasLanded ==
  pc = "Accepted" => sent.kind = "Submit" /\ sent.fate = "Landed"

\* The wallet as last read, the wallet right after the submission, the wallet now.
LandedAfterReading ==
  pc \in {"Waiting", "Accepted"} /\ sent.kind = "Submit" /\ sent.fate = "Landed"
    => wallet_blocks_mined < sent.seen /\ sent.seen <= found[Me]

\* Told of but not accounted yet, or never to be.
Unaccounted == IF pc \in {"Accepted", "Failed"} THEN 1 ELSE 0

AcceptedUpToOne == ~nodes_lag => accepted <= session_blocks_mined + Unaccounted

SessionInv ==
  /\ TypeOK
  /\ UnstartedIsZero
  /\ AcceptedHasLanded
  /\ LandedAfterReading
  /\ SessionIsWalletsGrowth
  /\ AcceptedUpToOne

\* The invariant holds before the worker has read anything.
LEMMA SessionInit == Init => SessionInv
<1> SUFFICES ASSUME Init
             PROVE  SessionInv
  OBVIOUS
<1>1. TypeOK
  BY TypeInit
<1>2. found[Me] = 0
  BY ClientAssumption DEF Init, ChainInit
<1>3. /\ pc = "Starting" /\ session_blocks_mined = 0 /\ wallet_blocks_mined = 0
      /\ started_with = 0 /\ accepted = 0
  BY DEF Init
<1>4. QED
  BY <1>1, <1>2, <1>3 DEF SessionInv, UnstartedIsZero, AcceptedHasLanded,
     LandedAfterReading, SessionIsWalletsGrowth, AcceptedUpToOne, Unaccounted

\* A step that leaves the counters alone, and neither tells the worker of a
\* submission nor lands one, keeps the invariant: the chain's count only grows.
LEMMA CountersUntouched ==
  ASSUME SessionInv, TypeOK', found[Me] <= found'[Me],
         UNCHANGED <<nodes_lag, session_blocks_mined, wallet_blocks_mined, started_with, accepted>>,
         \/ pc' = pc /\ (sent' = sent \/ sent'.fate = "Failed")
         \/ pc' \in {"Loop", "Searching", "Checking", "Stopped", "Rotated"}
              /\ pc # "Accepted" /\ pc # "Failed"
         \/ pc' = "Failed"
         \/ pc' = "Waiting" /\ sent'.fate # "Landed" /\ pc # "Accepted" /\ pc # "Failed",
         pc = "Accepted" /\ pc' = pc => sent' = sent
  PROVE  SessionInv'
<1> USE DEF SessionInv
<1>1. found[Me] \in Nat /\ found'[Me] \in Nat
  BY ClientAssumption DEF TypeOK, ChainTypeOK
<1>2. /\ session_blocks_mined \in Nat /\ wallet_blocks_mined \in Nat
      /\ started_with \in Nat /\ accepted \in Nat
      /\ sent.seen \in Nat
  BY DEF TypeOK, Transactions
<1>3. UnstartedIsZero'
  BY DEF UnstartedIsZero
<1>4. AcceptedHasLanded'
  BY DEF AcceptedHasLanded
<1>5. LandedAfterReading'
  BY <1>1, <1>2 DEF LandedAfterReading
<1>6. SessionIsWalletsGrowth'
  BY <1>1, <1>2 DEF SessionIsWalletsGrowth
<1>7. AcceptedUpToOne'
  BY <1>2 DEF AcceptedUpToOne, Unaccounted
<1>8. QED BY <1>3, <1>4, <1>5, <1>6, <1>7

\* Every action keeps the invariant.
LEMMA SessionStep ==
  ASSUME SessionInv, [Next]_vars
  PROVE  SessionInv'
<1>0. TypeOK /\ TypeOK'
  BY TypeStep DEF SessionInv
<1>1. found[Me] <= found'[Me]
  BY <1>0, ChainSteps, OnTheChain, ClientAssumption DEF TypeOK
<1>2. found[Me] \in Nat /\ found'[Me] \in Nat
  BY <1>0, ClientAssumption DEF TypeOK, ChainTypeOK
<1>3. /\ session_blocks_mined \in Nat /\ wallet_blocks_mined \in Nat
      /\ started_with \in Nat /\ accepted \in Nat
      /\ sent.seen \in Nat
      /\ nodes_lag \in BOOLEAN
  BY <1>0, ClientAssumption DEF TypeOK, Transactions
<1>4. CASE RegisterMe
  BY <1>0, <1>1, <1>4, CountersUntouched DEF RegisterMe, clientVars
<1>5. CASE Start
  <2>1. PICK mined \in StatsReadings(found[Me]) :
          wallet_blocks_mined' = mined /\ started_with' = mined
    BY <1>5 DEF Start
  <2>2. mined \in Nat /\ mined <= found[Me]
    BY <1>0, <1>2, StatsTyped
  <2>3. /\ session_blocks_mined' = 0 /\ accepted' = 0
        /\ pc' = "Loop" /\ nodes_lag' = nodes_lag
    BY <1>5 DEF Start, SessionInv, UnstartedIsZero
  <2>4. SessionIsWalletsGrowth'
    BY <1>1, <1>2, <2>1, <2>2, <2>3 DEF SessionIsWalletsGrowth
  <2>5. QED
    BY <1>0, <2>3, <2>4 DEF SessionInv, UnstartedIsZero, AcceptedHasLanded,
       LandedAfterReading, AcceptedUpToOne, Unaccounted
<1>6. CASE Fail
  BY <1>0, <1>1, <1>6, CountersUntouched DEF Fail
<1>7. CASE Stop
  BY <1>0, <1>1, <1>7, CountersUntouched DEF Stop
<1>8. CASE Turn
  BY <1>0, <1>1, <1>8, CountersUntouched DEF Turn, Signed
<1>9. CASE Search
  BY <1>0, <1>1, <1>9, CountersUntouched DEF Search
<1>10. CASE Check
  BY <1>0, <1>1, <1>10, CountersUntouched DEF Check, Signed
<1>11. CASE Confirmed
  <2>1. /\ UNCHANGED <<nodes_lag, session_blocks_mined, wallet_blocks_mined, started_with,
                       sent, found>>
        /\ pc = "Waiting" /\ sent.fate = "Landed"
    BY <1>11 DEF Confirmed, chainVars
  <2>2. CASE sent.kind = "Rotate"
    BY <1>0, <1>1, <1>11, <2>1, <2>2, CountersUntouched DEF Confirmed
  <2>3. CASE sent.kind = "Submit"
    <3>1. pc' = "Accepted" /\ accepted' = accepted + 1
      BY <1>11, <2>3 DEF Confirmed
    <3>2. AcceptedUpToOne'
      BY <1>3, <2>1, <3>1 DEF SessionInv, AcceptedUpToOne, Unaccounted
    <3>3. LandedAfterReading' /\ AcceptedHasLanded' /\ UnstartedIsZero'
      BY <2>1, <2>3, <3>1 DEF SessionInv, LandedAfterReading, AcceptedHasLanded,
         UnstartedIsZero
    <3>4. SessionIsWalletsGrowth'
      BY <2>1 DEF SessionInv, SessionIsWalletsGrowth
    <3>5. QED BY <1>0, <3>2, <3>3, <3>4 DEF SessionInv
  <2>4. QED BY <1>0, <2>2, <2>3 DEF TypeOK, Transactions, Kinds
<1>12. CASE Refused
  BY <1>0, <1>1, <1>12, CountersUntouched DEF Refused, NoTransaction
<1>13. CASE ReadAfterRotation
  BY <1>0, <1>1, <1>13, CountersUntouched DEF ReadAfterRotation, NoTransaction
<1>14. CASE Account
  <2>1. PICK mined \in StatsReadings(sent.seen) :
          /\ session_blocks_mined' =
               session_blocks_mined + SaturatingSub(mined, wallet_blocks_mined)
          /\ wallet_blocks_mined' = mined
    BY <1>14 DEF Account
  <2>2. /\ mined \in Nat /\ mined <= found[Me]
        /\ ~nodes_lag => mined >= sent.seen
    BY <1>0, <1>3, StatsTyped
  <2>3. /\ pc = "Accepted" /\ pc' = "Loop" /\ found' = found
        /\ UNCHANGED <<nodes_lag, started_with, accepted>>
    BY <1>14 DEF Account, chainVars
  <2>4. wallet_blocks_mined < sent.seen
    BY <2>3 DEF SessionInv, AcceptedHasLanded, LandedAfterReading
  <2>5. SessionIsWalletsGrowth'
    BY <1>2, <1>3, <2>1, <2>2, <2>3, <2>4
       DEF SessionInv, SessionIsWalletsGrowth, SaturatingSub
  <2>6. AcceptedUpToOne'
    BY <1>3, <2>1, <2>2, <2>3, <2>4
       DEF SessionInv, AcceptedUpToOne, Unaccounted, SaturatingSub
  <2>7. QED
    BY <1>0, <2>3, <2>5, <2>6 DEF SessionInv, UnstartedIsZero, AcceptedHasLanded,
       LandedAfterReading
<1>15. CASE Poll \/ EndRefresh \/ RequestStop \/ RelayCatchUp
  BY <1>0, <1>1, <1>15, CountersUntouched DEF Poll, EndRefresh, RequestStop, RelayCatchUp
<1>16. CASE Land
  <2>1. /\ pc' = pc /\ pc = "Waiting"
        /\ UNCHANGED <<nodes_lag, session_blocks_mined, wallet_blocks_mined, started_with, accepted>>
    BY <1>16 DEF Land
  <2>2. CASE sent' = [sent EXCEPT !.fate = "Failed"]
    <3>1. sent'.fate = "Failed"
      BY <1>0, <2>2 DEF TypeOK, Transactions
    <3>2. QED BY <1>0, <1>1, <2>1, <3>1, CountersUntouched
  <2>3. CASE Execute(sent.kind) /\ sent' = [sent EXCEPT !.fate = "Landed", !.seen = found'[Me]]
    <3>1. sent'.kind = sent.kind /\ sent'.seen = found'[Me]
      BY <1>0, <2>3 DEF TypeOK, Transactions
    <3>2. ASSUME sent.kind = "Submit"
          PROVE  found'[Me] = found[Me] + 1
      BY <1>0, <2>3, <3>2, ClientAssumption DEF Execute, Settle, TypeOK, ChainTypeOK
    <3>3. LandedAfterReading'
      BY <1>2, <1>3, <2>1, <3>1, <3>2
         DEF SessionInv, LandedAfterReading, SessionIsWalletsGrowth
    <3>4. SessionIsWalletsGrowth'
      BY <1>1, <1>2, <1>3, <2>1 DEF SessionInv, SessionIsWalletsGrowth
    <3>5. QED
      BY <1>0, <2>1, <3>3, <3>4 DEF SessionInv, UnstartedIsZero, AcceptedHasLanded,
         AcceptedUpToOne, Unaccounted
  <2>4. QED BY <1>16, <2>2, <2>3 DEF Land
<1>17. CASE LandLate
  BY <1>0, <1>1, <1>17, CountersUntouched DEF LandLate
<1>18. CASE Others
  BY <1>0, <1>1, <1>18, CountersUntouched DEF Others, clientVars
<1>19. CASE UNCHANGED vars
  BY <1>0, <1>1, <1>19, CountersUntouched DEF vars
<1>20. QED
  BY <1>4, <1>5, <1>6, <1>7, <1>8, <1>9, <1>10, <1>11, <1>12, <1>13, <1>14, <1>15,
     <1>16, <1>17, <1>18, <1>19 DEF Next, Worker

\* The strengthened invariant holds of every run.
THEOREM SessionCorrect == Spec => []SessionInv
<1>1. QED BY SessionInit, SessionStep, PTL DEF Spec

\* A session counts what its wallet gained while it was watching, and nothing twice,
\* for any number of miners sharing wallets, blocks and lost or late transactions.
THEOREM SessionCountsTheWalletsGrowth == Spec => []SessionIsWalletsGrowth
<1>1. SessionInv => SessionIsWalletsGrowth
  BY DEF SessionInv
<1>2. QED BY <1>1, SessionCorrect, PTL

\* No submission that the worker was told of is missing from the session's count.
THEOREM SessionCountsTheAccepted == Spec => []AcceptedAreCounted
<1>1. SessionInv => AcceptedAreCounted
  BY DEF SessionInv, AcceptedUpToOne, Unaccounted, AcceptedAreCounted, TypeOK
<1>2. QED BY <1>1, SessionCorrect, PTL
=============================================================================
