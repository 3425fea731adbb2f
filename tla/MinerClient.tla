----------------------------- MODULE MinerClient -----------------------------
(***************************************************************************)
(* One mining process of mining_service.rs: the worker thread, the thread  *)
(* that refreshes the block, and their handle, against the chain, a relay  *)
(* that lags behind it, and transactions whose fate the sender may never   *)
(* learn.                                                                  *)
(*                                                                         *)
(* A thread's step is a transaction, or what is read together, with the    *)
(* local work after it.  A call is retried six times (retry_rpc_call);     *)
(* here it succeeds, or it fails for good.  The nonces of a search are in  *)
(* SearchRound.tla.                                                        *)
(***************************************************************************)
EXTENDS BlockChain

CONSTANTS
  Me,           \* the miner this process works for
  Skew,         \* local clock minus the validators' clock
  NodesMayLag,  \* whether an RPC node may be behind what this process has seen;
                \* a set, of which a process meets one case
  MaxNumber, MaxTime    \* bounds on the chain

ASSUME ClientAssumption ==
  /\ Me \in Miners
  /\ Skew \in Int
  /\ NodesMayLag \subseteq BOOLEAN
  /\ MaxNumber \in Nat /\ MaxTime \in Nat

VARIABLES
  nodes_lag,    \* of NodesMayLag; nothing changes it
  relay,        \* the block the relay serves
  pc,           \* where the worker is
  current_block,
  solved_block, \* the number of the block a candidate was found for
  sent,         \* the transaction the worker waits for
  lingering,    \* kinds of transactions given up on that may still land
  session_blocks_mined, wallet_blocks_mined,    \* of the snapshot
  refresh,      \* where the refresh thread is
  update,       \* the last block in the channel from the refresh thread
  stop_requested,
  started_with, \* history: the wallet's blocks when the worker started
  accepted      \* history: submissions the worker was told were accepted

clientVars == <<nodes_lag, relay, pc, current_block, solved_block, sent, lingering,
                session_blocks_mined, wallet_blocks_mined, refresh, update,
                stop_requested, started_with, accepted>>
vars == <<number, status, expires_at, now, registered, found,
          nodes_lag, relay, pc, current_block, solved_block, sent, lingering,
          session_blocks_mined, wallet_blocks_mined, refresh, update,
          stop_requested, started_with, accepted>>

Snapshots ==
  [block_number: Nat, status: {"Absent", "Open", "Closed"}, expires_at: Nat]

\* An empty channel; an absent block is never sent.
NoBlock == [block_number |-> 0, status |-> "Absent", expires_at |-> 0]

Kinds == {"Rotate", "Submit"}

\* block_number: what a submission solves; seen: the wallet's blocks right after it.
Transactions ==
  [kind: Kinds, block_number: Nat, fate: {"Pending", "Landed", "Failed"}, seen: Nat]

NoTransaction == [kind |-> "Rotate", block_number |-> 0, fate |-> "Failed", seen |-> 0]

TypeOK ==
  /\ ChainTypeOK
  /\ nodes_lag \in NodesMayLag
  /\ relay \in Snapshots
  /\ pc \in {"Starting", "Loop", "Searching", "Checking", "Waiting",
             "Rotated", "Accepted", "Stopped", "Failed"}
  /\ current_block \in Snapshots
  /\ solved_block \in Nat
  /\ sent \in Transactions
  /\ lingering \subseteq Kinds
  /\ session_blocks_mined \in Nat /\ wallet_blocks_mined \in Nat
  /\ refresh \in {"Unborn", "Running", "Ended"}
  /\ update \in Snapshots
  /\ stop_requested \in BOOLEAN
  /\ started_with \in Nat /\ accepted \in Nat

----------------------------------------------------------------------------
ChainBlock == [block_number |-> number, status |-> status, expires_at |-> expires_at]

\* What fetch_current_block may return: the relay's answer or, when the relay
\* fails, the account itself.
Readings == {b \in {relay, ChainBlock} : b.status # "Absent"}

\* What fetch_miner_stats may return to a process that knows of so many blocks.
StatsReadings(known) ==
  IF Me \notin registered THEN {} ELSE (IF nodes_lag THEN 0 ELSE known) .. found[Me]

\* should_rotate_stale_block, on the local clock.
LooksStale(b) == b.expires_at > 0 /\ now + Skew > b.expires_at

Init ==
  /\ ChainInit
  /\ nodes_lag \in NodesMayLag
  /\ relay = ChainBlock
  /\ pc = "Starting"
  /\ current_block = ChainBlock
  /\ solved_block = 0
  /\ sent = NoTransaction
  /\ lingering = {}
  /\ session_blocks_mined = 0 /\ wallet_blocks_mined = 0
  /\ refresh = "Unborn"
  /\ update = NoBlock
  /\ stop_requested = FALSE
  /\ started_with = 0 /\ accepted = 0

----------------------------------------------------------------------------
(* The worker *)

\* Without a stats account, or without an answer about it, the worker registers.
RegisterMe ==
  /\ pc = "Starting"
  /\ Register(Me)
  /\ UNCHANGED clientVars

\* WorkerState::new, and the refresh thread is spawned.
Start ==
  /\ pc = "Starting"
  /\ \E b \in Readings, mined \in StatsReadings(found[Me]) :
       /\ current_block' = b
       /\ wallet_blocks_mined' = mined
       /\ started_with' = mined
  /\ pc' = "Loop"
  /\ refresh' = "Running"
  /\ UNCHANGED <<nodes_lag, relay, solved_block, sent, lingering, session_blocks_mined, update,
                 stop_requested, accepted>>
  /\ UNCHANGED chainVars

\* A call the worker depends on fails: worker_loop returns the error, and the
\* handle reports it.  Nobody tells the refresh thread.
Fail ==
  /\ pc \in {"Starting", "Searching", "Checking", "Rotated", "Accepted"}
  /\ pc' = "Failed"
  /\ UNCHANGED <<nodes_lag, relay, current_block, solved_block, sent, lingering,
                 session_blocks_mined, wallet_blocks_mined, refresh, update,
                 stop_requested, started_with, accepted>>
  /\ UNCHANGED chainVars

Stop ==
  /\ pc = "Loop" /\ stop_requested
  /\ pc' = "Stopped"
  /\ UNCHANGED <<nodes_lag, relay, current_block, solved_block, sent, lingering,
                 session_blocks_mined, wallet_blocks_mined, refresh, update,
                 stop_requested, started_with, accepted>>
  /\ UNCHANGED chainVars

Signed(kind, n) == [kind |-> kind, block_number |-> n, fate |-> "Pending", seen |-> 0]

\* A turn of the loop.  The channel is drained, and each block in it replaces the
\* one before: the last is what the worker goes on with, if there is any.
\* The mistake: the worker relies on its own readings.
LatestOwn == current_block

Latest == IF update = NoBlock THEN current_block ELSE update

Turn ==
  /\ pc = "Loop" /\ ~stop_requested
  /\ current_block' = Latest
  /\ update' = NoBlock
  /\ IF LooksStale(Latest)
     THEN pc' = "Waiting" /\ sent' = Signed("Rotate", 0)
     ELSE pc' = "Searching" /\ UNCHANGED sent
  /\ UNCHANGED <<nodes_lag, relay, solved_block, lingering, session_blocks_mined,
                 wallet_blocks_mined, refresh, stop_requested, started_with, accepted>>
  /\ UNCHANGED chainVars

\* A round of search, with a candidate at the end or without.
Search ==
  /\ pc = "Searching"
  /\ \/ pc' = "Loop" /\ UNCHANGED solved_block
     \/ pc' = "Checking" /\ solved_block' = current_block.block_number
  /\ UNCHANGED <<nodes_lag, relay, current_block, sent, lingering, session_blocks_mined,
                 wallet_blocks_mined, refresh, update, stop_requested, started_with,
                 accepted>>
  /\ UNCHANGED chainVars

\* The block is read again: the candidate is dropped if the block has moved on,
\* the block is rotated if its time is over, and else the candidate goes out.
Check ==
  /\ pc = "Checking"
  /\ \E b \in Readings :
       /\ current_block' = b
       /\ IF b.block_number # solved_block \/ b.status # "Open"
          THEN pc' = "Loop" /\ UNCHANGED sent
          ELSE /\ pc' = "Waiting"
               /\ sent' = IF LooksStale(b) THEN Signed("Rotate", 0)
                          ELSE Signed("Submit", solved_block)
  /\ UNCHANGED <<nodes_lag, relay, solved_block, lingering, session_blocks_mined,
                 wallet_blocks_mined, refresh, update, stop_requested, started_with,
                 accepted>>
  /\ UNCHANGED chainVars

\* The sender has seen the transaction land.
Confirmed ==
  /\ pc = "Waiting" /\ sent.fate = "Landed"
  /\ pc' = IF sent.kind = "Rotate" THEN "Rotated" ELSE "Accepted"
  /\ accepted' = IF sent.kind = "Submit" THEN accepted + 1 ELSE accepted
  /\ UNCHANGED <<nodes_lag, relay, current_block, solved_block, sent, lingering,
                 session_blocks_mined, wallet_blocks_mined, refresh, update,
                 stop_requested, started_with>>
  /\ UNCHANGED chainVars

\* The sender reports an error: the transaction failed, or was never sent, or
\* is still on its way, or has landed without the sender finding out.
Refused ==
  /\ pc = "Waiting"
  /\ pc' = "Loop"
  /\ sent' = NoTransaction
  /\ \/ UNCHANGED lingering
     \/ /\ sent.fate = "Pending"
        /\ lingering' = lingering \cup {sent.kind}
  /\ UNCHANGED <<nodes_lag, relay, current_block, solved_block, session_blocks_mined,
                 wallet_blocks_mined, refresh, update, stop_requested, started_with,
                 accepted>>
  /\ UNCHANGED chainVars

\* After a rotation the worker goes on with the block it reads.
ReadAfterRotation ==
  /\ pc = "Rotated"
  /\ current_block' \in Readings
  /\ pc' = "Loop"
  /\ sent' = NoTransaction
  /\ UNCHANGED <<nodes_lag, relay, solved_block, lingering, session_blocks_mined,
                 wallet_blocks_mined, refresh, update, stop_requested, started_with,
                 accepted>>
  /\ UNCHANGED chainVars

SaturatingSub(a, b) == IF a > b THEN a - b ELSE 0

\* Mistakes in the accounting: the wallet's total stays what it was, or the stats
\* may have been read before the submission.
AccountKeepingWallet ==
  /\ pc = "Accepted"
  /\ current_block' \in Readings
  /\ \E mined \in StatsReadings(sent.seen) :
       session_blocks_mined' =
         session_blocks_mined + SaturatingSub(mined, wallet_blocks_mined)
  /\ pc' = "Loop"
  /\ sent' = NoTransaction
  /\ UNCHANGED <<nodes_lag, relay, solved_block, lingering, wallet_blocks_mined, refresh, update,
                 stop_requested, started_with, accepted>>
  /\ UNCHANGED chainVars

AccountFromEarlierStats ==
  /\ pc = "Accepted"
  /\ current_block' \in Readings
  /\ \E mined \in StatsReadings(wallet_blocks_mined) :
       /\ session_blocks_mined' =
            session_blocks_mined + SaturatingSub(mined, wallet_blocks_mined)
       /\ wallet_blocks_mined' = mined
  /\ pc' = "Loop"
  /\ sent' = NoTransaction
  /\ UNCHANGED <<nodes_lag, relay, solved_block, lingering, refresh, update, stop_requested,
                 started_with, accepted>>
  /\ UNCHANGED chainVars

\* After an accepted submission the session is credited with what the wallet has
\* gained since it was last read; total_rewards_earned is read and credited along
\* with the blocks.
Account ==
  /\ pc = "Accepted"
  /\ current_block' \in Readings
  /\ \E mined \in StatsReadings(sent.seen) :
       /\ session_blocks_mined' =
            session_blocks_mined + SaturatingSub(mined, wallet_blocks_mined)
       /\ wallet_blocks_mined' = mined
  /\ pc' = "Loop"
  /\ sent' = NoTransaction
  /\ UNCHANGED <<nodes_lag, relay, solved_block, lingering, refresh, update, stop_requested,
                 started_with, accepted>>
  /\ UNCHANGED chainVars

Worker ==
  \/ RegisterMe \/ Start \/ Fail \/ Stop \/ Turn \/ Search \/ Check
  \/ Confirmed \/ Refused \/ ReadAfterRotation \/ Account

----------------------------------------------------------------------------
(* The refresh thread and the handle *)

\* Only the last block in the channel matters, so it replaces those before.  A poll
\* that fails sends an error, which the worker only displays.
Poll ==
  /\ refresh = "Running" /\ ~stop_requested
  /\ update' \in Readings
  /\ UNCHANGED <<nodes_lag, relay, pc, current_block, solved_block, sent, lingering,
                 session_blocks_mined, wallet_blocks_mined, refresh,
                 stop_requested, started_with, accepted>>
  /\ UNCHANGED chainVars

\* The mistake: the thread ends when a worker that was asked to stop has stopped.
EndRefreshWithWorker ==
  /\ refresh = "Running" /\ pc = "Stopped"
  /\ refresh' = "Ended"
  /\ UNCHANGED <<nodes_lag, relay, pc, current_block, solved_block, sent, lingering,
                 session_blocks_mined, wallet_blocks_mined, update,
                 stop_requested, started_with, accepted>>
  /\ UNCHANGED chainVars

EndRefresh ==
  /\ refresh = "Running" /\ stop_requested
  /\ refresh' = "Ended"
  /\ UNCHANGED <<nodes_lag, relay, pc, current_block, solved_block, sent, lingering,
                 session_blocks_mined, wallet_blocks_mined, update,
                 stop_requested, started_with, accepted>>
  /\ UNCHANGED chainVars

RequestStop ==
  /\ ~stop_requested
  /\ stop_requested' = TRUE
  /\ UNCHANGED <<nodes_lag, relay, pc, current_block, solved_block, sent, lingering,
                 session_blocks_mined, wallet_blocks_mined, refresh, update,
                 started_with, accepted>>
  /\ UNCHANGED chainVars

----------------------------------------------------------------------------
(* The network *)

RelayCatchUp ==
  /\ relay # ChainBlock
  /\ relay' = ChainBlock
  /\ UNCHANGED <<nodes_lag, pc, current_block, solved_block, sent, lingering,
                 session_blocks_mined, wallet_blocks_mined, refresh, update,
                 stop_requested, started_with, accepted>>
  /\ UNCHANGED chainVars

\* A transaction of this process takes effect.  A hash found for one challenge
\* may meet the target of another, so a late submission may settle a later block.
Execute(kind) ==
  /\ number < MaxNumber
  /\ IF kind = "Rotate" THEN Rotate ELSE Settle(Me)

Fails(kind, n) ==
  IF kind = "Rotate" THEN ~(status = "Open" /\ ~InTime)
  ELSE ~(status = "Open" /\ InTime /\ number = n)

Land ==
  /\ pc = "Waiting" /\ sent.fate = "Pending"
  /\ \/ /\ Execute(sent.kind)
        /\ sent' = [sent EXCEPT !.fate = "Landed", !.seen = found'[Me]]
     \/ /\ Fails(sent.kind, sent.block_number)
        /\ sent' = [sent EXCEPT !.fate = "Failed"]
        /\ UNCHANGED chainVars
  /\ UNCHANGED <<nodes_lag, relay, pc, current_block, solved_block, lingering,
                 session_blocks_mined, wallet_blocks_mined, refresh, update,
                 stop_requested, started_with, accepted>>

\* One that was given up on lands after all, or is lost with its blockhash.
LandLate ==
  /\ \E kind \in lingering :
       /\ lingering' = lingering \ {kind}
       /\ Execute(kind) \/ UNCHANGED chainVars
  /\ UNCHANGED <<nodes_lag, relay, pc, current_block, solved_block, sent,
                 session_blocks_mined, wallet_blocks_mined, refresh, update,
                 stop_requested, started_with, accepted>>

\* Other processes, some of them mining for the same wallet, and the clock.
Others ==
  /\ \/ OpenFirst
     \/ \E m \in Miners : Register(m)
     \/ number < MaxNumber /\ (Rotate \/ \E m \in Miners : Settle(m))
     \/ now < MaxTime /\ Pass
  /\ UNCHANGED clientVars

Next ==
  \/ Worker
  \/ Poll \/ EndRefresh \/ RequestStop
  \/ RelayCatchUp \/ Land \/ LandLate \/ Others

Spec == Init /\ [][Next]_vars

\* Each thread goes on; a call that is made is answered, if only by an error;
\* the relay serves the present block in the end.
Fairness ==
  /\ WF_vars(Worker)
  /\ WF_vars(Poll) /\ WF_vars(EndRefresh)
  /\ WF_vars(RelayCatchUp)

FairSpec == Spec /\ Fairness

----------------------------------------------------------------------------
Ended == pc \in {"Stopped", "Failed"}

\* The session's count is what the wallet gained between the first and the last
\* time it was read, and never more than the chain has paid: whatever is reported
\* late, wrongly, or earned by another process, nothing is counted twice.  With nodes
\* that answer with older accounts than before it may be: credits are not taken back.
\* It is never less.
SessionIsWalletsGrowth ==
  /\ session_blocks_mined >= wallet_blocks_mined - started_with
  /\ ~nodes_lag => session_blocks_mined = wallet_blocks_mined - started_with
  /\ wallet_blocks_mined <= found[Me]

\* A submission the worker was told of is in the session's count once it has been
\* accounted, even when an earlier one landed behind its back, if the nodes do not lag.
AcceptedAreCounted ==
  ~nodes_lag /\ pc \notin {"Accepted", "Failed"} => accepted <= session_blocks_mined

\* However old the blocks it reads are, and in whatever order they come, a worker
\* ends up on the chain's block when the chain comes to rest.
FollowsTheChain ==
  \A n \in 0 .. MaxNumber :
    <>[](number = n /\ refresh = "Running")
      => <>[](Ended \/ current_block.block_number = n)

\* A stop request ends both threads, wherever the worker is.
StopEndsBothThreads ==
  stop_requested /\ refresh # "Unborn" ~> Ended /\ refresh = "Ended"
=============================================================================
