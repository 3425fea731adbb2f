----------------------------- MODULE BlockChain -----------------------------
(***************************************************************************)
(* The program as its clients see it: a block with a number, a status and  *)
(* an expiry, and how many blocks each miner has found.  What a hash is,   *)
(* what a block pays and what it costs to try are left out.  Blockmine.tla *)
(* implements this specification, MinerClient.tla runs on it.              *)
(***************************************************************************)
EXTENDS Integers

CONSTANTS
  Miners,
  BlockTtlSec

ASSUME TtlAssumption == BlockTtlSec \in Int

VARIABLES
  number,       \* CurrentBlock.block_number
  status,       \* CurrentBlock.status; "Absent" before initialize_protocol
  expires_at,   \* CurrentBlock.expires_at, 0 for never
  now,          \* the clock of the validators
  registered,   \* the miners that have a MinerStats account
  found         \* miner -> MinerStats.valid_blocks_found

chainVars == <<number, status, expires_at, now, registered, found>>

ChainTypeOK ==
  /\ number \in Nat
  /\ status \in {"Absent", "Open", "Closed"}
  /\ expires_at \in Nat
  /\ now \in Nat
  /\ registered \in SUBSET Miners
  /\ found \in [Miners -> Nat]

ChainInit ==
  /\ number = 0
  /\ status = "Absent"
  /\ expires_at = 0
  /\ now = 1
  /\ registered = {}
  /\ found = [m \in Miners |-> 0]

Expiry == IF BlockTtlSec > 0 THEN now + BlockTtlSec ELSE 0

\* The first block; it pays, so it is open.
OpenFirst ==
  /\ status = "Absent"
  /\ status' = "Open"
  /\ expires_at' = Expiry
  /\ UNCHANGED <<number, now, registered, found>>

Register(m) ==
  /\ registered' = registered \cup {m}
  /\ UNCHANGED <<number, status, expires_at, now, found>>

InTime == expires_at > 0 => now <= expires_at

\* A solution of m is accepted.  The next block is open, or the rewards have
\* come to an end and it is closed for good.
Settle(m) ==
  /\ m \in registered
  /\ status = "Open"
  /\ InTime
  /\ number' = number + 1
  /\ found' = [found EXCEPT ![m] = @ + 1]
  /\ \/ status' = "Open" /\ expires_at' = Expiry
     \/ status' = "Closed" /\ expires_at' = 0
  /\ UNCHANGED <<now, registered>>

\* An expired block is replaced.
Rotate ==
  /\ status = "Open"
  /\ ~InTime
  /\ number' = number + 1
  /\ expires_at' = Expiry
  /\ UNCHANGED <<status, now, registered, found>>

Pass ==
  /\ now' = now + 1
  /\ UNCHANGED <<number, status, expires_at, registered, found>>

ChainNext ==
  \/ OpenFirst
  \/ \E m \in Miners : Register(m) \/ Settle(m)
  \/ Rotate
  \/ Pass

ChainSpec == ChainInit /\ [][ChainNext]_chainVars
=============================================================================
