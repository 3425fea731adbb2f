----------------------------- MODULE MCEmission -----------------------------
(***************************************************************************)
(* The deployed schedule around the edges of its eras: a run of settled    *)
(* blocks starts a few blocks before each edge, with what the cumulative   *)
(* column says was emitted by then, and stops a few blocks after it.  The  *)
(* books are kept for one miner and the treasury together.                 *)
(***************************************************************************)
EXTENDS Emission, BlocSchedule

Span == 8

Edges ==
  {REWARD_ERAS[i].start_block : i \in DOMAIN REWARD_ERAS}
    \cup {SCARCITY_START_BLOCK, RewardedBlocks - 1}

Window == UNION {(edge - Span) .. (edge + Span) : edge \in Edges} \cap Nat

MCInit ==
  \E edge \in Edges :
    LET start == IF edge > Span THEN edge - Span ELSE 0
    IN  /\ mined = start /\ height = start
        /\ treasury = 0
        /\ earned = [m \in Miners |-> EmittedBefore(start)]

MCNext ==
  /\ mined + 1 \in Window
  /\ \E m \in Miners : Settle(m)

MCSpec == MCInit /\ [][MCNext]_emissionVars
=============================================================================
