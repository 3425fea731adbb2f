---------------------------- MODULE BlocSchedule ----------------------------
(***************************************************************************)
(* The schedule of the deployed program, the constants of math/rewards.rs, *)
(* in hundredths of a BLOC (10^7 raw units), which every reward is a whole *)
(* number of.                                                              *)
(***************************************************************************)
EXTENDS Integers, Sequences

Era(start, end, reward) ==
  [start_block |-> start, end_block_exclusive |-> end, reward |-> reward]

REWARD_ERAS == <<
  Era(        0,    10000, 2100),
  Era(    10000,   100000, 1200),
  Era(   100000,   300000,  700),
  Era(   300000,   600000,  500),
  Era(   600000,  1000000,  380),
  Era(  1000000,  1500000,  300),
  Era(  1500000,  2100000,  230),
  Era(  2100000,  3000000,  180),
  Era(  3000000,  4200000,  140),
  Era(  4200000,  5800000,  110),
  Era(  5800000,  7500000,   90),
  Era(  7500000,  9500000,   70),
  Era(  9500000, 12000000,   50),
  Era( 12000000, 16000000,   30) >>

SCARCITY_START_BLOCK == 16000000
SCARCITY_BASE_REWARD == 15
SCARCITY_FULL_REWARD_BLOCKS == 6466666
SCARCITY_FINAL_PARTIAL_REWARD == 10
TOTAL_PROTOCOL_EMISSIONS == 2000000000

\* The column "Cumulative emissions" of MINING_CURVE.md, before each era.
CumulativeEmissions == <<
  0, 21000000, 129000000, 269000000, 419000000, 571000000, 721000000, 859000000,
  1021000000, 1189000000, 1365000000, 1518000000, 1658000000, 1783000000,
  1903000000 >>
=============================================================================
