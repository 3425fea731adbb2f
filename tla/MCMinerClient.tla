--------------------------- MODULE MCMinerClient ---------------------------
(***************************************************************************)
(* Small instances of a mining process for TLC: one rival, a chain of a    *)
(* few blocks, a clock that is right, fast or slow.                        *)
(***************************************************************************)
EXTENDS MinerClient

CONSTANTS me, rival

Fast == 1
Right == 0
Slow == -1
=============================================================================
