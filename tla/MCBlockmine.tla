---------------------------- MODULE MCBlockmine ----------------------------
(***************************************************************************)
(* Small instances of the program for TLC: a schedule of two eras and a    *)
(* tail, five-bit hashes, two or three wallets, a short clock.             *)
(***************************************************************************)
EXTENDS BlockmineAudit

CONSTANTS ann, bob, dev, nick

MCWidth == 5
MCPow2 == [b \in 0 .. MCWidth |-> 2^b]
MCHashes == {0, 5}

\* Two of the four rewards are too small for a treasury share.
MCRewardEras == <<
  [start_block |-> 0, end_block_exclusive |-> 1, reward |-> 250],
  [start_block |-> 1, end_block_exclusive |-> 2, reward |-> 120] >>
MCEmittedAtEraStart == <<0, 250, 370>>
MCScarcityStartBlock == 2
MCTotal == 450

\* The shortest schedule with an era, a tail and a last partial reward.
OneEra == << [start_block |-> 0, end_block_exclusive |-> 1, reward |-> 250] >>
OneEraEmitted == <<0, 250>>
OneEraTotal == 330

\* Two submissions, while the schedule below has three rewards.
Budget == [w \in Wallets |-> 2]
Rich == [w \in Wallets |-> 9]

Fundings == {MCTotal, 0}
OneEraFunded == {OneEraTotal}
=============================================================================
