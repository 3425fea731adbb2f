--------------------------- MODULE MCSearchRound ---------------------------
(***************************************************************************)
(* Small instances of the search rounds for TLC.                           *)
(***************************************************************************)
EXTENDS SearchRound

CONSTANTS old, new

Both == <<"Cpu", "Gpu">>

\* The first range runs round the end.
AtTheEnd == {NonceSpace - 1}

\* One nonce, any, has the smallest hash under every challenge; one near it, which the
\* same thread, the next worker, the other engine or the other round tries, has a small
\* one under the old challenge only.
TwoWinners ==
  {[c \in Challenges |-> [n \in Nonces |->
      IF n = a THEN 0 ELSE IF n = (a + d) % NonceSpace /\ c = old THEN 1 ELSE 2]]
    : a \in Nonces, d \in {1, 2}}
=============================================================================
