------------------------------ MODULE Delivery ------------------------------
(***************************************************************************)
(* What a caller of submitter.rs may rely on.  The instruction it asks for *)
(* takes effect once at the most; "Success" is said only after it has; and *)
(* "Error" says nothing: the instruction may have taken effect, or may     *)
(* still do so.                                                            *)
(***************************************************************************)
CONSTANT Transactions

VARIABLES
  effects,    \* the transactions that have carried the instruction out
  told        \* what the caller was told

deliveryVars == <<effects, told>>

Init == effects = {} /\ told = "Nothing"

TakeEffect ==
  /\ effects = {}
  /\ \E t \in Transactions : effects' = {t}
  /\ UNCHANGED told

TellSuccess ==
  /\ told = "Nothing" /\ effects # {}
  /\ told' = "Success"
  /\ UNCHANGED effects

TellError ==
  /\ told = "Nothing"
  /\ told' = "Error"
  /\ UNCHANGED effects

Next == TakeEffect \/ TellSuccess \/ TellError

Spec == Init /\ [][Next]_deliveryVars
=============================================================================
