---------------------------- MODULE MCSubmitter ----------------------------
(* Slots 0 to 3 and blockhashes of one slot: a transaction may land in the  *)
(* slot of its blockhash, in the next, or be too late on its later paths.   *)
EXTENDS Submitter
=============================================================================
