------------------------------- MODULE MCTxer -------------------------------
(* A pool of 3, sent three times in bursts of 2 through rings of 1: passes *)
(* end in the middle of a burst, and the NICs are often too full to take   *)
(* anything of what is flushed.                                            *)
EXTENDS Txer
=============================================================================
