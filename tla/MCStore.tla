------------------------------ MODULE MCStore ------------------------------
(* Store for TLC: a channel and a batch of two rows, so that both fill up,  *)
(* as many rows as the two together hold; attempts fail twice at most.     *)
EXTENDS Store
=============================================================================
