-------------------------- MODULE MCSuppressions ---------------------------
(* Suppressions for TLC.                                                    *)
EXTENDS Suppressions
=============================================================================
