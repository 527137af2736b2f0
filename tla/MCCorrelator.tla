---------------------------- MODULE MCCorrelator ----------------------------
(* Correlator for TLC.                                                      *)
EXTENDS Correlator, TLC

\* Nothing in the model orders or names a particular stage.
StageSymmetry == Permutations(Stage)
=============================================================================
