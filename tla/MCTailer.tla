------------------------------ MODULE MCTailer ------------------------------
(* Tailer for TLC.                                                          *)
EXTENDS Tailer
=============================================================================
