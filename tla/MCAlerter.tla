----------------------------- MODULE MCAlerter -----------------------------
(* Alerter for TLC.                                                         *)
EXTENDS Alerter
=============================================================================
