------------------------------- MODULE MCLbt -------------------------------
(* Instances of Lbt for TLC.                                               *)
EXTENDS Lbt
=============================================================================
