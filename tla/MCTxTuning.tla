----------------------------- MODULE MCTxTuning -----------------------------
(* Instances of TxTuning for TLC.                                          *)
EXTENDS TxTuning
=============================================================================
