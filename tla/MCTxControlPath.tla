-------------------------- MODULE MCTxControlPath --------------------------
(* Instances of TxControlPath for TLC and the mutations its runs detect.   *)
EXTENDS TxControlPath
=============================================================================
