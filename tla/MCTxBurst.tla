----------------------------- MODULE MCTxBurst ------------------------------
(* Instances of TxBurst for TLC.                                           *)
EXTENDS TxBurst

\* Sizes that grow with the MCS and the bandwidth, no two alike per bandwidth.
MCTbSize ==
  [p \in Bws \X Mcss |->
     CASE p[2] < FirstMcsLimit -> p[1]
       [] p[2] = FirstMcsLimit -> p[1] + 1
       [] OTHER -> p[1] + 2]
=============================================================================
