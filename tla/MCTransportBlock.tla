-------------------------- MODULE MCTransportBlock --------------------------
(* Instances of TransportBlock for TLC: every bandwidth and every MCS.     *)
EXTENDS TransportBlock

MCBws == 1..6
MCMcss == 0..31
=============================================================================
