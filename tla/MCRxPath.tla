------------------------------ MODULE MCRxPath ------------------------------
(* Instances of RxPath for TLC.                                            *)
EXTENDS RxPath

MCControls == {[ch |-> 1, bw |-> 1, gain |-> 1], [ch |-> 2, bw |-> 1, gain |-> 2],
               [ch |-> 2, bw |-> 2, gain |-> 1]}

MCFirst == [ch |-> 1, bw |-> 1, gain |-> 1]
=============================================================================
