--------------------------- MODULE MCCommunicator ---------------------------
(***************************************************************************)
(* Communicator for TLC: the two peers of the shipped configuration.       *)
(***************************************************************************)
EXTENDS Communicator

MCTargets == <<"MAC", "ENV">>
MCQuotas ==
  {[mac |-> 3, env |-> 0, out |-> 0, noise |-> {"unknown"}],
   [mac |-> 2, env |-> 1, out |-> 0, noise |-> {"other", "unknown"}],
   [mac |-> 2, env |-> 0, out |-> 0, noise |-> {"refused", "unknown"}],
   [mac |-> 1, env |-> 2, out |-> 0, noise |-> {"noUpdate", "other", "unset"}],
   [mac |-> 0, env |-> 0, out |-> 3, noise |-> {}],
   [mac |-> 1, env |-> 0, out |-> 1, noise |-> {"unset"}]}
=============================================================================
