------------------------------ MODULE MCUeSync ------------------------------
(* Instances of UeSync for TLC.                                            *)
EXTENDS UeSync

\* Two bursts, the first at any phase of the windows, the second right
\* behind it or after a gap.
MCStreams ==
  {{[at |-> a, n |-> n], [at |-> a + n * L + gap, n |-> 2]} :
     a \in L .. 2 * L - 1, n \in {1, 3}, gap \in {0, 2, L - 1}}
=============================================================================
