--------------------------- MODULE ControlStream ---------------------------
(***************************************************************************)
(* What the path of a Tx control promises each PHY: the controls pushed    *)
(* for it reach its transmission thread in the order the MAC sent them and *)
(* at most once; one is lost only when Capacity of them are waiting, and   *)
(* then it is the oldest.                                                  *)
(***************************************************************************)
EXTENDS Integers, FiniteSets

CONSTANTS
  Phys,      \* the PHYs that run
  Capacity,  \* the controls that can wait for each of them
  Ids        \* the numbers of the controls, in the order the MAC sent them

VARIABLES
  pending,  \* controls pushed for each PHY, neither delivered nor lost
  latest    \* the control delivered last to each PHY, 0 before the first

vars == <<pending, latest>>

Init ==
  /\ pending = [p \in Phys |-> {}]
  /\ latest = [p \in Phys |-> 0]

Oldest(S) == {m \in S : \A n \in S : m <= n}

\* A control newer than any seen by the PHY is added; the oldest pending one is
\* lost when there is no room.
Push(p, id) ==
  /\ id > latest[p]
  /\ \A m \in pending[p] : id > m
  /\ LET kept == IF Cardinality(pending[p]) < Capacity
                 THEN pending[p]
                 ELSE pending[p] \ Oldest(pending[p])
     IN  pending' = [pending EXCEPT ![p] = kept \cup {id}]
  /\ UNCHANGED latest

\* The oldest pending control is delivered.
Deliver(p) ==
  \E m \in Oldest(pending[p]) :
    /\ latest' = [latest EXCEPT ![p] = m]
    /\ pending' = [pending EXCEPT ![p] = @ \ {m}]

\* The PHY is stopped: what is pending will never be delivered.
Close(p) ==
  /\ pending' = [pending EXCEPT ![p] = {}]
  /\ UNCHANGED latest

Next == \E p \in Phys : Deliver(p) \/ Close(p) \/ \E id \in Ids : Push(p, id)

Spec == Init /\ [][Next]_vars
=============================================================================
