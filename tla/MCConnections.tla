--------------------------- MODULE MCConnections ---------------------------
(***************************************************************************)
(* Instances of Connections for TLC.                                       *)
(***************************************************************************)
EXTENDS Connections, TLC

CONSTANTS n1, n2, n3

\* Two nodes call each other at the same time and a connection may fail, or
\* three nodes have a connection each.
TwoNetworks ==
  {[finds |-> n1 :> {n2} @@ n2 :> {n1} @@ n3 :> {}, fails |-> {1}],
   [finds |-> n1 :> {n2} @@ n2 :> {n3} @@ n3 :> {n1}, fails |-> {}]}

\* The second connection of a pair has a greater or a lower number.
ThreeNumbers == <<2, 3, 1>>
=============================================================================
