------------------------------ MODULE Replica ------------------------------
(***************************************************************************)
(* What the state update promises: the database of every node moves from   *)
(* the state of one block to the state of a later one, in one step and     *)
(* never back.  Nothing else of it is ever visible.                        *)
(***************************************************************************)
EXTENDS Naturals

CONSTANTS Node, StartHeights, MaxHeight, State(_)

VARIABLES state, height

vars == <<state, height>>

Init ==
  \E h \in StartHeights : height = h /\ state = [n \in Node |-> State(h[n])]

Advance(n) ==
  \E h \in height[n] + 1 .. MaxHeight :
    /\ height' = [height EXCEPT ![n] = h]
    /\ state' = [state EXCEPT ![n] = State(h)]

Next == \E n \in Node : Advance(n)

Spec == Init /\ [][Next]_vars
=============================================================================
