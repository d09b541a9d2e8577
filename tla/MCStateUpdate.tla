--------------------------- MODULE MCStateUpdate ---------------------------
(***************************************************************************)
(* Instances of StateUpdate for TLC: a page every block writes and pages   *)
(* that only one block does.                                               *)
(***************************************************************************)
EXTENDS StateUpdate, TLC

CONSTANTS n1, n2, n3, p1, p2

\* Block 1 writes both pages, block 2 the first, block 3 the second.
WritesOf(h) == Page \cap (IF h = 1 THEN {p1, p2} ELSE IF h = 2 THEN {p1} ELSE {p2})

Behind == {[n \in Node |-> IF n = n1 THEN 1 ELSE MaxHeight]}

\* A new node.
OneNew == {[n \in Node |-> IF n = n1 THEN 0 ELSE MaxHeight]}

=============================================================================
