----------------------------- MODULE MCMempool -----------------------------
(***************************************************************************)
(* Instances of Mempool for TLC.                                           *)
(***************************************************************************)
EXTENDS Mempool

Pairs(S) == {c \in S \X S : c[1] # c[2]}

Makes(k) == [n \in Node |-> IF n = 1 THEN k ELSE 0]

\* Two connected nodes, of which the first makes k transactions and may answer
\* from its database; f faults.
TwoNodes(k, f) ==
  [nodes |-> {1, 2}, full |-> {1}, links |-> Pairs({1, 2}), local |-> Makes(k), max_faults |-> f]

\* Three nodes, the first and the last of them not connected yet, without faults;
\* all of them answer from their mempools.
ThreeInLine ==
  [nodes |-> {1, 2, 3}, full |-> {}, links |-> Pairs({1, 2}) \cup Pairs({2, 3}),
   local |-> Makes(2), max_faults |-> 0]

TwoNetworks == {TwoNodes(3, 1), ThreeInLine}
TwoFaults == {TwoNodes(2, 2)}

\* The first of them is in the first block.
FirstExecuted == << <<1, 1>> >>

\* The last one fails on every node.
LastRejected == {<<1, 3>>}

NoneRejected == {}
=============================================================================
