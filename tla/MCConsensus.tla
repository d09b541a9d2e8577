---------------------------- MODULE MCConsensus ----------------------------
(* Instances of Consensus for TLC: the nodes are numbers, so that the wait *)
(* times can order them, differently at each height.                       *)
EXTENDS Consensus

MCWaitTime(n, h) == 1 + ((n + h) % 3)

NoRestart == [n \in Node |-> 0]
OneRestart == [n \in Node |-> IF n = 1 THEN 1 ELSE 0]   \* of node 1

NoneLate == {}
AllLate == Node \X Txn

-----------------------------------------------------------------------------
(* Some of the behaviours of three nodes, few enough to reach two heights  *)
(* after the first block: messages reach node 2 and then node 3 late.      *)

\* Nodes 1 and 2 decide on a block that node 3 does not hear of, node 1 starts
\* again and goes on with node 3, and in the end node 2 hears of them.  Node 1
\* proposes no block, and is not behind; the second transaction comes later.
Turn ==
  CASE Len(node[2].chain) = 1 -> {1, 2}
    [] node[1].run = 0        -> {1}
    [] Len(node[3].chain) < 3 -> {1, 3}
    [] OTHER                  -> {2}

LateNodes ==
  /\ \A n \in Node \ Turn : node'[n] = node[n]
  /\ node'[1].created = {}
  /\ \A n \in {1, 3} : node'[n].sync # "synchronizing"
  /\ node[1].run = 0 => Cardinality(SentTxns') <= 1

LateNodesSpec == Init /\ [][Next /\ LateNodes]_node
=============================================================================
