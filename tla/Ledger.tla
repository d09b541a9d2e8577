------------------------------- MODULE Ledger -------------------------------
(***************************************************************************)
(* What the block consensus promises to its users: there is one ledger, it *)
(* only grows, a transaction enters it once, and each node knows a prefix  *)
(* of it that never shrinks.                                               *)
(***************************************************************************)
EXTENDS Naturals, Sequences

CONSTANTS Node, Body, Genesis

VARIABLES ledger,   \* the blocks agreed upon, in order
          height    \* height[n]: how many of them node n has executed

TypeOK == ledger \in Seq(Body) /\ height \in [Node -> 1 .. Len(ledger)]

Init == ledger = Genesis /\ height = [n \in Node |-> Len(Genesis)]

\* A node that knows the whole ledger commits the next block.
Extend(n, body) ==
  /\ height[n] = Len(ledger)
  /\ \A i \in DOMAIN ledger : ledger[i].txns \cap body.txns = {}
  /\ ledger' = Append(ledger, body)
  /\ height' = [height EXCEPT ![n] = Len(ledger) + 1]

\* A node that is behind executes more of the ledger.
Learn(n, h) ==
  /\ height[n] < h
  /\ height' = [height EXCEPT ![n] = h]
  /\ UNCHANGED ledger

Next == \E n \in Node : \/ \E body \in Body : Extend(n, body)
                        \/ \E h \in 1 .. Len(ledger) : Learn(n, h)

Spec == Init /\ [][Next]_<<ledger, height>>
=============================================================================
