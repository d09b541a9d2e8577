--------------------------- MODULE MempoolProofs ---------------------------
(***************************************************************************)
(* For any networks, transactions and faults: the way of a transaction to  *)
(* a block keeps its types, no executed transaction waits to be executed   *)
(* again, and a block that a node has committed can be fetched from it.    *)
(* Unless a database is busy the nonces of each node are executed in order *)
(* without a gap; unless a transaction fails on one node only, nodes vote  *)
(* for what they have verified.                                            *)
(*                                                                         *)
(* The last nonces of a node are those of the blocks that it has; blocks,  *)
(* proposals and mempools only hold later ones.                            *)
(***************************************************************************)
EXTENDS Mempool, TLAPS, FiniteSetTheorems, SequenceTheorems, WellFoundedInduction

\* The transactions of the first h blocks of a chain ch.
TxnsOf(ch, h) == UNION {ch[i].txns : i \in 1 .. h}

\* The transactions ts come after those of S: for each node their nonces do.
Newer(ts, S) == \A t \in ts, u \in S : t[1] = u[1] => u[2] < t[2]

\* f has the last nonces of the transactions S, and 0 for a node without one.
LastOf(f, S) ==
  /\ f \in [Node -> Nat]
  /\ \A t \in S : t[2] <= f[t[1]]
  /\ \A m \in Node : f[m] = 0 \/ <<m, f[m]>> \in S

\* The transactions ts come after the last nonces f.
After(ts, f) == \A t \in ts : f[t[1]] < t[2]

\* Block b, with a transaction at least, may follow the first h of ch.
Follows(ch, h, b) == b.height = h + 1 /\ b.txns # {} /\ Newer(b.txns, TxnsOf(ch, h))

\* Every block follows those before it.  There are no more blocks than transactions.
ChainInv(ch) ==
  /\ ch \in Seq(Block)
  /\ \A h \in 1 .. Len(ch) : Follows(ch, h - 1, ch[h])
  /\ Len(ch) <= Cardinality(TxnsOf(ch, Len(ch)))

\* The marks of a mempool are on transactions of the blocks of the node, and what
\* the last two blocks took is still there if the node committed them itself.
Served(s, ch) ==
  /\ \A x \in Txn : s.block_height[x] # 0 => x \in TxnsOf(ch, s.height)
  /\ \A h \in s.own_blocks :
       /\ h \in 1 .. s.height
       /\ s.height <= h + 1 => \A x \in ch[h].txns : x \in s.mempool /\ s.block_height[x] = h

\* What is true of a node with the state s, when ch is the chain.
NodeInv(n, s, ch) ==
  /\ s \in NodeState
  /\ s.height <= Len(ch)
  /\ LastOf(s.last_nonce, TxnsOf(ch, s.height))
  /\ After(Unused(s), s.last_nonce)
  /\ After(s.open.txns, s.last_nonce)
  /\ {n} \X (1 .. s.made) \subseteq Txn
  /\ Served(s, ch)

MempoolInv ==
  /\ TypeOK
  /\ ChainInv(chain)
  /\ \A b \in blocks : Follows(chain, Len(chain), b)
  /\ \A n \in Node : NodeInv(n, node[n], chain)

-----------------------------------------------------------------------------
(* Transactions and nonces *)

\* A transaction is a pair of a node and a nonce, and the node has made those
\* with a lower nonce too.
LEMMA TxnShape ==
  ASSUME NEW t \in Txn
  PROVE  /\ t = <<t[1], t[2]>> /\ t[1] \in Node /\ t[2] \in Nat /\ 1 <= t[2]
         /\ \A k \in 1 .. t[2] : <<t[1], k>> \in Txn
<1>1. PICK n \in Node, w \in Network : t \in {n} \X (1 .. w.local[n])
  BY DEF Txn
<1>2. w.local[n] \in Nat
  BY NetworkAssumption
<1>3. t = <<n, t[2]>> /\ t[1] = n /\ t[2] \in 1 .. w.local[n]
  BY <1>1
<1>4. ASSUME NEW k \in 1 .. t[2]
      PROVE  <<n, k>> \in Txn
  <2>1. k \in 1 .. w.local[n]
    BY <1>2, <1>3
  <2>2. <<n, k>> \in {n} \X (1 .. w.local[n])
    BY <2>1
  <2> DEFINE made == {{p} \X (1 .. v.local[p]) : p \in Node, v \in Network}
  <2>3. {n} \X (1 .. w.local[n]) \in made
    OBVIOUS
  <2>4. Txn = UNION made
    BY DEF Txn
  <2> HIDE DEF made
  <2> QED BY <2>2, <2>3, <2>4
<1> QED BY <1>2, <1>3, <1>4

\* As many transactions as its nonce says were made at its node.
LEMMA NonceBound ==
  ASSUME NEW t \in Txn
  PROVE  t[2] <= Cardinality(Txn)
<1> DEFINE number == [k \in 1 .. t[2] |-> <<t[1], k>>]
<1>1. t[2] \in Nat /\ \A k \in 1 .. t[2] : <<t[1], k>> \in Txn
  BY TxnShape
<1>2. number \in [1 .. t[2] -> Txn]
  BY <1>1
<1>3. \A j, k \in 1 .. t[2] : number[j] = number[k] => j = k
  OBVIOUS
<1>4. number \in Injection(1 .. t[2], Txn)
  BY <1>2, <1>3 DEF Injection, IsInjective
<1>5. Cardinality(1 .. t[2]) <= Cardinality(Txn)
  BY <1>4, TxnAssumption, FS_Injection
<1>6. Cardinality(1 .. t[2]) = t[2]
  BY <1>1, FS_Interval
<1> QED BY <1>5, <1>6

\* A non-empty bounded set of numbers has a greatest element: the least
\* distance from the bound belongs to it.
LEMMA MaxOfBounded ==
  ASSUME NEW m \in Nat, NEW W \in SUBSET (0 .. m), W # {}
  PROVE  Max(W) \in W /\ \A j \in W : j <= Max(W)
<1> DEFINE T == {x \in Nat : \E k \in W : k + x = m}
<1>1. T \subseteq Nat /\ T # {}
  <2>1. PICK k \in W : TRUE
    OBVIOUS
  <2>2. m - k \in Nat /\ k + (m - k) = m
    BY <2>1
  <2> QED BY <2>1, <2>2
<1>2. \E x \in T : \A y \in T : ~ (<<y, x>> \in OpToRel(<, Nat))
  BY <1>1, NatLessThanWellFounded, WFMin
<1>3. PICK x \in T : \A y \in T : ~ (y < x)
  BY <1>1, <1>2 DEF OpToRel
<1>4. PICK k \in W : k + x = m
  BY <1>3
<1>5. ASSUME NEW j \in W
      PROVE  k >= j
  <2>1. j \in Nat /\ j <= m /\ k \in Nat /\ x \in Nat /\ m - j \in Nat /\ j + (m - j) = m
    BY <1>3
  <2>2. m - j \in T
    BY <2>1
  <2>3. ~ (m - j < x)
    BY <1>3, <2>2
  <2> QED BY <1>4, <2>1, <2>3
<1>6. \E y \in W : \A j \in W : y >= j
  BY <1>4, <1>5
<1>7. Max(W) \in W /\ \A j \in W : Max(W) >= j
  BY <1>6 DEF Max
<1> QED BY <1>7

\* The last nonce of node m among transactions.
LEMMA LastNonceOf ==
  ASSUME NEW m, NEW ts \in SUBSET Txn, Nonces(m, ts) # {}
  PROVE  /\ Max(Nonces(m, ts)) \in Nat /\ <<m, Max(Nonces(m, ts))>> \in ts
         /\ \A t \in ts : t[1] = m => t[2] <= Max(Nonces(m, ts))
<1>1. Cardinality(Txn) \in Nat
  BY TxnAssumption, FS_CardinalityType
<1>2. ASSUME NEW k \in Nonces(m, ts)
      PROVE  k \in 0 .. Cardinality(Txn) /\ <<m, k>> \in ts
  <2>1. PICK t \in ts : t[1] = m /\ t[2] = k
    BY DEF Nonces
  <2>2. t = <<m, k>> /\ k \in Nat
    BY <2>1, TxnShape
  <2> QED BY <1>1, <2>1, <2>2, NonceBound
<1>3. /\ Max(Nonces(m, ts)) \in Nonces(m, ts)
      /\ \A k \in Nonces(m, ts) : k <= Max(Nonces(m, ts))
  BY <1>1, <1>2, MaxOfBounded
<1>4. \A t \in ts : t[1] = m => t[2] \in Nonces(m, ts)
  BY DEF Nonces
<1> QED BY <1>2, <1>3, <1>4

\* What the code writes as the last nonces, when the transactions ts come
\* after those that were executed.
LEMMA NoncesAfterIsLast ==
  ASSUME NEW f, NEW S \in SUBSET Txn, NEW ts \in SUBSET Txn, LastOf(f, S), After(ts, f)
  PROVE  /\ LastOf(NoncesAfter(f, ts), S \cup ts)
         /\ \A m \in Node : f[m] <= NoncesAfter(f, ts)[m]
<1> DEFINE g == NoncesAfter(f, ts)
<1>1. f \in [Node -> Nat]
  BY DEF LastOf
<1>2. ASSUME NEW m \in Node
      PROVE  /\ g[m] \in Nat /\ f[m] <= g[m]
             /\ \A t \in ts : t[1] = m => t[2] <= g[m]
             /\ g[m] = 0 \/ <<m, g[m]>> \in S \cup ts
  <2>1. CASE Nonces(m, ts) = {}
    <3>1. g[m] = f[m]
      BY <2>1 DEF NoncesAfter
    <3>2. \A t \in ts : t[1] # m
      BY <2>1 DEF Nonces
    <3> QED BY <1>1, <3>1, <3>2 DEF LastOf
  <2>2. CASE Nonces(m, ts) # {}
    <3>1. g[m] = Max(Nonces(m, ts))
      BY <2>2 DEF NoncesAfter
    <3>2. /\ g[m] \in Nat /\ <<m, g[m]>> \in ts
          /\ \A t \in ts : t[1] = m => t[2] <= g[m]
      BY <2>2, <3>1, LastNonceOf
    <3>3. f[m] < g[m]
      BY <3>2 DEF After
    <3> QED BY <1>1, <3>2, <3>3
  <2> QED BY <2>1, <2>2
<1>3. g \in [Node -> Nat]
  <2>1. g = [m \in Node |-> g[m]]
    BY DEF NoncesAfter
  <2> QED BY <1>2, <2>1
<1>4. ASSUME NEW t \in S \cup ts
      PROVE  t[2] <= g[t[1]]
  <2>1. t[1] \in Node /\ t[2] \in Nat
    BY TxnShape
  <2>2. CASE t \in ts
    BY <1>2, <2>1, <2>2
  <2>3. CASE t \in S
    <3>1. t[2] <= f[t[1]]
      BY <2>3 DEF LastOf
    <3>2. f[t[1]] \in Nat /\ f[t[1]] <= g[t[1]] /\ g[t[1]] \in Nat
      BY <1>1, <1>2, <2>1
    <3> HIDE DEF g
    <3> QED BY <2>1, <3>1, <3>2
  <2> QED BY <2>2, <2>3
<1> QED BY <1>2, <1>3, <1>4 DEF LastOf

\* Transactions that come after those that were executed come after the last nonces.
LEMMA NewerIsAfter ==
  ASSUME NEW f, NEW S \in SUBSET Txn, NEW ts \in SUBSET Txn, LastOf(f, S), Newer(ts, S)
  PROVE  After(ts, f)
<1> SUFFICES ASSUME NEW t \in ts
             PROVE  f[t[1]] < t[2]
  BY DEF After
<1>1. t[1] \in Node /\ t[2] \in Nat /\ 1 <= t[2]
  BY TxnShape
<1>2. f[t[1]] = 0 \/ <<t[1], f[t[1]]>> \in S
  BY <1>1 DEF LastOf
<1>3. <<t[1], f[t[1]]>> \in S => f[t[1]] < t[2]
  BY DEF Newer
<1> QED BY <1>1, <1>2, <1>3

\* And the other way round.
LEMMA AfterIsNewer ==
  ASSUME NEW f, NEW S \in SUBSET Txn, NEW ts \in SUBSET Txn, LastOf(f, S), After(ts, f)
  PROVE  Newer(ts, S)
<1> SUFFICES ASSUME NEW t \in ts, NEW u \in S, t[1] = u[1]
             PROVE  u[2] < t[2]
  BY DEF Newer
<1>1. t[1] \in Node /\ t[2] \in Nat /\ u[2] \in Nat
  BY TxnShape
<1>2. f[t[1]] \in Nat /\ u[2] <= f[t[1]] /\ f[t[1]] < t[2]
  BY <1>1 DEF LastOf, After
<1> QED BY <1>1, <1>2

-----------------------------------------------------------------------------
(* The chain and the state of a node *)

\* The transactions of a chain are transactions; those of the blocks of a node are
\* part of them.
LEMMA TxnsOfChain ==
  ASSUME NEW ch \in Seq(Block), NEW h \in 0 .. Len(ch)
  PROVE  /\ TxnsOf(ch, h) \subseteq Txn /\ TxnsOf(ch, h) \subseteq TxnsOf(ch, Len(ch))
         /\ IsFiniteSet(TxnsOf(ch, h)) /\ Cardinality(TxnsOf(ch, h)) <= Cardinality(Txn)
         /\ Len(ch) <= Cardinality(TxnsOf(ch, Len(ch))) => h \in Height
<1>1. Len(ch) \in Nat /\ h \in Nat /\ \A i \in 1 .. h : i \in 1 .. Len(ch)
  OBVIOUS
<1>2. \A i \in 1 .. Len(ch) : ch[i].txns \subseteq Txn
  <2>1. \A i \in 1 .. Len(ch) : ch[i] \in Block
    OBVIOUS
  <2> QED BY <2>1 DEF Block
<1>3. /\ TxnsOf(ch, h) \subseteq Txn /\ TxnsOf(ch, Len(ch)) \subseteq Txn
      /\ TxnsOf(ch, h) \subseteq TxnsOf(ch, Len(ch))
  BY <1>1, <1>2 DEF TxnsOf
<1>4. /\ IsFiniteSet(TxnsOf(ch, h)) /\ Cardinality(TxnsOf(ch, h)) <= Cardinality(Txn)
      /\ Cardinality(TxnsOf(ch, Len(ch))) <= Cardinality(Txn)
  BY <1>3, TxnAssumption, FS_Subset
<1>5. Cardinality(Txn) \in Nat /\ Cardinality(TxnsOf(ch, Len(ch))) \in Nat
  BY <1>3, TxnAssumption, FS_CardinalityType, FS_Subset
<1>6. Len(ch) <= Cardinality(TxnsOf(ch, Len(ch))) => h \in Height
  BY <1>1, <1>4, <1>5 DEF Height
<1> QED BY <1>3, <1>4, <1>6

\* A chain with another block still has the blocks it had.
LEMMA TxnsOfAppend ==
  ASSUME NEW ch \in Seq(Block), NEW b \in Block
  PROVE  /\ \A h \in 0 .. Len(ch) : TxnsOf(Append(ch, b), h) = TxnsOf(ch, h)
         /\ TxnsOf(Append(ch, b), Len(ch) + 1) = TxnsOf(ch, Len(ch)) \cup b.txns
<1>1. Len(ch) \in Nat
  OBVIOUS
<1>2. /\ \A i \in 1 .. Len(ch) : Append(ch, b)[i] = ch[i]
      /\ Append(ch, b)[Len(ch) + 1] = b
  OBVIOUS
<1>3. ASSUME NEW h \in 0 .. Len(ch)
      PROVE  TxnsOf(Append(ch, b), h) = TxnsOf(ch, h)
  <2>1. \A i \in 1 .. h : Append(ch, b)[i].txns = ch[i].txns
    BY <1>1, <1>2
  <2> QED BY <2>1 DEF TxnsOf
<1>4. 1 .. Len(ch) + 1 = 1 .. Len(ch) \cup {Len(ch) + 1}
  BY <1>1
<1>5. TxnsOf(Append(ch, b), Len(ch) + 1) = TxnsOf(Append(ch, b), Len(ch)) \cup b.txns
  BY <1>2, <1>4 DEF TxnsOf
<1>6. TxnsOf(Append(ch, b), Len(ch)) = TxnsOf(ch, Len(ch))
  BY <1>1, <1>3
<1> QED BY <1>3, <1>5, <1>6

\* One block more is one transaction more.
LEMMA ChainGrows ==
  ASSUME NEW ch, ChainInv(ch), NEW b \in Block, Follows(ch, Len(ch), b)
  PROVE  ChainInv(Append(ch, b))
<1> DEFINE new == Append(ch, b)
<1>1. ch \in Seq(Block) /\ Len(ch) \in Nat
  BY DEF ChainInv
<1>2. new \in Seq(Block) /\ Len(new) = Len(ch) + 1
  BY <1>1
<1>3. /\ \A i \in 1 .. Len(ch) : new[i] = ch[i]
      /\ new[Len(ch) + 1] = b
  BY <1>1
<1>4. \A h \in 0 .. Len(ch) : TxnsOf(new, h) = TxnsOf(ch, h)
  BY <1>1, TxnsOfAppend
<1>5. ASSUME NEW h \in 1 .. Len(new)
      PROVE  Follows(new, h - 1, new[h])
  <2>1. h - 1 \in 0 .. Len(ch) /\ TxnsOf(new, h - 1) = TxnsOf(ch, h - 1)
    BY <1>1, <1>2, <1>4
  <2>2. CASE h \in 1 .. Len(ch)
    <3>1. Follows(ch, h - 1, ch[h])
      BY <2>2 DEF ChainInv
    <3> QED BY <1>3, <2>1, <2>2, <3>1 DEF Follows
  <2>3. CASE h = Len(ch) + 1
    <3>1. h - 1 = Len(ch) /\ new[h] = b
      BY <1>1, <1>3, <2>3
    <3>2. Follows(ch, h - 1, new[h])
      BY <3>1
    <3> QED BY <2>1, <3>2 DEF Follows
  <2> QED BY <1>1, <1>2, <2>2, <2>3
<1>6. Len(new) <= Cardinality(TxnsOf(new, Len(new)))
  <2>1. PICK t \in b.txns : TRUE
    BY DEF Follows
  <2>2. t \in Txn
    BY DEF Block
  <2>3. t \notin TxnsOf(ch, Len(ch))
    <3>1. t[2] \in Nat
      BY <2>2, TxnShape
    <3> QED BY <2>1, <3>1 DEF Follows, Newer
  <2>4. /\ TxnsOf(ch, Len(ch)) \subseteq Txn
        /\ IsFiniteSet(TxnsOf(ch, Len(ch))) /\ Cardinality(TxnsOf(ch, Len(ch))) \in Nat
    BY <1>1, TxnsOfChain, FS_CardinalityType
  <2>5. Cardinality(TxnsOf(ch, Len(ch)) \cup {t}) = Cardinality(TxnsOf(ch, Len(ch))) + 1
    BY <2>3, <2>4, FS_AddElement
  <2>6. TxnsOf(new, Len(new)) = TxnsOf(ch, Len(ch)) \cup b.txns
    BY <1>1, <1>2, TxnsOfAppend
  <2>7. TxnsOf(new, Len(new)) \subseteq Txn
    BY <2>4, <2>6 DEF Block
  <2>8. IsFiniteSet(TxnsOf(new, Len(new))) /\ Cardinality(TxnsOf(new, Len(new))) \in Nat
    BY <2>7, TxnAssumption, FS_Subset, FS_CardinalityType
  <2>9. Cardinality(TxnsOf(ch, Len(ch)) \cup {t}) <= Cardinality(TxnsOf(new, Len(new)))
    BY <2>1, <2>6, <2>8, FS_Subset
  <2>10. Len(ch) <= Cardinality(TxnsOf(ch, Len(ch)))
    BY DEF ChainInv
  <2> QED BY <1>1, <1>2, <2>4, <2>5, <2>8, <2>9, <2>10
<1> QED BY <1>2, <1>5, <1>6 DEF ChainInv

\* What is true of a node stays true when there is another block.
LEMMA NodeInvGrows ==
  ASSUME NEW ch \in Seq(Block), NEW b \in Block, NEW n, NEW s, NodeInv(n, s, ch)
  PROVE  NodeInv(n, s, Append(ch, b))
<1>1. s.height \in 0 .. Len(ch) /\ Len(ch) \in Nat /\ Len(Append(ch, b)) = Len(ch) + 1
  BY DEF NodeInv, NodeState, Height
<1>2. TxnsOf(Append(ch, b), s.height) = TxnsOf(ch, s.height)
  BY <1>1, TxnsOfAppend
<1>3. s.height <= Len(Append(ch, b))
  BY <1>1
<1>4. \A h \in 1 .. s.height : Append(ch, b)[h] = ch[h]
  BY <1>1
<1>5. Served(s, Append(ch, b))
  BY <1>2, <1>4 DEF NodeInv, Served
<1> QED BY <1>2, <1>3, <1>5 DEF NodeInv

\* A mempool that keeps its marks and loses nothing.
LEMMA ServedStays ==
  ASSUME NEW ch, NEW s, Served(s, ch), NEW t, t.height = s.height, t.own_blocks = s.own_blocks,
         t.block_height = s.block_height, s.mempool \subseteq t.mempool
  PROVE  Served(t, ch)
BY DEF Served

\* What most handlers leave alone is enough.
LEMMA SameNonces ==
  ASSUME NEW ch, NEW n, NEW s, NodeInv(n, s, ch), NEW t \in NodeState,
         t.height = s.height, t.last_nonce = s.last_nonce, {n} \X (1 .. t.made) \subseteq Txn,
         t.open \in {s.open, NoBlock}, After(Unused(t), s.last_nonce), Served(t, ch)
  PROVE  NodeInv(n, t, ch)
<1>1. After(NoBlock.txns, s.last_nonce)
  BY DEF After, NoBlock
<1>2. After(t.open.txns, t.last_nonce)
  BY <1>1 DEF NodeInv
<1> QED BY <1>2 DEF NodeInv

\* The block that is no block.
LEMMA NoBlockType == NoBlock \in Block
<1>1. Cardinality(Txn) \in Nat
  BY TxnAssumption, FS_CardinalityType
<1> QED BY <1>1 DEF NoBlock, Block, Height

\* start_new_block_timer only changes the timer.
LEMMA TimerKeeps ==
  ASSUME NEW ch, NEW n, NEW s, NodeInv(n, s, ch)
  PROVE  /\ NodeInv(n, start_new_block_timer(n, s), ch)
         /\ start_new_block_timer(n, s).mempool = s.mempool
<1> DEFINE t == [s EXCEPT !.new_block_timer = TRUE]
<1>1. s \in NodeState
  BY DEF NodeInv
<1>2. /\ t \in NodeState /\ t.height = s.height /\ t.last_nonce = s.last_nonce
      /\ t.made = s.made /\ t.open = s.open /\ t.mempool = s.mempool
      /\ t.block_height = s.block_height /\ t.own_blocks = s.own_blocks
  BY <1>1 DEF NodeState
<1>3. Unused(t) = Unused(s)
  BY <1>2 DEF Unused
<1> HIDE DEF t
<1>4. NodeInv(n, t, ch)
  BY <1>2, <1>3, ServedStays DEF NodeInv
<1>5. start_new_block_timer(n, s) \in {s, t}
  BY DEF start_new_block_timer, t
<1> QED BY <1>2, <1>4, <1>5

\* The transactions that are stored come after the last nonces.
LEMMA TransactionsKeep ==
  ASSUME NEW ch \in Seq(Block), NEW n, NEW s, NodeInv(n, s, ch), NEW ts \in SUBSET Txn, NEW requested
  PROVE  /\ NodeInv(n, process_new_transactions(n, s, ts, requested), ch)
         /\ s.mempool \subseteq process_new_transactions(n, s, ts, requested).mempool
<1> DEFINE new == Storable(s, ts)
           stored == [s EXCEPT !.mempool = @ \cup new]
<1>1. s \in NodeState
  BY DEF NodeInv
<1>2. new \subseteq Txn
  BY DEF Storable
<1>3. /\ stored \in NodeState /\ stored.height = s.height /\ stored.last_nonce = s.last_nonce
      /\ stored.made = s.made /\ stored.open = s.open /\ stored.mempool = s.mempool \cup new
      /\ stored.block_height = s.block_height /\ stored.own_blocks = s.own_blocks
  BY <1>1, <1>2 DEF NodeState
<1>4. \A m \in Node : s.last_nonce[m] <= LastNonce(s)[m] /\ LastNonce(s)[m] \in Nat
  <2>1. /\ TxnsOf(ch, s.height) \subseteq Txn /\ s.open.txns \subseteq Txn
    <3>1. s.height \in 0 .. Len(ch)
      BY <1>1 DEF NodeInv, NodeState, Height
    <3> QED BY <1>1, <3>1, TxnsOfChain DEF NodeState, Block
  <2>2. LastOf(s.last_nonce, TxnsOf(ch, s.height)) /\ After(s.open.txns, s.last_nonce)
    BY DEF NodeInv
  <2>3. /\ LastOf(LastNonce(s), TxnsOf(ch, s.height) \cup s.open.txns)
        /\ \A m \in Node : s.last_nonce[m] <= LastNonce(s)[m]
    BY <2>1, <2>2, NoncesAfterIsLast DEF LastNonce
  <2> QED BY <2>3 DEF LastOf
<1>5. After(Unused(stored), s.last_nonce)
  <2> SUFFICES ASSUME NEW t \in Unused(stored)
               PROVE  s.last_nonce[t[1]] < t[2]
    BY DEF After
  <2>1. t \in Unused(s) \/ t \in new
    BY <1>3 DEF Unused
  <2>2. ASSUME t \in new
        PROVE  s.last_nonce[t[1]] < t[2]
    <3>1. t[1] \in Node /\ t[2] \in Nat /\ t[2] > LastNonce(s)[t[1]]
      BY <1>2, <2>2, TxnShape DEF Storable
    <3>2. s.last_nonce[t[1]] \in Nat
      BY <1>1, <3>1 DEF NodeState
    <3> QED BY <1>4, <3>1, <3>2
  <2> QED BY <2>1, <2>2 DEF NodeInv, After
<1> HIDE DEF stored
<1>6. NodeInv(n, stored, ch)
  <2>1. Served(stored, ch)
    BY <1>3, ServedStays DEF NodeInv
  <2> QED BY <1>3, <1>5, <2>1, SameNonces DEF NodeInv
<1>7. process_new_transactions(n, s, ts, requested) \in {stored, start_new_block_timer(n, stored)}
  BY DEF process_new_transactions, stored
<1> QED BY <1>3, <1>6, <1>7, TimerKeeps

\* The node sends and stores transactions of its log.
LEMMA SendKeeps ==
  ASSUME NEW ch \in Seq(Block), NEW n \in Node, NEW s, NodeInv(n, s, ch)
  PROVE  /\ Sendable(n, s) \subseteq Txn
         /\ NodeInv(n, send_local_transactions(n, s), ch)
         /\ s.mempool \subseteq send_local_transactions(n, s).mempool
<1> DEFINE sent == process_new_transactions(n, s, Sendable(n, s), FALSE)
           t == send_local_transactions(n, s)
<1>1. s \in NodeState
  BY DEF NodeInv
<1>2. Sendable(n, s) \subseteq Txn
  <2>1. Pending(n, s) \subseteq {n} \X (1 .. s.made)
    <3>1. s.last_nonce[n] \in Nat /\ s.made \in Nat
      BY <1>1 DEF NodeState
    <3> QED BY <3>1 DEF Pending
  <2>2. Sendable(n, s) \subseteq Pending(n, s)
    BY DEF Sendable
  <2> QED BY <2>1, <2>2 DEF NodeInv
<1>3. NodeInv(n, sent, ch) /\ s.mempool \subseteq sent.mempool
  BY <1>2, TransactionsKeep
<1> HIDE DEF sent
<1>4. sent \in NodeState
  BY <1>3 DEF NodeInv
<1>5. \E v \in {"in_sync", "local_changes"} : t = [sent EXCEPT !.sync_up = v]
  BY DEF send_local_transactions, sent
<1>6. /\ t \in NodeState /\ t.height = sent.height /\ t.last_nonce = sent.last_nonce
      /\ t.made = sent.made /\ t.open = sent.open /\ t.mempool = sent.mempool
      /\ t.block_height = sent.block_height /\ t.own_blocks = sent.own_blocks
  BY <1>4, <1>5 DEF NodeState
<1>7. Unused(t) = Unused(sent)
  BY <1>6 DEF Unused
<1> HIDE DEF t
<1>8. NodeInv(n, t, ch)
  BY <1>3, <1>6, <1>7, ServedStays DEF NodeInv
<1> QED BY <1>2, <1>3, <1>6, <1>8 DEF t

-----------------------------------------------------------------------------
(* Blocks *)

\* The transactions of the blocks of a node.
LEMMA NodeTxns ==
  ASSUME NEW ch \in Seq(Block), NEW n, NEW s, NodeInv(n, s, ch)
  PROVE  s.height \in 0 .. Len(ch) /\ TxnsOf(ch, s.height) \subseteq Txn
<1>1. s.height \in 0 .. Len(ch)
  BY DEF NodeInv, NodeState, Height
<1> QED BY <1>1, TxnsOfChain

\* A block that follows those of a node has transactions that come after its last
\* nonces.
LEMMA FollowingIsAfter ==
  ASSUME NEW ch \in Seq(Block), NEW n, NEW s, NodeInv(n, s, ch),
         NEW b \in Block, Follows(ch, s.height, b)
  PROVE  After(b.txns, s.last_nonce)
<1>1. TxnsOf(ch, s.height) \subseteq Txn
  BY NodeTxns
<1>2. LastOf(s.last_nonce, TxnsOf(ch, s.height)) /\ Newer(b.txns, TxnsOf(ch, s.height))
  BY DEF NodeInv, Follows
<1>3. b.txns \subseteq Txn
  BY DEF Block
<1> QED BY <1>1, <1>2, <1>3, NewerIsAfter

\* A node proposes a block that follows those it has.
LEMMA CreatedFollows ==
  ASSUME NEW ch, ChainInv(ch), NEW n, NEW s, NodeInv(n, s, ch),
         NEW env \in Outcomes(InOrder(s)), create_block(s, env).txns # {}
  PROVE  /\ create_block(s, env) \in Block
         /\ Follows(ch, s.height, create_block(s, env))
         /\ After(create_block(s, env).txns, s.last_nonce)
<1> DEFINE b == create_block(s, env)
<1>1. ch \in Seq(Block) /\ Len(ch) \in Nat /\ s \in NodeState
  BY DEF ChainInv, NodeInv
<1>2. /\ b.height = s.height + 1 /\ b.txns = InOrder(s) \ env.busy
      /\ b.failed = Failing(b.txns, env)
      /\ b = [height |-> b.height, txns |-> b.txns, failed |-> b.failed]
  BY DEF create_block
<1>3. b.txns \subseteq Unused(s) /\ b.failed \subseteq b.txns
  BY <1>2 DEF InOrder, Failing
<1>4. Unused(s) \subseteq Txn
  BY <1>1 DEF Unused, NodeState
<1>5. After(b.txns, s.last_nonce)
  BY <1>3 DEF NodeInv, After
<1>6. s.height \in 0 .. Len(ch) /\ TxnsOf(ch, s.height) \subseteq Txn
  BY <1>1, NodeTxns
<1>7. Newer(b.txns, TxnsOf(ch, s.height))
  BY <1>3, <1>4, <1>5, <1>6, AfterIsNewer DEF NodeInv
<1>8. Follows(ch, s.height, b)
  BY <1>2, <1>7 DEF Follows
<1>9. b.height \in Height
  <2>1. CASE s.height < Len(ch)
    <3>1. s.height + 1 \in 0 .. Len(ch)
      BY <1>1, <1>6, <2>1
    <3> QED BY <1>1, <1>2, <3>1, TxnsOfChain DEF ChainInv
  <2>2. CASE s.height = Len(ch)
    <3>1. b.txns \subseteq Txn /\ b.failed \subseteq Txn
      BY <1>3, <1>4
    <3>2. PICK t \in b.txns : TRUE
      OBVIOUS
    <3>3. t \notin TxnsOf(ch, Len(ch))
      <4>1. t[2] \in Nat
        BY <3>1, TxnShape
      <4> QED BY <1>7, <2>2, <4>1 DEF Newer
    <3>4. /\ TxnsOf(ch, Len(ch)) \subseteq Txn /\ IsFiniteSet(TxnsOf(ch, Len(ch)))
          /\ Cardinality(TxnsOf(ch, Len(ch))) \in Nat
      BY <1>1, <1>6, <2>2, TxnsOfChain, FS_CardinalityType
    <3>5. Cardinality(TxnsOf(ch, Len(ch)) \cup {t}) = Cardinality(TxnsOf(ch, Len(ch))) + 1
      BY <3>3, <3>4, FS_AddElement
    <3>6. TxnsOf(ch, Len(ch)) \cup {t} \subseteq Txn
      BY <3>1, <3>4
    <3>7. /\ Cardinality(TxnsOf(ch, Len(ch)) \cup {t}) <= Cardinality(Txn)
          /\ Cardinality(Txn) \in Nat
      BY <3>6, TxnAssumption, FS_Subset, FS_CardinalityType
    <3>8. Len(ch) <= Cardinality(TxnsOf(ch, Len(ch)))
      BY DEF ChainInv
    <3>9. s.height + 1 <= Cardinality(Txn) /\ s.height + 1 \in Nat
      BY <1>1, <2>2, <3>4, <3>5, <3>7, <3>8
    <3> QED BY <1>2, <3>7, <3>9 DEF Height
  <2> QED BY <1>1, <1>6, <2>1, <2>2
<1>10. b \in Block
  BY <1>2, <1>3, <1>4, <1>9 DEF Block
<1> QED BY <1>5, <1>8, <1>10

\* Verification opens the block or rolls the open one back.
LEMMA VerifyKeeps ==
  ASSUME NEW ch, NEW n, NEW s, NodeInv(n, s, ch), NEW verdict,
         NEW b \in Block, After(b.txns, s.last_nonce)
  PROVE  /\ NodeInv(n, verify_block(s, b, verdict), ch)
         /\ verify_block(s, b, verdict).mempool = s.mempool
<1> DEFINE t == verify_block(s, b, verdict)
<1>1. s \in NodeState
  BY DEF NodeInv
<1>2. /\ t \in NodeState /\ t.height = s.height /\ t.last_nonce = s.last_nonce
      /\ t.made = s.made /\ t.open \in {b, NoBlock} /\ t.mempool = s.mempool
      /\ t.block_height = s.block_height /\ t.own_blocks = s.own_blocks
  BY <1>1, NoBlockType DEF verify_block, rollback_block, mark_outdated, NodeState
<1>3. Unused(t) = Unused(s)
  BY <1>2 DEF Unused
<1>4. After(NoBlock.txns, s.last_nonce)
  BY DEF After, NoBlock
<1>5. After(t.open.txns, t.last_nonce)
  BY <1>2, <1>4
<1> HIDE DEF t
<1>6. NodeInv(n, t, ch)
  BY <1>2, <1>3, <1>5, ServedStays DEF NodeInv
<1> QED BY <1>2, <1>6 DEF t

\* The transactions that nobody has used and whose nonces are not the next ones.
OldUnused(s) == {x \in Unused(s) : x[2] <= s.last_nonce[x[1]]}

\* After a commit or a state update old transactions leave the mempool.
LEMMA CheckMempoolKeeps ==
  ASSUME NEW ch, NEW n, NEW s \in NodeState, s.height <= Len(ch),
         LastOf(s.last_nonce, TxnsOf(ch, s.height)), After(s.open.txns, s.last_nonce),
         {n} \X (1 .. s.made) \subseteq Txn, Served(s, ch)
  PROVE  /\ NodeInv(n, check_mempool_transactions(s), ch)
         /\ check_mempool_transactions(s).mempool
              = s.mempool \ OldUnused(s)
         /\ check_mempool_transactions(s).height = s.height
         /\ check_mempool_transactions(s).last_nonce = s.last_nonce
<1> DEFINE t == check_mempool_transactions(s)
<1>1. /\ t \in NodeState /\ t.height = s.height /\ t.last_nonce = s.last_nonce
      /\ t.made = s.made /\ t.open = s.open /\ t.block_height = s.block_height
      /\ t.own_blocks = s.own_blocks /\ t.mempool = s.mempool \ OldUnused(s)
  BY DEF OldUnused, check_mempool_transactions, NodeState
<1>2. ASSUME NEW x \in Unused(t)
      PROVE  s.last_nonce[x[1]] < x[2]
  <2>1. x \in Unused(s) /\ ~ (x[2] <= s.last_nonce[x[1]])
    BY <1>1 DEF Unused, OldUnused
  <2>2. x \in Txn
    BY <2>1 DEF Unused, NodeState
  <2>3. x[1] \in Node /\ x[2] \in Nat /\ s.last_nonce[x[1]] \in Nat
    BY <2>2, TxnShape DEF NodeState
  <2> QED BY <2>1, <2>3
<1> HIDE DEF t
<1>3. Served(t, ch)
  <2>1. \A x \in s.mempool : s.block_height[x] # 0 => x \in t.mempool
    BY <1>1 DEF OldUnused, Unused
  <2>2. ASSUME NEW h \in s.own_blocks
        PROVE  /\ h \in 1 .. s.height /\ h # 0
               /\ s.height <= h + 1 => \A x \in ch[h].txns : x \in s.mempool /\ s.block_height[x] = h
    BY DEF Served, NodeState
  <2> QED BY <1>1, <2>1, <2>2 DEF Served
<1>4. NodeInv(n, t, ch)
  BY <1>1, <1>2, <1>3 DEF NodeInv, After
<1> QED BY <1>1, <1>4 DEF t

\* A node commits the next block of the chain.
LEMMA CommitKeeps ==
  ASSUME NEW ch, ChainInv(ch), NEW n, NEW s, NodeInv(n, s, ch),
         s.height < Len(ch), NEW b, b = ch[s.height + 1], b.txns \subseteq s.mempool,
         NEW removed \in SUBSET LongUsed(s, b.height)
  PROVE  NodeInv(n, commit_block(n, s, b, removed), ch)
<1> DEFINE c == Committed(s, b, removed)
           t == check_mempool_transactions(c)
<1>1. ch \in Seq(Block) /\ Len(ch) \in Nat /\ s \in NodeState
  BY DEF ChainInv, NodeInv
<1>2. s.height \in Nat /\ s.height + 1 \in 1 .. Len(ch) /\ b \in Block
  <2>1. s.height \in Nat
    BY <1>1 DEF NodeState, Height
  <2> QED BY <1>1, <2>1
<1>3. Follows(ch, s.height, b) /\ b.height = s.height + 1
  <2>1. Follows(ch, (s.height + 1) - 1, b)
    BY <1>2 DEF ChainInv
  <2>2. (s.height + 1) - 1 = s.height
    BY <1>2
  <2> QED BY <2>1, <2>2 DEF Follows
<1>4. After(b.txns, s.last_nonce)
  BY <1>1, <1>2, <1>3, FollowingIsAfter
<1>5. /\ LastOf(NoncesAfter(s.last_nonce, b.txns), TxnsOf(ch, s.height) \cup b.txns)
      /\ b.txns \subseteq Txn
  <2>1. TxnsOf(ch, s.height) \subseteq Txn /\ b.txns \subseteq Txn
    BY <1>1, <1>2, NodeTxns DEF Block
  <2> QED BY <1>4, <2>1, NoncesAfterIsLast DEF NodeInv
<1>6. TxnsOf(ch, s.height + 1) = TxnsOf(ch, s.height) \cup b.txns
  <2>1. 1 .. s.height + 1 = 1 .. s.height \cup {s.height + 1}
    BY <1>2
  <2> QED BY <2>1 DEF TxnsOf
<1>7. NoncesAfter(s.last_nonce, b.txns) \in [Node -> Nat]
  BY <1>5 DEF LastOf
<1>8. b.height \in Height /\ b.height \in Nat /\ 1 <= b.height
  BY <1>2, <1>3 DEF Block
<1>9. /\ c.height = b.height /\ c.last_nonce = NoncesAfter(s.last_nonce, b.txns)
      /\ c.made = s.made /\ c.open = NoBlock /\ c.mempool = s.mempool \ removed
      /\ c.own_blocks = s.own_blocks \cup {b.height}
      /\ c.block_height = [x \in Txn |-> IF x \in b.txns /\ x \in s.mempool THEN b.height
                                         ELSE IF x \in removed THEN 0 ELSE s.block_height[x]]
  BY <1>1 DEF Committed, NodeState
<1>10. c.block_height \in [Txn -> Height]
  <2>1. 0 \in Height
    BY TxnAssumption, FS_CardinalityType DEF Height
  <2> QED BY <1>1, <1>8, <1>9, <2>1 DEF NodeState
<1>11. c \in NodeState
  BY <1>1, <1>7, <1>8, <1>9, <1>10, NoBlockType DEF Committed, NodeState
<1>12. After(c.open.txns, c.last_nonce)
  BY <1>9 DEF After, NoBlock
<1>13. c.height <= Len(ch) /\ LastOf(c.last_nonce, TxnsOf(ch, c.height))
  <2>1. c.height = s.height + 1 /\ s.height + 1 <= Len(ch)
    BY <1>1, <1>2, <1>3, <1>9
  <2>2. LastOf(c.last_nonce, TxnsOf(ch, s.height + 1))
    BY <1>5, <1>6, <1>9
  <2> HIDE DEF c
  <2> QED BY <2>1, <2>2
<1>14. {n} \X (1 .. c.made) \subseteq Txn
  BY <1>9 DEF NodeInv
<1> HIDE DEF c
<1>15. Served(c, ch)
  <2>1. /\ \A x \in removed : s.block_height[x] \in 1 .. b.height - 2 /\ x \in Txn
        /\ s.block_height \in [Txn -> Height] /\ s.own_blocks \subseteq Height
        /\ s.height \in 0 .. Len(ch) /\ TxnsOf(ch, s.height) \subseteq Txn
    BY <1>1, NodeTxns DEF LongUsed, NodeState
  <2>2. /\ \A x \in Txn : s.block_height[x] # 0 => x \in TxnsOf(ch, s.height)
        /\ \A h \in s.own_blocks :
             /\ h \in 1 .. s.height
             /\ s.height <= h + 1 =>
                  \A x \in ch[h].txns : x \in s.mempool /\ s.block_height[x] = h
    BY DEF NodeInv, Served
  <2>3. ASSUME NEW x \in b.txns
        PROVE  x \notin TxnsOf(ch, s.height)
    <3>1. x[2] \in Nat
      BY <1>5, TxnShape
    <3> QED BY <1>3, <3>1 DEF Follows, Newer
  <2>4. b.txns \cap removed = {}
    <3>1. \A x \in removed : s.block_height[x] # 0
      BY <1>8, <2>1
    <3> QED BY <2>1, <2>2, <2>3, <3>1
  <2>5. ASSUME NEW x \in Txn, c.block_height[x] # 0
        PROVE  x \in TxnsOf(ch, s.height + 1)
    <3>1. x \in b.txns \/ s.block_height[x] # 0
      BY <1>9, <2>5
    <3> QED BY <1>6, <2>2, <3>1
  <2>6. \A x \in ch[b.height].txns : x \in c.mempool /\ c.block_height[x] = b.height
    <3>1. ch[b.height] = b
      BY <1>3
    <3> QED BY <1>5, <1>9, <2>4, <3>1
  <2>7. ASSUME NEW h \in s.own_blocks, b.height <= h + 1, NEW x \in ch[h].txns
        PROVE  x \in c.mempool /\ c.block_height[x] = h
    <3>1. h \in 1 .. s.height /\ h = s.height /\ s.height <= h + 1
      BY <1>2, <1>3, <2>2, <2>7
    <3>2. x \in s.mempool /\ s.block_height[x] = h
      BY <2>2, <2>7, <3>1
    <3>3. x \notin removed
      BY <1>2, <1>3, <2>1, <3>1, <3>2
    <3>4. x \in TxnsOf(ch, s.height) /\ x \in Txn
      BY <2>1, <2>7, <3>1 DEF TxnsOf
    <3> QED BY <1>9, <2>3, <3>2, <3>3, <3>4
  <2>8. \A h \in c.own_blocks : h \in 1 .. c.height
    BY <1>2, <1>3, <1>9, <2>2
  <2> QED BY <1>3, <1>9, <2>5, <2>6, <2>7, <2>8 DEF Served
<1>16. NodeInv(n, t, ch)
  BY <1>11, <1>12, <1>13, <1>14, <1>15, CheckMempoolKeeps
<1>17. commit_block(n, s, b, removed) = start_new_block_timer(n, t)
  BY DEF commit_block, c
<1> HIDE DEF t
<1> QED BY <1>16, <1>17, TimerKeeps

-----------------------------------------------------------------------------
(* The actions *)

\* A handler that changes neither the mempool nor the blocks of a node.
LEMMA SameMempool ==
  ASSUME NEW ch, NEW n, NEW s, NodeInv(n, s, ch), NEW t \in NodeState,
         t.height = s.height, t.last_nonce = s.last_nonce, t.made = s.made,
         t.open \in {s.open, NoBlock}, t.mempool = s.mempool, t.block_height = s.block_height,
         t.own_blocks = s.own_blocks
  PROVE  NodeInv(n, t, ch)
<1>1. Unused(t) = Unused(s)
  BY DEF Unused
<1>2. After(Unused(t), s.last_nonce) /\ {n} \X (1 .. t.made) \subseteq Txn
  BY <1>1 DEF NodeInv
<1>3. Served(t, ch)
  BY ServedStays DEF NodeInv
<1> QED BY <1>2, <1>3, SameNonces

\* One node takes a step and no block is decided.
LEMMA OneMoves ==
  ASSUME MempoolInv, NEW n \in Node, NEW s, NodeInv(n, s, chain),
         Become(n, s),
         chain' = chain, network' = network, faults' \in 0 .. network.max_faults,
         links' \subseteq Node \X Node, chan' \in [Node \X Node -> SUBSET Txn],
         \A b \in blocks' \ blocks : b \in Block /\ Follows(chain, Len(chain), b),
         votes' \subseteq Node \X Block
  PROVE  MempoolInv'
<1>1. node \in [Node -> NodeState] /\ s \in NodeState
  BY DEF MempoolInv, TypeOK, NodeInv
<1>2. node' = [node EXCEPT ![n] = s]
  BY DEF Become
<1>3. /\ node' \in [Node -> NodeState] /\ node'[n] = s
      /\ \A m \in Node \ {n} : node'[m] = node[m]
  BY <1>1, <1>2
<1>4. \A m \in Node : NodeInv(m, node'[m], chain)
  BY <1>3 DEF MempoolInv
<1>5. blocks' \subseteq Block /\ \A b \in blocks' : Follows(chain, Len(chain), b)
  BY DEF MempoolInv, TypeOK
<1>6. TypeOK'
  BY <1>3, <1>5 DEF TypeOK, MempoolInv
<1> QED BY <1>4, <1>5, <1>6 DEF MempoolInv

\* The facts about one node that every proof below uses.
LEMMA NodeFacts ==
  ASSUME MempoolInv, NEW n \in Node
  PROVE  /\ NodeInv(n, node[n], chain) /\ node[n] \in NodeState
         /\ chain \in Seq(Block) /\ Len(chain) \in Nat
         /\ faults \in 0 .. network.max_faults /\ links \subseteq Node \X Node
         /\ chan \in [Node \X Node -> SUBSET Txn] /\ votes \subseteq Node \X Block
BY DEF MempoolInv, TypeOK, ChainInv

\* Messages to the peers of n are transactions.
LEMMA BroadcastType ==
  ASSUME chan \in [Node \X Node -> SUBSET Txn], NEW n, NEW ts \in SUBSET Txn, Broadcast(n, ts)
  PROVE  chan' \in [Node \X Node -> SUBSET Txn]
BY DEF Broadcast

\* The application makes a transaction.
LEMMA NewLocalTransaction ==
  ASSUME MempoolInv, NEW n \in Node, on_new_local_transaction(n)
  PROVE  MempoolInv'
<1> DEFINE s == [node[n] EXCEPT !.made = @ + 1, !.notified = TRUE]
<1>1. NodeInv(n, node[n], chain) /\ node[n] \in NodeState
  BY NodeFacts
<1>2. /\ s \in NodeState /\ s.height = node[n].height /\ s.last_nonce = node[n].last_nonce
      /\ s.open = node[n].open /\ s.mempool = node[n].mempool
      /\ s.block_height = node[n].block_height
      /\ s.own_blocks = node[n].own_blocks /\ s.made = node[n].made + 1
  <2>1. node[n].made + 1 \in Nat
    BY <1>1 DEF NodeState
  <2> DEFINE k == node[n].made + 1
  <2>2. s = [node[n] EXCEPT !.made = k, !.notified = TRUE]
    BY <1>1 DEF NodeState
  <2> HIDE DEF k
  <2>3. k \in Nat
    BY <2>1 DEF k
  <2>4. /\ s \in NodeState /\ s.height = node[n].height /\ s.last_nonce = node[n].last_nonce
        /\ s.open = node[n].open /\ s.mempool = node[n].mempool
        /\ s.block_height = node[n].block_height /\ s.own_blocks = node[n].own_blocks /\ s.made = k
    BY <1>1, <2>2, <2>3 DEF NodeState
  <2> QED BY <2>4 DEF k
<1>3. {n} \X (1 .. s.made) \subseteq Txn
  <2>1. network \in Network /\ network.local[n] \in Nat /\ node[n].made \in Nat
    BY <1>1, NetworkAssumption DEF MempoolInv, TypeOK, NodeState
  <2>2. s.made \in 1 .. network.local[n]
    BY <1>2, <2>1 DEF on_new_local_transaction
  <2>3. {n} \X (1 .. network.local[n]) \subseteq Txn
    <3> DEFINE all == {{p} \X (1 .. v.local[p]) : p \in Node, v \in Network}
    <3>1. {n} \X (1 .. network.local[n]) \in all
      BY <2>1
    <3>2. Txn = UNION all
      BY DEF Txn
    <3> HIDE DEF all
    <3> QED BY <3>1, <3>2
  <2>4. \A k \in 1 .. s.made : k \in 1 .. network.local[n]
    BY <2>1, <2>2
  <2> QED BY <2>3, <2>4
<1>4. Unused(s) = Unused(node[n])
  BY <1>2 DEF Unused
<1>5. Become(n, s) /\ UNCHANGED <<links, chan, blocks, votes, chain, faults, network>>
  BY DEF on_new_local_transaction
<1> HIDE DEF s
<1>6. NodeInv(n, s, chain)
  <2>1. Served(s, chain)
    BY <1>1, <1>2, ServedStays DEF NodeInv
  <2> QED BY <1>1, <1>2, <1>3, <1>4, <2>1 DEF NodeInv
<1> QED BY <1>5, <1>6, NodeFacts, OneMoves

\* The node sends what is in its log.
LEMMA LocalTransaction ==
  ASSUME MempoolInv, NEW n \in Node, on_local_transaction(n)
  PROVE  MempoolInv'
<1> DEFINE s == [node[n] EXCEPT !.notified = FALSE, !.sync_up = "local_changes"]
<1>1. NodeInv(n, node[n], chain) /\ node[n] \in NodeState /\ chain \in Seq(Block)
  BY NodeFacts
<1>2. /\ s \in NodeState /\ s.height = node[n].height /\ s.last_nonce = node[n].last_nonce
      /\ s.open = node[n].open /\ s.mempool = node[n].mempool
      /\ s.block_height = node[n].block_height
      /\ s.own_blocks = node[n].own_blocks /\ s.made = node[n].made
  BY <1>1 DEF NodeState
<1>3. /\ s.sync_down = "in_sync" => /\ Become(n, send_local_transactions(n, s))
                                    /\ Broadcast(n, Sendable(n, s))
      /\ s.sync_down # "in_sync" => Become(n, s) /\ UNCHANGED chan
      /\ UNCHANGED <<links, blocks, votes, chain, faults, network>>
  <2>1. Sendable(n, s) = Sendable(n, node[n])
    BY <1>2 DEF Sendable, Pending
  <2> QED BY <2>1 DEF on_local_transaction
<1> HIDE DEF s
<1>4. NodeInv(n, s, chain)
  BY <1>1, <1>2, SameMempool
<1>5. CASE s.sync_down = "in_sync"
  <2>1. /\ Sendable(n, s) \subseteq Txn /\ NodeInv(n, send_local_transactions(n, s), chain)
        /\ node[n].mempool \subseteq send_local_transactions(n, s).mempool
    BY <1>1, <1>2, <1>4, SendKeeps
  <2>2. chan' \in [Node \X Node -> SUBSET Txn]
    BY <1>3, <1>5, <2>1, NodeFacts, BroadcastType
  <2> QED BY <1>3, <1>5, <2>1, <2>2, NodeFacts, OneMoves
<1>6. CASE s.sync_down # "in_sync"
  BY <1>3, <1>4, <1>6, NodeFacts, OneMoves
<1> QED BY <1>5, <1>6

\* The node sends it again.
LEMMA TransactionsTimer ==
  ASSUME MempoolInv, NEW n \in Node, process_transactions_timer_cb(n)
  PROVE  MempoolInv'
<1> DEFINE t == send_local_transactions(n, node[n])
<1>1. /\ Become(n, t) /\ Broadcast(n, Sendable(n, node[n]))
      /\ UNCHANGED <<links, blocks, votes, chain, faults, network>>
  BY DEF process_transactions_timer_cb
<1> HIDE DEF t
<1>2. /\ Sendable(n, node[n]) \subseteq Txn /\ NodeInv(n, t, chain)
      /\ node[n].mempool \subseteq t.mempool
  BY NodeFacts, SendKeeps DEF t
<1>3. chan' \in [Node \X Node -> SUBSET Txn]
  BY <1>1, <1>2, NodeFacts, BroadcastType
<1> QED BY <1>1, <1>2, <1>3, NodeFacts, OneMoves

\* A transaction arrives.
LEMMA RemoteTransaction ==
  ASSUME MempoolInv, NEW m \in Node, NEW n \in Node, on_new_remote_transaction(m, n)
  PROVE  MempoolInv'
<1>1. PICK x \in chan[<<m, n>>] :
        /\ chan' = [chan EXCEPT ![<<m, n>>] = @ \ {x}]
        /\ Become(n, process_new_transactions(n, [node[n] EXCEPT !.requested = @ \ {x}], {x},
                                              x \in node[n].requested))
        /\ UNCHANGED <<links, blocks, votes, chain, faults, network>>
  BY DEF on_new_remote_transaction
<1> DEFINE s == [node[n] EXCEPT !.requested = @ \ {x}]
           t == process_new_transactions(n, s, {x}, x \in node[n].requested)
<1>2. Become(n, t)
  BY <1>1
<1>3. NodeInv(n, node[n], chain) /\ node[n] \in NodeState /\ chain \in Seq(Block)
  BY NodeFacts
<1>4. /\ s \in NodeState /\ s.height = node[n].height /\ s.last_nonce = node[n].last_nonce
      /\ s.open = node[n].open /\ s.mempool = node[n].mempool
      /\ s.block_height = node[n].block_height
      /\ s.own_blocks = node[n].own_blocks /\ s.made = node[n].made
  BY <1>3 DEF NodeState
<1>5. {x} \subseteq Txn /\ chan' \in [Node \X Node -> SUBSET Txn]
  BY <1>1, NodeFacts
<1> HIDE DEF s
<1>6. NodeInv(n, s, chain)
  BY <1>3, <1>4, SameMempool
<1>7. NodeInv(n, t, chain) /\ s.mempool \subseteq t.mempool
  BY <1>3, <1>5, <1>6, TransactionsKeep
<1> HIDE DEF t
<1> QED BY <1>1, <1>2, <1>5, <1>7, NodeFacts, OneMoves

\* The blocks that a node may verify are blocks that follow those it has.
LEMMA NextFollows ==
  ASSUME MempoolInv, NEW n \in Node, NEW b \in NextBlocks(n)
  PROVE  /\ b \in Block /\ Follows(chain, node[n].height, b) /\ After(b.txns, node[n].last_nonce)
         /\ b \in blocks => node[n].height = Len(chain)
         /\ b \notin blocks => node[n].height < Len(chain) /\ b = chain[node[n].height + 1]
<1>1. /\ chain \in Seq(Block) /\ Len(chain) \in Nat /\ NodeInv(n, node[n], chain)
      /\ node[n].height \in Nat /\ node[n].height <= Len(chain)
  BY NodeFacts, NodeTxns
<1>2. IsNext(n, b)
  BY DEF NextBlocks
<1>3. CASE b \in blocks
  <2>1. b \in Block /\ Follows(chain, Len(chain), b)
    BY <1>3 DEF MempoolInv, TypeOK
  <2>2. node[n].height = Len(chain)
    BY <1>1, <1>2, <2>1 DEF IsNext, Follows
  <2>3. Follows(chain, node[n].height, b)
    BY <2>1, <2>2
  <2> QED BY <1>1, <1>3, <2>1, <2>2, <2>3, FollowingIsAfter
<1>4. CASE b \notin blocks
  <2>1. b.height = node[n].height + 1 /\ b.height <= Len(chain) /\ b = chain[b.height]
    BY <1>2, <1>4 DEF IsNext
  <2>2. node[n].height + 1 \in 1 .. Len(chain)
    BY <1>1, <2>1
  <2>3. b \in Block /\ b = chain[node[n].height + 1]
    BY <1>1, <2>1, <2>2
  <2>4. Follows(chain, (node[n].height + 1) - 1, b)
    BY <2>2, <2>3 DEF MempoolInv, ChainInv
  <2>5. (node[n].height + 1) - 1 = node[n].height /\ node[n].height < Len(chain)
    BY <1>1, <2>2
  <2>6. Follows(chain, node[n].height, b)
    BY <2>4, <2>5
  <2> QED BY <1>1, <1>4, <2>3, <2>5, <2>6, FollowingIsAfter
<1> QED BY <1>3, <1>4

\* A node asks for a transaction of a block.
LEMMA GetTransaction ==
  ASSUME MempoolInv, NEW m \in Node, NEW n \in Node, on_get_transaction(m, n)
  PROVE  MempoolInv'
<1>1. PICK b \in NextBlocks(n) : \E x \in (b.txns \ node[n].mempool) \cap Stored(m) :
        /\ chan' = [chan EXCEPT ![<<m, n>>] = @ \cup {x}]
        /\ Become(n, [node[n] EXCEPT !.requested = @ \cup {x}])
  BY DEF on_get_transaction
<1>2. PICK x \in b.txns :
        /\ chan' = [chan EXCEPT ![<<m, n>>] = @ \cup {x}]
        /\ Become(n, [node[n] EXCEPT !.requested = @ \cup {x}])
  BY <1>1
<1> DEFINE s == [node[n] EXCEPT !.requested = @ \cup {x}]
<1>3. x \in Txn
  BY NextFollows DEF Block
<1>4. NodeInv(n, node[n], chain) /\ node[n] \in NodeState
  BY NodeFacts
<1>5. /\ s \in NodeState /\ s.height = node[n].height /\ s.last_nonce = node[n].last_nonce
      /\ s.open = node[n].open /\ s.mempool = node[n].mempool
      /\ s.block_height = node[n].block_height
      /\ s.own_blocks = node[n].own_blocks /\ s.made = node[n].made
  BY <1>3, <1>4 DEF NodeState
<1>6. Become(n, s)
  BY <1>2
<1> HIDE DEF s
<1>7. NodeInv(n, s, chain)
  BY <1>4, <1>5, SameMempool
<1>8. chan' \in [Node \X Node -> SUBSET Txn]
  BY <1>2, <1>3, NodeFacts
<1>9. UNCHANGED <<links, blocks, votes, chain, faults, network>>
  BY DEF on_get_transaction
<1> QED BY <1>6, <1>7, <1>8, <1>9, NodeFacts, OneMoves

\* The timer of the next block: the node may propose a block.
LEMMA NewBlockTimer ==
  ASSUME MempoolInv, NEW n \in Node, new_block_timer_cb(n)
  PROVE  MempoolInv'
<1> DEFINE s == rollback_block([node[n] EXCEPT !.new_block_timer = FALSE])
<1>1. NodeInv(n, node[n], chain) /\ node[n] \in NodeState /\ ChainInv(chain)
  BY NodeFacts DEF MempoolInv
<1>2. /\ s \in NodeState /\ s.height = node[n].height /\ s.last_nonce = node[n].last_nonce
      /\ s.open = NoBlock /\ s.mempool = node[n].mempool
      /\ s.block_height = node[n].block_height
      /\ s.own_blocks = node[n].own_blocks /\ s.made = node[n].made
  BY <1>1, NoBlockType DEF rollback_block, NodeState
<1>3. UNCHANGED <<links, chan, votes, chain, faults, network>>
  BY DEF new_block_timer_cb
<1>4. \/ Become(n, s) /\ UNCHANGED blocks
      \/ \E env \in Outcomes(InOrder(s)) :
           LET b == create_block(s, env) IN
           IF b.txns = {}
           THEN Become(n, [s EXCEPT !.new_block_timer = TRUE]) /\ UNCHANGED blocks
           ELSE /\ Become(n, [s EXCEPT !.open = b, !.created = TRUE])
                /\ blocks' = IF b.height = Len(chain) + 1 THEN blocks \cup {b} ELSE blocks
  BY DEF new_block_timer_cb
<1> HIDE DEF s
<1>5. NodeInv(n, s, chain)
  BY <1>1, <1>2, SameMempool
<1>6. CASE Become(n, s) /\ UNCHANGED blocks
  BY <1>3, <1>5, <1>6, NodeFacts, OneMoves
<1>7. ASSUME NEW env \in Outcomes(InOrder(s)), create_block(s, env).txns = {},
             Become(n, [s EXCEPT !.new_block_timer = TRUE]), UNCHANGED blocks
      PROVE  MempoolInv'
  <2> DEFINE t == [s EXCEPT !.new_block_timer = TRUE]
  <2>1. /\ t \in NodeState /\ t.height = s.height /\ t.last_nonce = s.last_nonce
        /\ t.open = s.open /\ t.mempool = s.mempool
        /\ t.block_height = s.block_height /\ t.own_blocks = s.own_blocks /\ t.made = s.made
    BY <1>2 DEF NodeState
  <2>2. Become(n, t)
    BY <1>7
  <2> HIDE DEF t
  <2>3. NodeInv(n, t, chain)
    BY <1>2, <1>5, <2>1, SameMempool
  <2> QED BY <1>3, <1>7, <2>2, <2>3, NodeFacts, OneMoves
<1>8. ASSUME NEW env \in Outcomes(InOrder(s)), NEW b, b = create_block(s, env), b.txns # {},
             Become(n, [s EXCEPT !.open = b, !.created = TRUE]),
             blocks' = IF b.height = Len(chain) + 1 THEN blocks \cup {b} ELSE blocks
      PROVE  MempoolInv'
  <2> DEFINE t == [s EXCEPT !.open = b, !.created = TRUE]
  <2>1. b \in Block /\ Follows(chain, s.height, b) /\ After(b.txns, s.last_nonce)
    BY <1>1, <1>5, <1>8, CreatedFollows
  <2>2. /\ t \in NodeState /\ t.height = s.height /\ t.last_nonce = s.last_nonce
        /\ t.open = b /\ t.mempool = s.mempool
        /\ t.block_height = s.block_height /\ t.own_blocks = s.own_blocks /\ t.made = s.made
    BY <1>2, <2>1 DEF NodeState
  <2>3. Become(n, t)
    BY <1>8
  <2> HIDE DEF t
  <2>4. Unused(t) = Unused(s)
    BY <2>2 DEF Unused
  <2>5. NodeInv(n, t, chain)
    <3>1. Served(t, chain)
      BY <1>5, <2>2, ServedStays DEF NodeInv
    <3> QED BY <1>5, <2>1, <2>2, <2>4, <3>1 DEF NodeInv
  <2>6. ASSUME b.height = Len(chain) + 1
        PROVE  Follows(chain, Len(chain), b)
    <3>1. s.height = Len(chain)
      <4>1. s.height + 1 = Len(chain) + 1 /\ s.height \in Nat /\ Len(chain) \in Nat
        BY <1>5, <2>1, <2>6, NodeFacts, NodeTxns DEF Follows
      <4> QED BY <4>1
    <3> QED BY <2>1, <3>1
  <2>7. \A c \in blocks' \ blocks : c \in Block /\ Follows(chain, Len(chain), c)
    BY <1>8, <2>1, <2>6
  <2> QED BY <1>3, <2>3, <2>5, <2>7, NodeFacts, OneMoves
<1> QED BY <1>4, <1>6, <1>7, <1>8

\* The node executes a block and votes for it.
LEMMA ChooseBlock ==
  ASSUME MempoolInv, NEW n \in Node, choose_block_to_vote(n)
  PROVE  MempoolInv'
<1>1. PICK c \in NextBlocks(n) :
        /\ \E verdict \in VerdictsAt(n, c), running \in {FALSE, node[n].new_block_timer} :
             /\ Become(n, verify_block([node[n] EXCEPT !.new_block_timer = running], c, verdict))
             /\ votes' = IF verdict \in {"ok", "differs"} THEN votes \cup {<<n, c>>} ELSE votes
        /\ UNCHANGED <<links, chan, blocks, chain, faults, network>>
  BY DEF choose_block_to_vote
<1>2. PICK verdict \in VerdictsAt(n, c), running \in {FALSE, node[n].new_block_timer} :
        /\ Become(n, verify_block([node[n] EXCEPT !.new_block_timer = running], c, verdict))
        /\ votes' = IF verdict \in {"ok", "differs"} THEN votes \cup {<<n, c>>} ELSE votes
  BY <1>1
<1> DEFINE s == [node[n] EXCEPT !.new_block_timer = running]
           t == verify_block(s, c, verdict)
<1>3. NodeInv(n, node[n], chain) /\ node[n] \in NodeState
  BY NodeFacts
<1>4. c \in Block /\ After(c.txns, node[n].last_nonce)
  BY NextFollows
<1>5. /\ s \in NodeState /\ s.height = node[n].height /\ s.last_nonce = node[n].last_nonce
      /\ s.open = node[n].open /\ s.mempool = node[n].mempool
      /\ s.block_height = node[n].block_height
      /\ s.own_blocks = node[n].own_blocks /\ s.made = node[n].made
  <2>1. running \in BOOLEAN
    BY <1>3 DEF NodeState
  <2> QED BY <1>3, <2>1 DEF NodeState
<1>6. Become(n, t)
  BY <1>2
<1> HIDE DEF s
<1>7. NodeInv(n, s, chain)
  BY <1>3, <1>5, SameMempool
<1>8. NodeInv(n, t, chain) /\ t.mempool = s.mempool
  BY <1>4, <1>5, <1>7, VerifyKeeps
<1> HIDE DEF t
<1>9. votes' \subseteq Node \X Block
  BY <1>2, <1>4, NodeFacts
<1> QED BY <1>1, <1>6, <1>8, <1>9, NodeFacts, OneMoves

\* A block with a majority is committed, and becomes the next of the chain when
\* this node is the first.
LEMMA WinnerBlock ==
  ASSUME MempoolInv, NEW n \in Node, check_for_winner_block(n)
  PROVE  MempoolInv'
<1>1. PICK b \in NextBlocks(n) :
     /\ b.txns \subseteq node[n].mempool
     /\ \/ /\ \E removed \in Removable(node[n], b) : Become(n, commit_block(n, node[n], b, removed))
           /\ chain' = IF b \in blocks THEN Append(chain, b) ELSE chain
           /\ blocks' = IF b \in blocks THEN {} ELSE blocks
           /\ votes' = IF b \in blocks THEN {} ELSE votes
        \/ /\ \E verdict \in VerdictsAt(n, b) \ {"ok"} : Become(n, verify_block(node[n], b, verdict))
           /\ UNCHANGED <<blocks, votes, chain>>
  BY DEF check_for_winner_block
<1>2. UNCHANGED <<links, chan, faults, network>>
  BY DEF check_for_winner_block
<1>3. /\ NodeInv(n, node[n], chain) /\ node[n] \in NodeState /\ ChainInv(chain)
      /\ chain \in Seq(Block) /\ Len(chain) \in Nat
  BY NodeFacts DEF MempoolInv
<1>4. /\ b \in Block /\ Follows(chain, node[n].height, b) /\ After(b.txns, node[n].last_nonce)
      /\ b \in blocks => node[n].height = Len(chain)
      /\ b \notin blocks => node[n].height < Len(chain) /\ b = chain[node[n].height + 1]
  BY NextFollows
<1>5. ASSUME NEW removed \in Removable(node[n], b)
      PROVE  removed \in SUBSET LongUsed(node[n], b.height)
  BY <1>5 DEF Removable, kSubset
<1>6. ASSUME NEW removed \in Removable(node[n], b), Become(n, commit_block(n, node[n], b, removed)),
             b \notin blocks, UNCHANGED <<blocks, votes, chain>>
      PROVE  MempoolInv'
  <2>1. NodeInv(n, commit_block(n, node[n], b, removed), chain)
    BY <1>1, <1>3, <1>4, <1>5, <1>6, CommitKeeps
  <2> QED BY <1>2, <1>6, <2>1, NodeFacts, OneMoves
<1>7. ASSUME NEW removed \in Removable(node[n], b), Become(n, commit_block(n, node[n], b, removed)),
             b \in blocks, chain' = Append(chain, b), blocks' = {}, votes' = {}
      PROVE  MempoolInv'
  <2> DEFINE t == commit_block(n, node[n], b, removed)
             new == Append(chain, b)
  <2>1. ChainInv(new) /\ Len(new) = Len(chain) + 1 /\ new[Len(chain) + 1] = b
    <3>1. Follows(chain, Len(chain), b)
      BY <1>4, <1>7
    <3> QED BY <1>3, <1>4, <3>1, ChainGrows
  <2>2. \A m \in Node : NodeInv(m, node[m], new)
    BY <1>3, <1>4, NodeInvGrows DEF MempoolInv
  <2>3. node[n].height < Len(new) /\ b = new[node[n].height + 1]
    BY <1>3, <1>4, <1>7, <2>1
  <2>4. Become(n, t)
    BY <1>7
  <2> HIDE DEF new
  <2>5. NodeInv(n, t, new)
    BY <1>1, <1>5, <2>1, <2>2, <2>3, CommitKeeps
  <2> HIDE DEF t
  <2>6. node \in [Node -> NodeState] /\ t \in NodeState
    BY <2>5 DEF MempoolInv, TypeOK, NodeInv
  <2>7. /\ node' \in [Node -> NodeState] /\ node'[n] = t
        /\ \A m \in Node \ {n} : node'[m] = node[m]
    BY <2>4, <2>6 DEF Become
  <2>8. \A m \in Node : NodeInv(m, node'[m], new)
    BY <2>2, <2>5, <2>7
  <2>9. chain' = new
    BY <1>7 DEF new
  <2>10. TypeOK'
    BY <1>2, <1>7, <2>1, <2>7, <2>9 DEF TypeOK, MempoolInv, ChainInv
  <2>11. MempoolInv'
    BY <1>7, <2>1, <2>8, <2>9, <2>10 DEF MempoolInv
  <2> QED BY <2>11
<1>8. ASSUME NEW verdict, Become(n, verify_block(node[n], b, verdict)),
             UNCHANGED <<blocks, votes, chain>>
      PROVE  MempoolInv'
  <2> DEFINE t == verify_block(node[n], b, verdict)
  <2>1. NodeInv(n, t, chain) /\ t.mempool = node[n].mempool
    BY <1>3, <1>4, VerifyKeeps
  <2>2. Become(n, t)
    BY <1>8
  <2> HIDE DEF t
  <2> QED BY <1>2, <1>8, <2>1, <2>2, NodeFacts, OneMoves
<1> QED BY <1>1, <1>6, <1>7, <1>8

\* A proposal of a later height arrives.
LEMMA FutureBlock ==
  ASSUME MempoolInv, NEW n \in Node, on_future_block(n)
  PROVE  MempoolInv'
<1> DEFINE s == mark_outdated(node[n])
<1>1. NodeInv(n, node[n], chain) /\ node[n] \in NodeState
  BY NodeFacts
<1>2. /\ s \in NodeState /\ s.height = node[n].height /\ s.last_nonce = node[n].last_nonce
      /\ s.open = node[n].open /\ s.mempool = node[n].mempool
      /\ s.block_height = node[n].block_height
      /\ s.own_blocks = node[n].own_blocks /\ s.made = node[n].made
  BY <1>1 DEF mark_outdated, NodeState
<1>3. Become(n, s) /\ UNCHANGED <<links, chan, blocks, votes, chain, faults, network>>
  BY DEF on_future_block
<1> HIDE DEF s
<1>4. NodeInv(n, s, chain)
  BY <1>1, <1>2, SameMempool
<1> QED BY <1>3, <1>4, NodeFacts, OneMoves

\* A node takes over the state of a peer.
LEMMA ApplyStateUpdate ==
  ASSUME MempoolInv, NEW m \in Node, NEW n \in Node, on_apply_state_update(m, n)
  PROVE  MempoolInv'
<1> DEFINE s == [node[n] EXCEPT !.sync_down = "in_sync"]
           u == [rollback_block(s) EXCEPT !.height = node[m].height, !.created = FALSE,
                                          !.last_nonce = node[m].last_nonce]
           t == check_mempool_transactions(u)
<1>1. /\ NodeInv(n, node[n], chain) /\ node[n] \in NodeState
      /\ NodeInv(m, node[m], chain) /\ node[m] \in NodeState
  BY NodeFacts
<1>2. /\ s \in NodeState /\ s.height = node[n].height /\ s.last_nonce = node[n].last_nonce
      /\ s.open = node[n].open /\ s.mempool = node[n].mempool
      /\ s.block_height = node[n].block_height
      /\ s.own_blocks = node[n].own_blocks /\ s.made = node[n].made
  BY <1>1 DEF NodeState
<1>3. /\ u \in NodeState /\ u.height = node[m].height /\ u.last_nonce = node[m].last_nonce
      /\ u.open = NoBlock /\ u.mempool = node[n].mempool
      /\ u.block_height = node[n].block_height
      /\ u.own_blocks = node[n].own_blocks /\ u.made = node[n].made
  <2>1. node[m].height \in Height /\ node[m].last_nonce \in [Node -> Nat]
    BY <1>1 DEF NodeState
  <2> QED BY <1>1, <2>1, NoBlockType DEF rollback_block, NodeState
<1>4. Become(n, s) \/ (Become(n, t) /\ node[m].height > node[n].height)
  BY <1>2 DEF on_apply_state_update
<1>5. UNCHANGED <<links, chan, blocks, votes, chain, faults, network>>
  BY DEF on_apply_state_update
<1> HIDE DEF s, u
<1>6. NodeInv(n, s, chain)
  BY <1>1, <1>2, SameMempool
<1>7. After(u.open.txns, u.last_nonce)
  BY <1>3 DEF After, NoBlock
<1>8. ASSUME node[m].height > node[n].height
      PROVE  Served(u, chain)
  <2>1. /\ node[m].height \in 0 .. Len(chain) /\ node[n].height \in 0 .. Len(chain)
        /\ Len(chain) \in Nat
    BY <1>1, NodeFacts, NodeTxns
  <2>2. TxnsOf(chain, node[n].height) \subseteq TxnsOf(chain, node[m].height)
    <3>1. \A h \in 1 .. node[n].height : h \in 1 .. node[m].height
      BY <1>8, <2>1
    <3> QED BY <3>1 DEF TxnsOf
  <2>3. ASSUME NEW h \in node[n].own_blocks
        PROVE  /\ h \in 1 .. node[m].height
               /\ node[m].height <= h + 1 => node[n].height <= h + 1
    <3>1. h \in 1 .. node[n].height
      BY <1>1 DEF NodeInv, Served
    <3> QED BY <1>8, <2>1, <3>1
  <2>4. Served(node[n], chain)
    BY <1>1 DEF NodeInv
  <2> QED BY <1>3, <2>2, <2>3, <2>4 DEF Served
<1>9. /\ u.height <= Len(chain) /\ LastOf(u.last_nonce, TxnsOf(chain, u.height))
      /\ {n} \X (1 .. u.made) \subseteq Txn
  BY <1>1, <1>3 DEF NodeInv
<1> HIDE DEF t
<1>10. CASE Become(n, s)
  BY <1>5, <1>6, <1>10, NodeFacts, OneMoves
<1>11. CASE Become(n, t) /\ node[m].height > node[n].height
  <2>1. u \in NodeState
    BY <1>3
  <2>2. NodeInv(n, t, chain)
    BY <1>7, <1>8, <1>9, <1>11, <2>1, CheckMempoolKeeps DEF t
  <2> QED BY <1>5, <1>11, <2>2, NodeFacts, OneMoves
<1> QED BY <1>4, <1>10, <1>11

\* The number of faults stays within its bound.
LEMMA OneFaultMore ==
  ASSUME MempoolInv, faults < network.max_faults, faults' = faults + 1
  PROVE  faults' \in 0 .. network.max_faults
<1>1. network.max_faults \in Nat /\ faults \in 0 .. network.max_faults
  BY NetworkAssumption DEF MempoolInv, TypeOK
<1> QED BY <1>1

\* The connection of two nodes is lost.
LEMMA ConnectionDropped ==
  ASSUME MempoolInv, NEW m \in Node, NEW n \in Node, connection_dropped(m, n)
  PROVE  MempoolInv'
<1>1. /\ UNCHANGED <<network, node, blocks, votes, chain>> /\ links' \subseteq links
      /\ faults' \in 0 .. network.max_faults
  BY OneFaultMore DEF connection_dropped
<1>2. chan' \in [Node \X Node -> SUBSET Txn]
  BY NodeFacts DEF connection_dropped
<1>3. TypeOK'
  BY <1>1, <1>2 DEF MempoolInv, TypeOK
<1>4. MempoolInv'
  BY <1>1, <1>3 DEF MempoolInv
<1> QED BY <1>4

\* Two nodes connect and send each other their mempools.
LEMMA NewAcceptedNode ==
  ASSUME MempoolInv, NEW m \in Node, NEW n \in Node, on_new_accepted_node(m, n)
  PROVE  MempoolInv'
<1>1. /\ UNCHANGED <<blocks, votes, chain, faults, network>>
      /\ links' = links \cup Pair(m, n)
      /\ chan' = [chan EXCEPT ![<<m, n>>] = node[m].mempool, ![<<n, m>>] = node[n].mempool]
      /\ node' = [p \in Node |-> node'[p]]
      /\ \A p \in Node : \E v \in BOOLEAN :
           node'[p] \in {node[p], [node[p] EXCEPT !.new_block_timer = v]}
  <2>1. \A p \in Node : node[p].new_block_timer \in BOOLEAN
    BY NodeFacts DEF NodeState
  <2> QED BY <2>1 DEF on_new_accepted_node
<1>2. ASSUME NEW p \in Node
      PROVE  NodeInv(p, node'[p], chain)
  <2>1. PICK v \in BOOLEAN : node'[p] \in {node[p], [node[p] EXCEPT !.new_block_timer = v]}
    BY <1>1
  <2> DEFINE t == node'[p]
  <2>2. NodeInv(p, node[p], chain) /\ node[p] \in NodeState
    BY NodeFacts
  <2>3. /\ t \in NodeState /\ t.height = node[p].height /\ t.last_nonce = node[p].last_nonce
        /\ t.open = node[p].open /\ t.mempool = node[p].mempool
        /\ t.block_height = node[p].block_height
        /\ t.own_blocks = node[p].own_blocks /\ t.made = node[p].made
    BY <2>1, <2>2 DEF NodeState
  <2> HIDE DEF t
  <2>4. NodeInv(p, t, chain)
    BY <2>2, <2>3, SameMempool
  <2> QED BY <2>4 DEF t
<1>3. node[m].mempool \subseteq Txn /\ node[n].mempool \subseteq Txn
  BY NodeFacts DEF NodeState
<1>4. chan' \in [Node \X Node -> SUBSET Txn]
  BY <1>1, <1>3, NodeFacts
<1>5. links' \subseteq Node \X Node
  BY <1>1, NodeFacts DEF Pair
<1>6. node' \in [Node -> NodeState]
  BY <1>1, <1>2 DEF NodeInv
<1>7. TypeOK'
  BY <1>1, <1>4, <1>5, <1>6 DEF MempoolInv, TypeOK
<1>8. MempoolInv'
  BY <1>1, <1>2, <1>7 DEF MempoolInv
<1> QED BY <1>8

\* A node crashes and starts again.
LEMMA NodeRestarts ==
  ASSUME MempoolInv, NEW n \in Node, plugin_init(n)
  PROVE  MempoolInv'
<1> DEFINE s == Started(node[n].height, node[n].last_nonce, node[n].made)
<1>1. NodeInv(n, node[n], chain) /\ node[n] \in NodeState
  BY NodeFacts
<1>2. [t \in Txn |-> 0] \in [Txn -> Height]
  BY TxnAssumption, FS_CardinalityType DEF Height
<1>3. /\ s \in NodeState /\ s.height = node[n].height /\ s.last_nonce = node[n].last_nonce
      /\ s.open = NoBlock /\ s.made = node[n].made /\ s.mempool = {} /\ s.own_blocks = {}
      /\ s.block_height = [t \in Txn |-> 0]
  BY <1>1, <1>2, NoBlockType DEF Started, NodeState
<1>4. /\ Become(n, s) /\ links' \subseteq links
      /\ UNCHANGED <<network, blocks, votes, chain>> /\ faults' \in 0 .. network.max_faults
  BY OneFaultMore DEF plugin_init
<1>5. chan' \in [Node \X Node -> SUBSET Txn]
  BY NodeFacts DEF plugin_init
<1> HIDE DEF s
<1>6. NodeInv(n, s, chain)
  <2>1. After(Unused(s), node[n].last_nonce)
    BY <1>3 DEF After, Unused
  <2>2. {n} \X (1 .. s.made) \subseteq Txn
    BY <1>1, <1>3 DEF NodeInv
  <2>3. Served(s, chain)
    BY <1>3 DEF Served
  <2> QED BY <1>1, <1>3, <2>1, <2>2, <2>3, SameNonces
<1> QED BY <1>3, <1>4, <1>5, <1>6, NodeFacts, OneMoves

-----------------------------------------------------------------------------
(* The first blocks *)

\* The first blocks have different transactions, those of a node in order.
LEMMA ExecutedInOrder ==
  /\ Len(Executed) \in Nat /\ DOMAIN Executed = 1 .. Len(Executed)
  /\ \A h \in 1 .. Len(Executed) : Executed[h] \in Txn
  /\ \A h \in 1 .. Len(Executed) : \A g \in 1 .. h - 1 :
       Executed[g][1] = Executed[h][1] => Executed[g][2] < Executed[h][2]
<1>1. /\ Len(Executed) \in Nat /\ DOMAIN Executed = 1 .. Len(Executed)
      /\ \A h \in 1 .. Len(Executed) : Executed[h] \in Txn
  BY TxnAssumption, LenProperties
<1>2. ASSUME NEW h \in 1 .. Len(Executed), NEW g \in 1 .. h - 1, Executed[g][1] = Executed[h][1]
      PROVE  Executed[g][2] < Executed[h][2]
  <2>1. Executed[g][2] \in {Executed[i][2] : i \in {j \in 1 .. h - 1 : Executed[j][1] = Executed[h][1]}}
    BY <1>2
  <2>2. Executed[g][2] \in 1 .. Executed[h][2] - 1
    BY <1>1, <2>1, TxnAssumption
  <2>3. Executed[h][2] \in Nat
    BY <1>1, TxnShape
  <2> QED BY <2>2, <2>3
<1> QED BY <1>1, <1>2

\* There are as many transactions in the first blocks as there are blocks.
LEMMA ExecutedCount ==
  /\ Len(Executed) <= Cardinality(Range(Executed))
  /\ Range(Executed) \subseteq Txn /\ Len(Executed) \in Height
<1>1. /\ Len(Executed) \in Nat /\ DOMAIN Executed = 1 .. Len(Executed)
      /\ \A h \in 1 .. Len(Executed) : Executed[h] \in Txn
  BY ExecutedInOrder
<1>2. Range(Executed) \subseteq Txn
  BY <1>1 DEF Range
<1>3. \A g, h \in 1 .. Len(Executed) : Executed[g] = Executed[h] => g = h
  <2>1. ASSUME NEW h \in 1 .. Len(Executed), NEW g \in 1 .. h - 1
        PROVE  Executed[g] # Executed[h]
    <3>1. Executed[h][2] \in Nat
      BY <1>1, TxnShape
    <3>2. Executed[g][1] = Executed[h][1] => Executed[g][2] < Executed[h][2]
      BY ExecutedInOrder
    <3> QED BY <3>1, <3>2
  <2>2. \A g, h \in 1 .. Len(Executed) : g = h \/ g \in 1 .. h - 1 \/ h \in 1 .. g - 1
    BY <1>1
  <2> QED BY <2>1, <2>2
<1>4. Executed \in Injection(1 .. Len(Executed), Range(Executed))
  <2>1. Executed \in [1 .. Len(Executed) -> Range(Executed)]
    <3>1. Executed \in [1 .. Len(Executed) -> Txn]
      BY TxnAssumption, LenProperties
    <3> QED BY <1>1, <3>1 DEF Range
  <2> QED BY <1>1, <1>3, <2>1 DEF Injection, IsInjective
<1>5. IsFiniteSet(Range(Executed)) /\ Cardinality(Range(Executed)) <= Cardinality(Txn)
  BY <1>2, TxnAssumption, FS_Subset
<1>6. Cardinality(1 .. Len(Executed)) <= Cardinality(Range(Executed))
  BY <1>4, <1>5, FS_Injection
<1>7. Cardinality(1 .. Len(Executed)) = Len(Executed)
  BY <1>1, FS_Interval
<1>8. Cardinality(Range(Executed)) \in Nat /\ Cardinality(Txn) \in Nat
  BY <1>5, TxnAssumption, FS_CardinalityType
<1> QED BY <1>1, <1>2, <1>5, <1>6, <1>7, <1>8 DEF Height

\* The first blocks are a chain.
LEMMA FirstChain ==
  /\ ChainInv(FirstBlocks) /\ Len(FirstBlocks) = Len(Executed)
  /\ TxnsOf(FirstBlocks, Len(Executed)) = Range(Executed)
  /\ \A h \in 1 .. Len(Executed) :
       FirstBlocks[h].txns = {Executed[h]} /\ FirstBlocks[h].failed = {Executed[h]} \cap Rejected
<1> DEFINE N == Len(Executed)
<1>1. /\ N \in Nat /\ DOMAIN Executed = 1 .. N /\ N \in Height
      /\ \A h \in 1 .. N : Executed[h] \in Txn
  BY ExecutedInOrder, ExecutedCount
<1> HIDE DEF N
<1>2. \A h \in 1 .. N : h \in Height
  <2>1. Cardinality(Txn) \in Nat /\ N <= Cardinality(Txn)
    BY <1>1, TxnAssumption, FS_CardinalityType DEF Height
  <2> QED BY <1>1, <2>1 DEF Height
<1>3. \A h \in 1 .. N :
        /\ FirstBlocks[h] \in Block /\ FirstBlocks[h].height = h
        /\ FirstBlocks[h].txns = {Executed[h]} /\ FirstBlocks[h].failed = {Executed[h]} \cap Rejected
  BY <1>1, <1>2 DEF FirstBlocks, Block
<1>4. FirstBlocks \in [1 .. N -> Block]
  <2>1. FirstBlocks = [h \in 1 .. N |-> FirstBlocks[h]]
    BY <1>1 DEF FirstBlocks
  <2> QED BY <1>3, <2>1
<1>5. FirstBlocks \in Seq(Block) /\ Len(FirstBlocks) = N
  <2>1. FirstBlocks \in Seq(Block)
    BY <1>1, <1>4, SeqDef
  <2>2. DOMAIN FirstBlocks = 1 .. N /\ DOMAIN FirstBlocks = 1 .. Len(FirstBlocks)
        /\ Len(FirstBlocks) \in Nat
    BY <1>4, <2>1, LenProperties
  <2> QED BY <1>1, <2>1, <2>2
<1>6. \A h \in 0 .. N : TxnsOf(FirstBlocks, h) = {Executed[g] : g \in 1 .. h}
  <2> SUFFICES ASSUME NEW h \in 0 .. N
               PROVE  TxnsOf(FirstBlocks, h) = {Executed[g] : g \in 1 .. h}
    OBVIOUS
  <2>1. \A g \in 1 .. h : FirstBlocks[g].txns = {Executed[g]}
    BY <1>1, <1>3
  <2> QED BY <2>1 DEF TxnsOf
<1>7. TxnsOf(FirstBlocks, N) = Range(Executed)
  <2>1. TxnsOf(FirstBlocks, N) = {Executed[g] : g \in 1 .. N}
    BY <1>1, <1>6
  <2> QED BY <1>1, <2>1 DEF Range
<1>8. ASSUME NEW h \in 1 .. N
      PROVE  Follows(FirstBlocks, h - 1, FirstBlocks[h])
  <2>1. h - 1 \in 0 .. N /\ (h - 1) + 1 = h
    BY <1>1
  <2>2. TxnsOf(FirstBlocks, h - 1) = {Executed[g] : g \in 1 .. h - 1}
    BY <1>6, <2>1
  <2>3. ASSUME NEW t \in FirstBlocks[h].txns, NEW u \in TxnsOf(FirstBlocks, h - 1), t[1] = u[1]
        PROVE  u[2] < t[2]
    <3>1. t = Executed[h]
      BY <1>3, <2>3
    <3>2. PICK g \in 1 .. h - 1 : u = Executed[g]
      BY <2>2, <2>3
    <3> QED BY <2>3, <3>1, <3>2, ExecutedInOrder DEF N
  <2>4. Newer(FirstBlocks[h].txns, TxnsOf(FirstBlocks, h - 1))
    BY <2>3 DEF Newer
  <2> QED BY <1>3, <2>1, <2>4 DEF Follows
<1>9. N <= Cardinality(TxnsOf(FirstBlocks, N))
  BY <1>7, ExecutedCount DEF N
<1>10. ChainInv(FirstBlocks)
  BY <1>5, <1>8, <1>9 DEF ChainInv
<1> QED BY <1>3, <1>5, <1>7, <1>10 DEF N

\* A node starts with the first blocks, all of whose transactions it has used.
LEMMA RunningNode ==
  ASSUME NEW n \in Node
  PROVE  NodeInv(n, Running(n), FirstBlocks)
<1> DEFINE f == NoncesAfter([m \in Node |-> 0], Range(Executed))
           s == Running(n)
           at(t) == {0} \cup {h \in DOMAIN Executed : Executed[h] = t}
<1>1. /\ Len(Executed) \in Nat /\ DOMAIN Executed = 1 .. Len(Executed) /\ Len(Executed) \in Height
      /\ Range(Executed) \subseteq Txn
  BY ExecutedInOrder, ExecutedCount
<1>2. LastOf(f, Range(Executed))
  <2>1. LastOf([m \in Node |-> 0], {})
    BY DEF LastOf
  <2>2. After(Range(Executed), [m \in Node |-> 0])
    <3>1. \A t \in Range(Executed) : t[1] \in Node /\ t[2] \in Nat /\ 1 <= t[2]
      BY <1>1, TxnShape
    <3> QED BY <3>1 DEF After
  <2>3. {} \subseteq Txn /\ {} \cup Range(Executed) = Range(Executed)
    OBVIOUS
  <2>4. LastOf(f, {} \cup Range(Executed))
    BY <1>1, <2>1, <2>2, <2>3, NoncesAfterIsLast
  <2> QED BY <2>3, <2>4
<1>3. ASSUME NEW t \in Txn
      PROVE  /\ Max(at(t)) \in Height
             /\ t \in Range(Executed) => Max(at(t)) # 0
             /\ Max(at(t)) \in at(t)
  <2>1. at(t) \in SUBSET (0 .. Len(Executed)) /\ at(t) # {}
    BY <1>1
  <2> HIDE DEF at
  <2>2. Max(at(t)) \in at(t) /\ \A j \in at(t) : j <= Max(at(t))
    BY <1>1, <2>1, MaxOfBounded
  <2>3. Max(at(t)) \in Height
    <3>1. Cardinality(Txn) \in Nat /\ Len(Executed) <= Cardinality(Txn)
      BY <1>1, TxnAssumption, FS_CardinalityType DEF Height
    <3> QED BY <1>1, <2>1, <2>2, <3>1 DEF Height
  <2>4. ASSUME t \in Range(Executed)
        PROVE  Max(at(t)) # 0
    <3>1. PICK h \in DOMAIN Executed : t = Executed[h]
      BY <2>4 DEF Range
    <3>2. h \in at(t) /\ 1 <= h /\ h \in Nat
      BY <1>1, <3>1 DEF at
    <3> QED BY <2>2, <3>2
  <2> QED BY <2>2, <2>3, <2>4
<1>4. /\ s.height = Len(Executed) /\ s.last_nonce = f /\ s.made = f[n] /\ s.open = NoBlock
      /\ s.mempool = Range(Executed) /\ s.block_height = [t \in Txn |-> Max(at(t))]
      /\ s.own_blocks = DOMAIN Executed
  BY DEF Running, Started
<1>5. f \in [Node -> Nat]
  BY <1>2 DEF LastOf
<1>6. ASSUME NEW t \in Txn, Max(at(t)) # 0
       PROVE  Max(at(t)) \in 1 .. Len(Executed) /\ Executed[Max(at(t))] = t
  BY <1>1, <1>3, <1>6
<1> HIDE DEF at
<1>7. s.block_height \in [Txn -> Height]
  BY <1>3, <1>4
<1>8. s = [Started(Len(Executed), f, f[n]) EXCEPT
             !.own_blocks = DOMAIN Executed, !.mempool = Range(Executed),
             !.block_height = [t \in Txn |-> Max(at(t))],
             !.sync_down = IF Executed = <<>> THEN "outdated" ELSE "in_sync"]
  BY DEF Running, at
<1> HIDE DEF s, f
<1>9. s \in NodeState
  <2> DEFINE s0 == Started(Len(Executed), f, f[n])
             used == [t \in Txn |-> Max(at(t))]
             down == IF Executed = <<>> THEN "outdated" ELSE "in_sync"
  <2>1. s0 \in NodeState
    <3>1. [t \in Txn |-> 0] \in [Txn -> Height]
      BY TxnAssumption, FS_CardinalityType DEF Height
    <3>2. f[n] \in Nat
      BY <1>5
    <3> QED BY <1>1, <1>5, <3>1, <3>2, NoBlockType DEF Started, NodeState
  <2>2. used \in [Txn -> Height] /\ down \in {"outdated", "in_sync"}
    BY <1>3
  <2> DEFINE own == DOMAIN Executed
  <2>3. s = [s0 EXCEPT !.own_blocks = own, !.mempool = Range(Executed), !.block_height = used,
                       !.sync_down = down]
    BY <1>8
  <2>4. own \subseteq Height
    <3>1. Cardinality(Txn) \in Nat /\ Len(Executed) <= Cardinality(Txn)
      BY <1>1, TxnAssumption, FS_CardinalityType DEF Height
    <3> QED BY <1>1, <3>1 DEF Height
  <2> HIDE DEF s0, used, down, own
  <2> QED BY <1>1, <2>1, <2>2, <2>3, <2>4 DEF NodeState
<1>10. Unused(s) = {}
  <2> SUFFICES ASSUME NEW t \in Unused(s)
               PROVE  FALSE
    OBVIOUS
  <2>1. t \in Range(Executed) /\ s.block_height[t] = 0
    BY <1>4 DEF Unused
  <2> QED BY <1>1, <1>3, <1>4, <2>1
<1>11. After(Unused(s), s.last_nonce) /\ After(s.open.txns, s.last_nonce)
  BY <1>4, <1>10 DEF After, NoBlock
<1>12. {n} \X (1 .. s.made) \subseteq Txn
  <2>1. s.made = 0 \/ <<n, s.made>> \in Txn
    BY <1>1, <1>2, <1>4 DEF LastOf
  <2>2. CASE s.made = 0
    BY <2>2
  <2>3. CASE <<n, s.made>> \in Txn
    <3>1. \A k \in 1 .. s.made : <<n, k>> \in Txn
      BY <2>3, TxnShape
    <3> QED BY <3>1
  <2> QED BY <2>1, <2>2, <2>3
<1>13. /\ s.height <= Len(FirstBlocks) /\ LastOf(s.last_nonce, TxnsOf(FirstBlocks, s.height))
  <2>1. Len(FirstBlocks) = Len(Executed) /\ TxnsOf(FirstBlocks, Len(Executed)) = Range(Executed)
    BY FirstChain
  <2> QED BY <1>1, <1>2, <1>4, <2>1
<1>14. Served(s, FirstBlocks)
  <2>1. ASSUME NEW x \in Txn, s.block_height[x] # 0
        PROVE  x \in TxnsOf(FirstBlocks, s.height)
    <3>1. Max(at(x)) \in 1 .. Len(Executed) /\ Executed[Max(at(x))] = x
      BY <1>4, <1>6, <2>1
    <3> QED BY <1>1, <1>4, <3>1, FirstChain DEF Range
  <2>2. ASSUME NEW h \in 1 .. Len(Executed), NEW x \in FirstBlocks[h].txns
        PROVE  x \in s.mempool /\ s.block_height[x] = h
    <3>1. x = Executed[h] /\ x \in Range(Executed) /\ x \in Txn
      BY <1>1, <2>2, FirstChain DEF Range
    <3> DEFINE g == Max(at(x))
    <3>2. g \in 1 .. Len(Executed) /\ Executed[g] = x
      BY <1>3, <1>6, <3>1
    <3> HIDE DEF g
    <3>3. g = h
      <4>1. g \notin 1 .. h - 1 /\ h \notin 1 .. g - 1
        <5>1. x[2] \in Nat
          BY <3>1, TxnShape
        <5> QED BY <3>1, <3>2, <5>1, ExecutedInOrder
      <4> QED BY <1>1, <3>2, <4>1
    <3> QED BY <1>4, <3>1, <3>3 DEF g
  <2> QED BY <1>1, <1>4, <2>1, <2>2 DEF Served
<1>15. NodeInv(n, s, FirstBlocks)
  BY <1>9, <1>11, <1>12, <1>13, <1>14 DEF NodeInv
<1> QED BY <1>15 DEF s

\* The invariant holds at the start.
LEMMA InitInv ==
  Init => MempoolInv
<1> SUFFICES ASSUME Init PROVE MempoolInv
  OBVIOUS
<1>1. /\ chain = FirstBlocks /\ blocks = {} /\ votes = {} /\ faults = 0
      /\ node = [n \in Node |-> Running(n)] /\ network \in Network /\ links = network.links
      /\ chan = [c \in Node \X Node |-> {}]
  BY DEF Init
<1>2. ChainInv(chain)
  BY <1>1, FirstChain
<1>3. \A n \in Node : NodeInv(n, node[n], chain)
  <2>1. \A n \in Node : node[n] = Running(n)
    BY <1>1
  <2> QED BY <1>1, <2>1, RunningNode
<1>4. node \in [Node -> NodeState]
  <2>1. \A n \in Node : Running(n) \in NodeState
    BY RunningNode DEF NodeInv
  <2> QED BY <1>1, <2>1
<1>5. links \subseteq Node \X Node /\ faults \in 0 .. network.max_faults
  BY <1>1, NetworkAssumption
<1>6. TypeOK
  BY <1>1, <1>2, <1>4, <1>5 DEF TypeOK, ChainInv
<1> QED BY <1>1, <1>2, <1>3, <1>6 DEF MempoolInv

-----------------------------------------------------------------------------
(* The theorems that hold whatever goes wrong *)

\* Every action, and a step that changes nothing.
LEMMA InvNext ==
  MempoolInv /\ [Next]_vars => MempoolInv'
<1> SUFFICES ASSUME MempoolInv, [Next]_vars
             PROVE  MempoolInv'
  OBVIOUS
<1>1. CASE UNCHANGED vars
  <2>1. MempoolInv'
    BY <1>1 DEF MempoolInv, TypeOK, vars
  <2> QED BY <2>1
<1>2. ASSUME NEW n \in Node, Worker(n)
      PROVE  MempoolInv'
  BY <1>2, LocalTransaction, TransactionsTimer, NewBlockTimer, ChooseBlock, WinnerBlock, FutureBlock
     DEF Worker
<1>3. ASSUME NEW m \in Node, NEW n \in Node, Receive(m, n)
      PROVE  MempoolInv'
  BY <1>3, RemoteTransaction, GetTransaction, ApplyStateUpdate DEF Receive
<1> QED BY <1>1, <1>2, <1>3, NewLocalTransaction, NodeRestarts, ConnectionDropped, NewAcceptedNode
        DEF Next

\* Nothing that a node would propose is in its blocks.
LEMMA InvMeansNew ==
  MempoolInv => UnusedIsNew
<1> SUFFICES ASSUME MempoolInv, NEW n \in Node, NEW t \in Unused(node[n]), t \in InChain(node[n].height)
             PROVE  FALSE
  BY DEF UnusedIsNew
<1>1. NodeInv(n, node[n], chain) /\ node[n] \in NodeState
  BY NodeFacts
<1>2. t \in TxnsOf(chain, node[n].height)
  BY DEF TxnsOf, InChain
<1>3. t \in Txn /\ t[1] \in Node /\ t[2] \in Nat
  BY <1>1, TxnShape DEF Unused, NodeState
<1>4. node[n].last_nonce[t[1]] \in Nat
  BY <1>1, <1>3 DEF NodeState
<1>5. t[2] <= node[n].last_nonce[t[1]] /\ node[n].last_nonce[t[1]] < t[2]
  BY <1>1, <1>2 DEF NodeInv, LastOf, After
<1> QED BY <1>3, <1>4, <1>5

\* The states of the nodes, their mempools, the blocks and the messages always
\* have their types, whatever fails: in particular there are never more blocks
\* than transactions, because create_new_block (consensus.c) makes no empty one.
THEOREM MempoolTypeCorrect == Spec => []TypeOK
<1>1. MempoolInv => TypeOK
  BY DEF MempoolInv
<1> QED BY <1>1, InitInv, InvNext, PTL DEF Spec

\* A transaction that a node would put in its next block (block_height 0 in its
\* mempool) is in none of the blocks it has, although blocks, requests, state
\* updates and restarts change the two independently.
THEOREM NothingExecutedWaits == Spec => []UnusedIsNew
BY InitInv, InvNext, InvMeansNew, PTL DEF Spec

\* The last two blocks of a node, when it committed them itself, have their
\* transactions in its mempool: a peer that is behind gets them there.
LEMMA InvMeansServed ==
  MempoolInv => ServedByPeers
<1> SUFFICES ASSUME MempoolInv, NEW m \in Node, NEW n \in Node, NEW h, h = node[n].height + 1,
                    h \in node[m].own_blocks, node[m].height <= h + 1
             PROVE  chain[h].txns \subseteq Stored(m)
  BY DEF ServedByPeers
<1>1. Served(node[m], chain)
  BY NodeFacts DEF NodeInv
<1>2. chain[h].txns \subseteq node[m].mempool
  BY <1>1 DEF Served
<1> QED BY <1>2 DEF Stored

\* The transactions that a node needs to execute its next block are with any peer
\* that committed this block and is at most one block further, although commits,
\* state updates and the arrival of transactions clean its mempool at other times
\* (commit_block, consensus.c, and check_mempool_transactions, transactions.c).
THEOREM BehindIsServed == Spec => []ServedByPeers
BY InitInv, InvNext, InvMeansServed, PTL DEF Spec

-----------------------------------------------------------------------------
(* Nonces without a gap, and verified votes *)

\* The nonces of S have no gap.
Complete(S) == \A t \in S : \A k \in 1 .. t[2] : <<t[1], k>> \in S

\* The blocks take every transaction up to the last one, and so would a proposal.
CompleteInv ==
  /\ \A h \in 0 .. Len(chain) : Complete(TxnsOf(chain, h))
  /\ \A b \in blocks : Complete(TxnsOf(chain, Len(chain)) \cup b.txns)

\* A proposal says that the transactions fail that fail on every node.
FailedInv == \A b \in blocks : b.failed = b.txns \cap Rejected

\* A step decides a block, or adds proposals that are made from the mempool of a node
\* which has all the blocks.
BlocksMove ==
  \/ /\ chain' = chain
     /\ \A b \in blocks' \ blocks : \E n \in Node : \E env \in Outcomes(InOrder(node[n])) :
          b = create_block(node[n], env) /\ node[n].height = Len(chain)
  \/ \E b \in blocks : chain' = Append(chain, b) /\ blocks' = {}

\* new_block_timer_cb proposes, check_for_winner_block decides.
LEMMA BlocksOfStep ==
  ASSUME MempoolInv, [Next]_vars
  PROVE  BlocksMove
<1>1. CASE UNCHANGED <<chain, blocks>>
  BY <1>1 DEF BlocksMove
<1>2. ASSUME NEW n \in Node, new_block_timer_cb(n)
      PROVE  BlocksMove
  <2> DEFINE s == rollback_block([node[n] EXCEPT !.new_block_timer = FALSE])
  <2>1. node[n] \in NodeState /\ node[n].height \in Nat /\ Len(chain) \in Nat
    BY NodeFacts, NodeTxns
  <2>2. /\ s.height = node[n].height /\ s.last_nonce = node[n].last_nonce
        /\ s.mempool = node[n].mempool /\ s.block_height = node[n].block_height
        /\ s.own_blocks = node[n].own_blocks
    BY <2>1 DEF rollback_block, NodeState
  <2>3. /\ chain' = chain
        /\ \/ UNCHANGED blocks
           \/ \E env \in Outcomes(InOrder(s)) :
                LET b == create_block(s, env) IN
                blocks' = IF b.height = Len(chain) + 1 THEN blocks \cup {b} ELSE blocks
    BY <1>2 DEF new_block_timer_cb
  <2> HIDE DEF s
  <2>4. Unused(s) = Unused(node[n])
    BY <2>2 DEF Unused
  <2>5. InOrder(s) = InOrder(node[n])
    BY <2>2, <2>4 DEF InOrder
  <2>6. \A env : create_block(s, env) = create_block(node[n], env)
    BY <2>2, <2>5 DEF create_block
  <2>7. CASE UNCHANGED blocks
    BY <2>3, <2>7 DEF BlocksMove
  <2>8. ASSUME NEW env \in Outcomes(InOrder(s)),
               blocks' = IF create_block(s, env).height = Len(chain) + 1
                         THEN blocks \cup {create_block(s, env)} ELSE blocks
        PROVE  BlocksMove
    <3>1. create_block(node[n], env).height = node[n].height + 1
      BY DEF create_block
    <3>2. \A b \in blocks' \ blocks : b = create_block(node[n], env) /\ node[n].height = Len(chain)
      BY <2>1, <2>6, <2>8, <3>1
    <3>3. env \in Outcomes(InOrder(node[n]))
      BY <2>5
    <3> QED BY <2>3, <3>2, <3>3 DEF BlocksMove
  <2> QED BY <2>3, <2>7, <2>8
<1>3. ASSUME NEW n \in Node, check_for_winner_block(n)
      PROVE  BlocksMove
  <2>1. \E b : \/ /\ chain' = IF b \in blocks THEN Append(chain, b) ELSE chain
                  /\ blocks' = IF b \in blocks THEN {} ELSE blocks
               \/ UNCHANGED <<blocks, chain>>
    BY <1>3 DEF check_for_winner_block
  <2> QED BY <2>1 DEF BlocksMove
<1>4. ASSUME NEW n \in Node, Worker(n), ~ new_block_timer_cb(n), ~ check_for_winner_block(n)
      PROVE  UNCHANGED <<chain, blocks>>
  BY <1>4 DEF Worker, on_local_transaction, process_transactions_timer_cb, choose_block_to_vote,
     on_future_block
<1>5. ASSUME NEW m \in Node, NEW n \in Node, Receive(m, n)
      PROVE  UNCHANGED <<chain, blocks>>
  BY <1>5 DEF Receive, on_new_remote_transaction, on_get_transaction, on_apply_state_update
<1>6. ASSUME NEW m \in Node, NEW n \in Node,
             \/ on_new_local_transaction(n) \/ plugin_init(n)
             \/ connection_dropped(m, n) \/ on_new_accepted_node(m, n)
      PROVE  UNCHANGED <<chain, blocks>>
  BY <1>6 DEF on_new_local_transaction, plugin_init, connection_dropped, on_new_accepted_node
<1>7. CASE UNCHANGED vars
  BY <1>1, <1>7 DEF vars
<1> QED BY <1>1, <1>2, <1>3, <1>4, <1>5, <1>6, <1>7 DEF Next

\* The first blocks have no gap.
LEMMA FirstComplete ==
  Init => CompleteInv
<1> SUFFICES ASSUME Init PROVE CompleteInv
  OBVIOUS
<1>1. chain = FirstBlocks /\ blocks = {} /\ Len(chain) = Len(Executed) /\ Len(Executed) \in Nat
  BY FirstChain, ExecutedInOrder DEF Init
<1>2. ASSUME NEW h \in 0 .. Len(chain), NEW t \in TxnsOf(chain, h), NEW k \in 1 .. t[2]
      PROVE  <<t[1], k>> \in TxnsOf(chain, h)
  <2>1. \A g \in 1 .. h : chain[g].txns = {Executed[g]}
    BY <1>1, FirstChain
  <2>2. PICK g \in 1 .. h : t = Executed[g]
    BY <2>1 DEF TxnsOf
  <2>3. g \in DOMAIN Executed /\ t \in Txn
    BY <1>1, <2>2, ExecutedInOrder
  <2>4. t = <<t[1], t[2]>> /\ t[2] \in Nat
    BY <2>3, TxnShape
  <2>5. CASE k = t[2]
    BY <2>4, <2>5
  <2>6. CASE k # t[2]
    <3>1. k \in 1 .. t[2] - 1
      BY <2>4, <2>6
    <3>2. k \in {Executed[i][2] : i \in {j \in 1 .. g - 1 : Executed[j][1] = Executed[g][1]}}
      BY <2>2, <2>3, <3>1, TxnAssumption
    <3>3. PICK i \in 1 .. g - 1 : Executed[i][1] = t[1] /\ Executed[i][2] = k
      BY <2>2, <3>2
    <3>4. i \in 1 .. h /\ i \in 1 .. Len(Executed)
      BY <1>1, <3>3
    <3>5. Executed[i] = <<t[1], k>>
      BY <3>3, <3>4, ExecutedInOrder, TxnShape
    <3>6. <<t[1], k>> \in chain[i].txns
      BY <2>1, <3>4, <3>5
    <3> QED BY <3>4, <3>6 DEF TxnsOf
  <2> QED BY <2>5, <2>6
<1> QED BY <1>1, <1>2 DEF CompleteInv, Complete

\* InOrder leaves out no transaction of a node before one that it takes.
LEMMA InOrderComplete ==
  ASSUME NEW ch \in Seq(Block), NEW n, NEW s, NodeInv(n, s, ch), Complete(TxnsOf(ch, s.height))
  PROVE  Complete(TxnsOf(ch, s.height) \cup InOrder(s))
<1> SUFFICES ASSUME NEW t \in InOrder(s), NEW k \in 1 .. t[2]
             PROVE  <<t[1], k>> \in TxnsOf(ch, s.height) \cup InOrder(s)
  BY DEF Complete
<1> DEFINE m == t[1]
           last == s.last_nonce[t[1]]
<1>1. s \in NodeState /\ t \in Unused(s) /\ t \in Txn
  BY DEF NodeInv, InOrder, Unused, NodeState
<1>2. m \in Node /\ t[2] \in Nat /\ last \in Nat
  BY <1>1, TxnShape DEF NodeState
<1>3. CASE k <= last
  <2>1. last # 0
    BY <1>2, <1>3
  <2>2. <<m, last>> \in TxnsOf(ch, s.height)
    BY <1>2, <2>1 DEF NodeInv, LastOf
  <2>3. k \in 1 .. <<m, last>>[2]
    BY <1>2, <1>3
  <2>4. <<<<m, last>>[1], k>> \in TxnsOf(ch, s.height)
    BY <2>2, <2>3 DEF Complete
  <2> QED BY <2>4
<1>4. CASE ~ (k <= last)
  <2>1. \A j \in last + 1 .. t[2] : <<m, j>> \in Unused(s)
    BY DEF InOrder
  <2>2. k \in last + 1 .. t[2] /\ \A j \in last + 1 .. k : j \in last + 1 .. t[2]
    BY <1>2, <1>4
  <2>3. <<m, k>> \in Unused(s) /\ \A j \in last + 1 .. k : <<m, j>> \in Unused(s)
    BY <2>1, <2>2
  <2>4. <<m, k>>[1] = m /\ <<m, k>>[2] = k
    OBVIOUS
  <2>5. <<m, k>> \in InOrder(s)
    BY <2>3, <2>4 DEF InOrder
  <2> QED BY <2>5
<1> QED BY <1>3, <1>4

\* When no database is busy the blocks stay without a gap.
LEMMA CompleteNext ==
  ASSUME "busy" \notin Faults, MempoolInv, CompleteInv, [Next]_vars
  PROVE  CompleteInv'
<1>1. chain \in Seq(Block) /\ Len(chain) \in Nat /\ blocks \subseteq Block
  BY DEF MempoolInv, TypeOK, ChainInv
<1>2. BlocksMove
  BY BlocksOfStep
<1>3. ASSUME chain' = chain,
             \A b \in blocks' \ blocks : \E n \in Node : \E env \in Outcomes(InOrder(node[n])) :
               b = create_block(node[n], env) /\ node[n].height = Len(chain)
      PROVE  CompleteInv'
  <2>1. ASSUME NEW b \in blocks' \ blocks
        PROVE  Complete(TxnsOf(chain, Len(chain)) \cup b.txns)
    <3>1. PICK n \in Node : \E env \in Outcomes(InOrder(node[n])) :
            b = create_block(node[n], env) /\ node[n].height = Len(chain)
      BY <1>3, <2>1
    <3>2. PICK env \in Outcomes(InOrder(node[n])) : b = create_block(node[n], env)
      BY <3>1
    <3>3. env.busy = {}
      BY DEF Outcomes
    <3>4. b.txns = InOrder(node[n])
      BY <3>2, <3>3 DEF create_block
    <3>5. Complete(TxnsOf(chain, node[n].height))
      BY <1>1, <3>1 DEF CompleteInv
    <3>6. Complete(TxnsOf(chain, node[n].height) \cup InOrder(node[n]))
      BY <1>1, <3>5, NodeFacts, InOrderComplete
    <3> QED BY <3>1, <3>4, <3>6
  <2>2. \A b \in blocks' : Complete(TxnsOf(chain, Len(chain)) \cup b.txns)
    BY <2>1 DEF CompleteInv
  <2> QED BY <1>3, <2>2 DEF CompleteInv
<1>4. ASSUME NEW b \in blocks, chain' = Append(chain, b), blocks' = {}
      PROVE  CompleteInv'
  <2> DEFINE new == Append(chain, b)
  <2>1. Len(new) = Len(chain) + 1 /\ b \in Block
    BY <1>1
  <2>2. /\ \A h \in 0 .. Len(chain) : TxnsOf(new, h) = TxnsOf(chain, h)
        /\ TxnsOf(new, Len(chain) + 1) = TxnsOf(chain, Len(chain)) \cup b.txns
    BY <1>1, <2>1, TxnsOfAppend
  <2> HIDE DEF new
  <2>3. ASSUME NEW h \in 0 .. Len(new)
        PROVE  Complete(TxnsOf(new, h))
    <3>1. CASE h \in 0 .. Len(chain)
      BY <2>2, <3>1 DEF CompleteInv
    <3>2. CASE h = Len(chain) + 1
      BY <2>2, <3>2 DEF CompleteInv
    <3> QED BY <1>1, <2>1, <3>1, <3>2
  <2>4. chain' = new
    BY <1>4 DEF new
  <2> QED BY <1>4, <2>3, <2>4 DEF CompleteInv
<1> QED BY <1>2, <1>3, <1>4 DEF BlocksMove

\* The invariants say it all.
LEMMA InvMeansOrder ==
  MempoolInv /\ CompleteInv => NonceOrder
<1> SUFFICES ASSUME MempoolInv, CompleteInv PROVE NonceOrder
  OBVIOUS
<1>1. chain \in Seq(Block) /\ Len(chain) \in Nat
  BY DEF MempoolInv, ChainInv
<1>2. \A h : InChain(h) = TxnsOf(chain, h)
  BY DEF InChain, TxnsOf
<1>3. ASSUME NEW h \in 1 .. Len(chain), NEW t \in chain[h].txns, t \in TxnsOf(chain, h - 1)
      PROVE  FALSE
  <2>1. Newer(chain[h].txns, TxnsOf(chain, h - 1))
    BY DEF MempoolInv, ChainInv, Follows
  <2>2. chain[h] \in Block
    BY <1>1
  <2>3. t[2] \in Nat
    BY <2>2, TxnShape DEF Block
  <2>4. t[2] < t[2]
    BY <1>3, <2>1 DEF Newer
  <2> QED BY <2>3, <2>4
<1> QED BY <1>2, <1>3 DEF NonceOrder, CompleteInv, Complete

\* Unless the database of a node is locked while it makes a block, the blocks take
\* the transactions of each node in the order of their nonces, none twice and none
\* left out (is_next_nonce, consensus.c); with "busy" in Faults it is not so.
THEOREM NoncesInOrder ==
  ASSUME "busy" \notin Faults
  PROVE  Spec => []NonceOrder
<1>1. Init => MempoolInv /\ CompleteInv
  BY InitInv, FirstComplete
<1>2. MempoolInv /\ CompleteInv /\ [Next]_vars => (MempoolInv /\ CompleteInv)'
  BY InvNext, CompleteNext
<1> QED BY <1>1, <1>2, InvMeansOrder, PTL DEF Spec

\* When a transaction fails on every node or on none, proposals say which ones.
LEMMA FailedNext ==
  ASSUME "error" \notin Faults, MempoolInv, FailedInv, [Next]_vars
  PROVE  FailedInv'
<1> SUFFICES ASSUME NEW b \in blocks' \ blocks
             PROVE  b.failed = b.txns \cap Rejected
  BY DEF FailedInv
<1>1. BlocksMove
  BY BlocksOfStep
<1>2. PICK n \in Node : \E env \in Outcomes(InOrder(node[n])) : b = create_block(node[n], env)
  BY <1>1 DEF BlocksMove
<1>3. PICK env \in Outcomes(InOrder(node[n])) : b = create_block(node[n], env)
  BY <1>2
<1>4. env.error = {}
  BY DEF Outcomes
<1> QED BY <1>3, <1>4 DEF create_block, Failing

\* A vote is for the block that the step leaves open.
LEMMA VotesOfStep ==
  ASSUME "error" \notin Faults, MempoolInv, FailedInv, [Next]_vars, NEW v \in votes' \ votes
  PROVE  node'[v[1]].open = v[2]
<1>1. ASSUME NEW n \in Node, choose_block_to_vote(n)
      PROVE  node'[v[1]].open = v[2]
  <2>1. PICK b \in NextBlocks(n) \cap blocks :
          \E verdict \in VerdictsAt(n, b), running \in {FALSE, node[n].new_block_timer} :
            /\ Become(n, verify_block([node[n] EXCEPT !.new_block_timer = running], b, verdict))
            /\ votes' = IF verdict \in {"ok", "differs"} THEN votes \cup {<<n, b>>} ELSE votes
    BY <1>1 DEF choose_block_to_vote
  <2>2. PICK verdict \in VerdictsAt(n, b), running \in {FALSE, node[n].new_block_timer} :
          /\ Become(n, verify_block([node[n] EXCEPT !.new_block_timer = running], b, verdict))
          /\ votes' = IF verdict \in {"ok", "differs"} THEN votes \cup {<<n, b>>} ELSE votes
    BY <2>1
  <2>3. v = <<n, b>> /\ verdict \in {"ok", "differs"}
    BY <2>2
  <2>4. verdict # "differs"
    <3> SUFFICES ASSUME verdict = "differs" PROVE FALSE
      OBVIOUS
    <3>1. PICK env \in Outcomes(b.txns) : verdict \in Verdicts(b, env)
      BY DEF VerdictsAt
    <3>2. env.error = {}
      BY DEF Outcomes
    <3>3. Failing(b.txns, env) = b.failed
      BY <2>1, <3>2 DEF FailedInv, Failing
    <3>4. "differs" \notin Verdicts(b, env)
      BY <3>3 DEF Verdicts
    <3> QED BY <3>1, <3>4
  <2> DEFINE s == [node[n] EXCEPT !.new_block_timer = running]
  <2>5. node[n] \in NodeState /\ node \in [Node -> NodeState]
    BY NodeFacts DEF MempoolInv, TypeOK
  <2>6. verify_block(s, b, verdict) = [s EXCEPT !.open = b]
    BY <2>3, <2>4 DEF verify_block
  <2>7. [s EXCEPT !.open = b].open = b
    BY <2>5 DEF NodeState
  <2>8. node'[n] = verify_block(s, b, verdict)
    BY <2>2, <2>5 DEF Become
  <2> QED BY <2>3, <2>6, <2>7, <2>8
<1>2. ASSUME NEW n \in Node, check_for_winner_block(n)
      PROVE  votes' \subseteq votes
  BY <1>2 DEF check_for_winner_block
<1>3. ASSUME NEW n \in Node, Worker(n), ~ choose_block_to_vote(n), ~ check_for_winner_block(n)
      PROVE  votes' = votes
  BY <1>3 DEF Worker, on_local_transaction, process_transactions_timer_cb, new_block_timer_cb,
     on_future_block
<1>4. ASSUME NEW m \in Node, NEW n \in Node, Receive(m, n)
      PROVE  votes' = votes
  BY <1>4 DEF Receive, on_new_remote_transaction, on_get_transaction, on_apply_state_update
<1>5. ASSUME NEW m \in Node, NEW n \in Node,
             \/ on_new_local_transaction(n) \/ plugin_init(n)
             \/ connection_dropped(m, n) \/ on_new_accepted_node(m, n)
      PROVE  votes' = votes
  BY <1>5 DEF on_new_local_transaction, plugin_init, connection_dropped, on_new_accepted_node
<1>6. ~ UNCHANGED vars
  BY DEF vars
<1> QED BY <1>1, <1>2, <1>3, <1>4, <1>5, <1>6 DEF Next

\* Unless a transaction fails on one node only, a node that votes has the block
\* executed and open in its database, "the block is OK" (consensus.c:682); with "error"
\* in Faults it may have rolled it back.
THEOREM VotersHaveVerified ==
  ASSUME "error" \notin Faults
  PROVE  Spec => VotesAreVerified
<1>1. Init => MempoolInv /\ FailedInv
  BY InitInv DEF Init, FailedInv
<1>2. MempoolInv /\ FailedInv /\ [Next]_vars => (MempoolInv /\ FailedInv)'
  BY InvNext, FailedNext
<1>3. MempoolInv /\ FailedInv /\ [Next]_vars => \A v \in votes' \ votes : node'[v[1]].open = v[2]
  BY VotesOfStep
<1> QED BY <1>1, <1>2, <1>3, PTL DEF Spec, VotesAreVerified
=============================================================================
