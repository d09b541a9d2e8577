--------------------------- MODULE BlockProducer ---------------------------
(***************************************************************************)
(* The wait interval of a proposal (block_producer.c): it is computed from *)
(* 32 bits of the VRF output of the creator, by every node that knows the  *)
(* proof.  The proposal with the lowest interval is voted for, so Consensus*)
(* assumes that the interval is positive (WaitAssumption), which the code  *)
(* asserts.                                                                *)
(***************************************************************************)
EXTENDS Integers, TLAPS

\* The four bytes of the VRF output that are used, as a number.
MaxOutput == 256 * 256 * 256 * 256 - 1
Output == 0 .. MaxOutput

Lower(block_interval) == block_interval \div 10

Upper(nodes, block_interval) == (block_interval \div 2) * nodes

\* The fraction output / MaxOutput of the way from Lower to Upper, rounded down
\* by the conversion of the double to an unsigned integer.
calculate_wait_interval(output, nodes, block_interval) ==
  LET lower == Lower(block_interval)
      upper == Upper(nodes, block_interval)
  IN (output * (upper - lower)) \div MaxOutput + lower

-----------------------------------------------------------------------------
(* Lemmas on the arithmetic *)

\* What rounding down means, for a divisor of any size.
LEMMA Quotient ==
  ASSUME NEW x \in Int, NEW m \in Nat \ {0}
  PROVE  /\ x \div m \in Int
         /\ m * (x \div m) <= x
         /\ x < m * (x \div m) + m
OBVIOUS

\* A fraction of d rounded down is between 0 and d.
LEMMA FractionBounds ==
  ASSUME NEW m \in Nat \ {0}, NEW output \in 0 .. m, NEW d \in Nat
  PROVE  (output * d) \div m \in 0 .. d
<1> DEFINE x == output * d
<1> DEFINE q == x \div m
<1>1. x \in Nat /\ x <= m * d
  <2>1. output \in Nat /\ m - output \in Nat
    OBVIOUS
  <2>2. x \in Nat /\ (m - output) * d \in Nat
    BY <2>1
  <2>3. m * d - x = (m - output) * d
    BY <2>1
  <2> QED BY <2>1, <2>2, <2>3
<1> HIDE DEF x
<1>2. q \in Int /\ m * q <= x /\ x < m * q + m
  BY <1>1, Quotient
<1> HIDE DEF q
<1>3. q >= 0
  <2> SUFFICES ASSUME q < 0 PROVE FALSE
    BY <1>2
  <2>1. -1 - q \in Nat
    BY <1>2
  <2>2. m * (-1 - q) \in Nat
    BY <2>1
  <2>3. m * (-1 - q) = - m - m * q
    BY <1>2
  <2> QED BY <1>1, <1>2, <2>2, <2>3
<1>4. q <= d
  <2> SUFFICES ASSUME q > d PROVE FALSE
    BY <1>2
  <2>1. q - d - 1 \in Nat
    BY <1>2
  <2>2. m * (q - d - 1) \in Nat
    BY <2>1
  <2>3. m * (q - d - 1) = m * q - m * d - m
    BY <1>2
  <2> QED BY <1>1, <1>2, <2>2, <2>3
<1> QED BY <1>2, <1>3, <1>4 DEF q, x

\* A greater fraction is not rounded to less.
LEMMA FractionOrder ==
  ASSUME NEW m \in Nat \ {0}, NEW d \in Nat,
         NEW first \in 0 .. m, NEW second \in 0 .. m, first <= second
  PROVE  (first * d) \div m <= (second * d) \div m
<1> DEFINE x == first * d
           y == second * d
           p == x \div m
           q == y \div m
<1>1. x \in Nat /\ y \in Nat /\ x <= y
  <2>1. first \in Nat /\ second \in Nat /\ second - first \in Nat
    OBVIOUS
  <2>2. x \in Nat /\ y \in Nat /\ (second - first) * d \in Nat
    BY <2>1
  <2>3. y - x = (second - first) * d
    BY <2>1
  <2> QED BY <2>2, <2>3
<1> HIDE DEF x, y
<1>2. p \in Int /\ m * p <= x /\ q \in Int /\ y < m * q + m
  BY <1>1, Quotient
<1> HIDE DEF p, q
<1>3. p <= q
  <2> SUFFICES ASSUME p > q PROVE FALSE
    BY <1>2
  <2>1. p - q - 1 \in Nat
    BY <1>2
  <2>2. m * (p - q - 1) \in Nat
    BY <2>1
  <2>3. m * (p - q - 1) = m * p - m * q - m
    BY <1>2
  <2> QED BY <1>1, <1>2, <2>2, <2>3
<1> QED BY <1>3 DEF p, q, x, y

\* The lower bound is not above the upper one, whatever the number of nodes.
LEMMA LowerIsLower ==
  ASSUME NEW block_interval \in Nat, NEW nodes \in Nat \ {0}
  PROVE  /\ Lower(block_interval) \in Nat
         /\ Upper(nodes, block_interval) \in Nat
         /\ Upper(nodes, block_interval) - Lower(block_interval) \in Nat
<1> DEFINE half == block_interval \div 2
<1>1. half \in Nat /\ Lower(block_interval) \in Nat /\ Lower(block_interval) <= half
  BY DEF Lower
<1> HIDE DEF half
<1>2. half * nodes \in Nat /\ half * nodes - half = half * (nodes - 1)
  BY <1>1
<1>3. half * (nodes - 1) \in Nat
  <2>1. nodes - 1 \in Nat
    OBVIOUS
  <2> QED BY <1>1, <2>1
<1>4. half <= half * nodes
  BY <1>1, <1>2, <1>3
<1>5. Upper(nodes, block_interval) = half * nodes
  BY DEF Upper, half
<1> QED BY <1>1, <1>2, <1>4, <1>5

-----------------------------------------------------------------------------
(* Theorems *)

\* The interval is between its bounds (the assertion of block_producer.c:48), for
\* any number of nodes and any output.
THEOREM WaitIntervalInBounds ==
  ASSUME NEW block_interval \in Nat, NEW nodes \in Nat \ {0}, NEW output \in Output
  PROVE  calculate_wait_interval(output, nodes, block_interval)
           \in Lower(block_interval) .. Upper(nodes, block_interval)
<1> DEFINE d == Upper(nodes, block_interval) - Lower(block_interval)
<1>1. d \in Nat
  BY LowerIsLower
<1> HIDE DEF d
<1>2. MaxOutput \in Nat \ {0}
  BY DEF MaxOutput
<1>3. (output * d) \div MaxOutput \in 0 .. d
  BY <1>1, <1>2, FractionBounds DEF Output
<1> QED BY <1>3, LowerIsLower DEF d, calculate_wait_interval

\* The order of the outputs is never reversed, whatever number of nodes and block
\* interval a node uses: "it will give the same order" (block_producer.c:24), but
\* for outputs whose intervals are equal on one node and not on another.
THEOREM SameOrder ==
  ASSUME NEW block_interval \in Nat, NEW nodes \in Nat \ {0},
         NEW first \in Output, NEW second \in Output, first <= second
  PROVE  calculate_wait_interval(first, nodes, block_interval)
           <= calculate_wait_interval(second, nodes, block_interval)
<1> DEFINE d == Upper(nodes, block_interval) - Lower(block_interval)
<1>1. d \in Nat
  BY LowerIsLower
<1> HIDE DEF d
<1>2. MaxOutput \in Nat \ {0}
  BY DEF MaxOutput
<1>3. (first * d) \div MaxOutput <= (second * d) \div MaxOutput
  BY <1>1, <1>2, FractionOrder DEF Output
<1>4. (first * d) \div MaxOutput \in Int /\ (second * d) \div MaxOutput \in Int
  BY <1>1, <1>2, FractionBounds DEF Output
<1> QED BY <1>3, <1>4, LowerIsLower DEF d, calculate_wait_interval

\* With a block interval of at least 10 milliseconds no proposal waits for zero
\* time, which is what choose_block_to_vote asserts (consensus.c:661) and module
\* Consensus assumes.
THEOREM WaitIntervalPositive ==
  ASSUME NEW block_interval \in Nat, block_interval >= 10,
         NEW nodes \in Nat \ {0}, NEW output \in Output
  PROVE  calculate_wait_interval(output, nodes, block_interval) \in Nat \ {0}
<1>1. Lower(block_interval) \in Nat \ {0}
  BY DEF Lower
<1>2. Upper(nodes, block_interval) \in Nat
  BY LowerIsLower
<1> QED BY <1>1, <1>2, WaitIntervalInBounds

\* With one node and a block interval of one millisecond every interval is zero,
\* and the assertion of choose_block_to_vote fails.
THEOREM SmallestIntervalIsZero ==
  ASSUME NEW output \in Output
  PROVE  calculate_wait_interval(output, 1, 1) = 0
<1>1. Lower(1) = 0 /\ Upper(1, 1) = 0
  BY DEF Lower, Upper
<1>2. output * (0 - 0) = 0
  BY DEF Output
<1> QED BY <1>1, <1>2 DEF calculate_wait_interval, MaxOutput
=============================================================================
