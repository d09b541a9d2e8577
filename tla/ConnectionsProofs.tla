-------------------------- MODULE ConnectionsProofs --------------------------
(***************************************************************************)
(* For any nodes, networks, calls and failures: two nodes that called each *)
(* other keep a connection, at most one of them while none has failed, and *)
(* connected nodes that are members know the same members.                 *)
(***************************************************************************)
EXTENDS Connections, TLAPS, FiniteSetTheorems, SequenceTheorems, WellFoundedInduction

Message == {msg \in [cmd : {"id", "authorization"}, list : Seq(Node)] : msg.cmd = "id" => msg.list = <<>>}

\* A node while it runs a handler: it has sent some messages.
Handling ==
  [auth : Seq(Node), special : Seq(Node), peers : Seq(Conn), connected : SUBSET Conn,
   known : SUBSET Conn, authorized : SUBSET Conn, accepted : SUBSET Conn,
   closing : SUBSET Conn, rc : BOOLEAN, out : [Conn -> Seq(Message)]]

\* The peers of node n with the state s are listed once, and are its connections; those that
\* are authorized have an authorization.
Orderly(n, s) ==
  /\ s \in Handling
  /\ s.accepted \subseteq s.authorized
  /\ s.authorized \subseteq s.known
  /\ s.known \subseteq s.connected
  /\ s.connected \cup s.closing \subseteq Range(s.peers)
  /\ IsInjective(s.peers)
  /\ \A c \in Range(s.peers) : ends[c] # NotCalled /\ n \in Range(ends[c])
  /\ \A c \in s.authorized : Other(c, n) \in Range(s.auth)

\* The authorizations in the messages q.
Lists(q) == UNION {Range(q[i].list) : i \in 1 .. Len(q)}

\* The handler has not changed the list of the peers from s to t.
SamePeers(s, t) ==
  /\ t.peers = s.peers /\ t.connected = s.connected /\ t.known = s.known
  /\ t.closing = s.closing /\ t.special = s.special

\* When way[c] are the authorizations that the peer of connection c has or that are on their way to it,
\* the handler has sent it the others.
Covered(n, s, way) ==
  \A c \in s.known : Other(c, n) \in Range(s.auth)
    => c \in s.authorized /\ Range(s.auth) \subseteq way[c] \cup Lists(s.out[c])

Listed(n) == Range(node[n].peers)
Called(c) == ends[c] # NotCalled
Caller(c) == ends[c][1]
Callee(c) == ends[c][2]

\* Connections between the same two nodes.
Pair(c, d) == Called(c) /\ Called(d) /\ Range(ends[c]) = Range(ends[d])

\* The types, with those of the messages.
Typed ==
  /\ TypeOK
  /\ chan \in [Conn -> [Node -> Seq(Message)]]
  /\ \A n \in Node : Orderly(n, node[n])

\* A connection is on the list of its caller from the call until it has closed it, which no end
\* undoes; a node has one call to another at a time.
Linked ==
  /\ \A n \in Node : \A c \in Listed(n) : n \notin gone[c]
  /\ \A c \in Conn : Called(c) => /\ Caller(c) # Callee(c)
                                  /\ Caller(c) \in gone[c] \/ c \in Listed(Caller(c))
  /\ \A c \in Conn : \A n \in gone[c] : Called(c) /\ n \in Range(ends[c])
  /\ \A n \in Node : \A c, d \in Listed(n) : Pair(c, d) /\ Caller(c) = n /\ Caller(d) = n => c = d

\* An end has closed the connection, or is doing it.
Closed(c, n) == n \in gone[c] \/ c \in node[n].closing

\* A connection is closed because of a failure or of a greater random identifier.
Beaten ==
  \A c \in Conn, n \in Node : Closed(c, n) =>
    \E d \in Conn : Pair(c, d) /\ (d \in failed \/ Random[c] < Random[d])

\* No connection of the two nodes of c has a greater random identifier.
Largest(c) == \A d \in Conn : Pair(d, c) => Random[d] <= Random[c]

\* The caller closes a connection after the other end has closed it, or because of the largest
\* one, which is a call of the other end; it has not called again then.
ClosedByOther ==
  \A c \in Conn : Called(c) /\ Closed(c, Caller(c)) =>
    \/ Closed(c, Callee(c))
    \/ \E g \in Conn :
         /\ Pair(g, c) /\ Largest(g) /\ Callee(g) = Caller(c) /\ g \in node[Caller(c)].known
         /\ \A d \in Listed(Caller(c)) : Pair(d, c) /\ Caller(d) = Caller(c) => d = c

\* The call of a node is greater than the calls of the same peer that it is closing.
OwnIsGreater ==
  \A c, d \in Conn :
    /\ Pair(c, d) /\ Caller(c) = Callee(d) /\ c \in Listed(Caller(c))
    /\ d \in node[Caller(c)].known /\ d \in node[Caller(c)].closing
    => Random[d] < Random[c]

\* Node n has identified no other connection of the two nodes than c and d, and has not
\* kept both.
Fresh(n, c, d) ==
  /\ \A e \in node[n].known : Pair(e, c) => e \in {c, d}
  /\ ~ ({c, d} \subseteq node[n].known \ node[n].closing)

\* Of two nodes that have called each other one compares just these two connections.
OneCompares ==
  \A c, d \in Conn :
    /\ Pair(c, d) /\ Caller(c) # Caller(d)
    /\ c \in Listed(Caller(c)) /\ d \in Listed(Caller(d))
    => Fresh(Caller(c), c, d) \/ Fresh(Caller(d), c, d)

Settling == failed = {} => ClosedByOther /\ OwnIsGreater /\ OneCompares

\* There are finitely many connections at any time.
Counted == \E b \in Nat : \A c \in Conn : Called(c) => c <= b

\* All that is known of the connections.
LinksInv == Typed /\ Linked /\ Counted /\ Beaten

\* All authorizations come from the administrator, those in the messages too.
Granted ==
  /\ \A n \in Node : Range(node[n].auth) \subseteq Range(node[Admin].auth)
  /\ \A c \in Conn, n \in Node : Lists(chan[c][n]) \subseteq Range(node[Admin].auth)

\* What the peer of the administrator on the connection c has, or will receive.
OnTheWay(c) == Range(node[Other(c, Admin)].auth) \cup Lists(chan[c][Other(c, Admin)])

\* The administrator has sent everything it has to the authorized peers it has identified.
PeersInformed ==
  \A c \in node[Admin].known : Other(c, Admin) \in Range(node[Admin].auth)
    => c \in node[Admin].authorized /\ Range(node[Admin].auth) \subseteq OnTheWay(c)

Informed == Undisturbed => PeersInformed

MembersInv == Typed /\ Linked /\ Granted /\ Informed

\* The random identifiers are different.
DifferentNumbers == \A c, d \in Conn : c # d => Random[c] # Random[d]

-----------------------------------------------------------------------------
(* What a step does to the lists of the nodes *)

Unmoved(n) ==
  Listed(n)' = Listed(n) /\ node'[n].known = node[n].known /\ node'[n].closing = node[n].closing
OthersUnmoved(n) == \A m \in Node \ {n} : Unmoved(m)

\* Nothing but messages and authorizations.
NoMove == (\A n \in Node : Unmoved(n)) /\ UNCHANGED <<ends, gone, failed>>

\* A new call of m to n.
Calling(m, n, c) ==
  /\ m # n /\ ~ Called(c) /\ ends' = [ends EXCEPT ![c] = <<m, n>>]
  /\ \A d \in Listed(m) \cap Between(m, n) : Caller(d) # m /\ d \notin node[m].known
  /\ Listed(m)' = Listed(m) \cup {c}
  /\ node'[m].known = node[m].known /\ node'[m].closing = node[m].closing
  /\ OthersUnmoved(m) /\ UNCHANGED <<gone, failed>>

\* The call reaches n.
Accepting(n, c) ==
  /\ Called(c) /\ Callee(c) = n /\ n \notin gone[c]
  /\ Listed(n)' = Listed(n) \cup {c}
  /\ node'[n].known = node[n].known /\ node'[n].closing = node[n].closing
  /\ OthersUnmoved(n) /\ UNCHANGED <<ends, gone, failed>>

\* n learns whose connection it is, and may find that it has one already.
Identifying(n, c) ==
  /\ c \in Listed(n) /\ c \notin node[n].closing
  /\ Listed(n)' = Listed(n) /\ node'[n].known = node[n].known \cup {c}
  /\ \/ /\ \A d \in node[n].known : d # c => Other(d, n) # Other(c, n)
        /\ node'[n].closing = node[n].closing
     \/ \E d \in node[n].known :
          /\ d # c /\ Other(d, n) = Other(c, n)
          /\ node'[n].closing = node[n].closing \cup {choose_duplicate_connection(d, c)}
  /\ OthersUnmoved(n) /\ UNCHANGED <<ends, gone, failed>>

\* The other end is gone, or the connection has failed.
Dropping(n, c) ==
  /\ c \in Listed(n) /\ c \notin node[n].closing
  /\ Listed(n)' = Listed(n) /\ node'[n].known = node[n].known
  /\ node'[n].closing = node[n].closing \cup {c}
  /\ (Other(c, n) \in gone[c] /\ failed' = failed) \/ failed' = failed \cup {c}
  /\ OthersUnmoved(n) /\ UNCHANGED <<ends, gone>>

\* The connection is closed at n.
Leaving(n, c) ==
  /\ c \in node[n].closing
  /\ Listed(n)' = Listed(n) \ {c}
  /\ node'[n].known = node[n].known \ {c} /\ node'[n].closing = node[n].closing \ {c}
  /\ gone' = [gone EXCEPT ![c] = @ \cup {n}]
  /\ OthersUnmoved(n) /\ UNCHANGED <<ends, failed>>

Move ==
  \/ NoMove
  \/ \E m, n \in Node, c \in Conn : Calling(m, n, c)
  \/ \E n \in Node, c \in Conn :
       Accepting(n, c) \/ Identifying(n, c) \/ Dropping(n, c) \/ Leaving(n, c)

-----------------------------------------------------------------------------
(* Sequences and loops *)

\* A sequence contains the elements of its range.
LEMMA ContainsIsRange ==
  ASSUME NEW q, NEW S, q \in Seq(S), NEW x
  PROVE  Contains(q, x) <=> x \in Range(q)
BY DEF Contains, Range

\* The range of a sequence with one more element.
LEMMA AppendRange ==
  ASSUME NEW S, NEW q \in Seq(S), NEW x \in S
  PROVE  /\ Append(q, x) \in Seq(S) /\ Range(Append(q, x)) = Range(q) \cup {x}
         /\ x \notin Range(q) /\ IsInjective(q) => IsInjective(Append(q, x))
<1>1. /\ Append(q, x) \in Seq(S) /\ Len(Append(q, x)) = Len(q) + 1 /\ Len(q) \in Nat
      /\ \A i \in 1 .. Len(q) : Append(q, x)[i] = q[i]
      /\ Append(q, x)[Len(q) + 1] = x
      /\ DOMAIN q = 1 .. Len(q) /\ DOMAIN Append(q, x) = 1 .. Len(q) + 1
  OBVIOUS
<1>2. 1 .. Len(q) + 1 = 1 .. Len(q) \cup {Len(q) + 1}
  BY <1>1
<1>3. Range(Append(q, x)) = Range(q) \cup {x}
  BY <1>1, <1>2 DEF Range
<1>4. ASSUME x \notin Range(q), IsInjective(q)
      PROVE  IsInjective(Append(q, x))
  BY <1>1, <1>2, <1>4 DEF Range, IsInjective
<1> QED BY <1>1, <1>3, <1>4

\* A non-empty set of positive numbers has a least element.
LEMMA MinOfSet ==
  ASSUME NEW I \in SUBSET Nat, I # {}
  PROVE  Min(I) \in I /\ \A j \in I : Min(I) <= j
<1>1. \E x \in I : \A y \in I : ~ (<<y, x>> \in OpToRel(<, Nat))
  BY NatLessThanWellFounded, WFMin
<1>2. \E x \in I : \A y \in I : ~ (y < x)
  BY <1>1 DEF OpToRel
<1>3. \E x \in I : \A y \in I : x <= y
  BY <1>2
<1> QED BY <1>3 DEF Min

\* The sequence without the first occurrence of an element.
LEMMA RemoveFirstRange ==
  ASSUME NEW S, NEW q \in Seq(S), NEW x
  PROVE  /\ RemoveFirst(q, x) \in Seq(S)
         /\ Range(q) \ {x} \subseteq Range(RemoveFirst(q, x))
         /\ Range(RemoveFirst(q, x)) \subseteq Range(q)
         /\ IsInjective(q) => /\ IsInjective(RemoveFirst(q, x))
                              /\ Range(RemoveFirst(q, x)) = Range(q) \ {x}
<1>1. CASE ~ \E i \in 1 .. Len(q) : q[i] = x
  <2>1. RemoveFirst(q, x) = q
    BY <1>1 DEF RemoveFirst
  <2>2. x \notin Range(q)
    BY <1>1 DEF Range
  <2> QED BY <2>1, <2>2
<1>2. CASE \E i \in 1 .. Len(q) : q[i] = x
  <2> DEFINE I == {i \in 1 .. Len(q) : q[i] = x}
             k == Min(I)
             r == RemoveFirst(q, x)
  <2>1. k \in 1 .. Len(q) /\ q[k] = x
    <3>1. I \in SUBSET Nat /\ I # {}
      BY <1>2
    <3>2. k \in I
      BY <3>1, MinOfSet
    <3> QED BY <3>2
  <2>2. r = SubSeq(q, 1, k - 1) \o SubSeq(q, k + 1, Len(q))
    BY <1>2 DEF RemoveFirst, RemoveAt, SelectInSeq
  <2> HIDE DEF k, r
  <2>3. Len(q) \in Nat /\ DOMAIN q = 1 .. Len(q) /\ k \in Nat /\ 1 <= k /\ k <= Len(q)
    BY <2>1
  <2>4. /\ SubSeq(q, 1, k - 1) \in Seq(S) /\ Len(SubSeq(q, 1, k - 1)) = k - 1
        /\ \A i \in 1 .. k - 1 : SubSeq(q, 1, k - 1)[i] = q[i]
    BY <2>1, <2>3
  <2>5. /\ SubSeq(q, k + 1, Len(q)) \in Seq(S) /\ Len(SubSeq(q, k + 1, Len(q))) = Len(q) - k
        /\ \A i \in 1 .. Len(q) - k : SubSeq(q, k + 1, Len(q))[i] = q[k + i]
    <3>1. k + 1 \in 1 .. Len(q) + 1 /\ Len(q) \in k .. Len(q)
      BY <2>1, <2>3
    <3>2. /\ SubSeq(q, k + 1, Len(q)) \in Seq(S)
          /\ Len(SubSeq(q, k + 1, Len(q))) = IF k + 1 <= Len(q) THEN Len(q) - (k + 1) + 1 ELSE 0
          /\ \A i \in 1 .. Len(q) - (k + 1) + 1 : SubSeq(q, k + 1, Len(q))[i] = q[k + 1 + i - 1]
      BY <3>1, SubSeqProperties
    <3>3. Len(q) - (k + 1) + 1 = Len(q) - k /\ (~ (k + 1 <= Len(q)) => Len(q) - k = 0)
      <4>1. \A l, j \in Nat : j <= l => l - (j + 1) + 1 = l - j /\ (~ (j + 1 <= l) => l - j = 0)
        OBVIOUS
      <4> QED BY <2>3, <4>1
    <3>4. \A i \in 1 .. Len(q) - k : k + 1 + i - 1 = k + i
      BY <2>1, <2>3
    <3> HIDE DEF I
    <3>5. Len(SubSeq(q, k + 1, Len(q))) = Len(q) - k
      BY <2>3, <3>2, <3>3
    <3>6. \A i \in 1 .. Len(q) - k : SubSeq(q, k + 1, Len(q))[i] = q[k + i]
      BY <3>2, <3>3, <3>4
    <3> QED BY <3>2, <3>5, <3>6
  <2>6. /\ r \in Seq(S) /\ Len(r) = Len(q) - 1 /\ DOMAIN r = 1 .. Len(q) - 1
        /\ \A i \in 1 .. k - 1 : r[i] = q[i]
        /\ \A i \in k .. Len(q) - 1 : r[i] = q[i + 1]
    <3> DEFINE u == SubSeq(q, 1, k - 1)
               v == SubSeq(q, k + 1, Len(q))
    <3> HIDE DEF u, v
    <3>1. /\ u \in Seq(S) /\ Len(u) = k - 1 /\ \A i \in 1 .. k - 1 : u[i] = q[i]
          /\ v \in Seq(S) /\ Len(v) = Len(q) - k /\ \A i \in 1 .. Len(q) - k : v[i] = q[k + i]
          /\ r = u \o v
      BY <2>2, <2>4, <2>5 DEF u, v
    <3>2. r \in Seq(S) /\ Len(r) = Len(q) - 1 /\ DOMAIN r = 1 .. Len(q) - 1
      <4>1. r \in Seq(S) /\ Len(r) = Len(u) + Len(v)
        BY <3>1, ConcatProperties
      <4>2. Len(r) = Len(q) - 1
        BY <2>3, <3>1, <4>1
      <4> QED BY <4>1, <4>2
    <3>3. \A i \in 1 .. k - 1 : r[i] = q[i]
      BY <2>1, <2>3, <3>1
    <3>4. ASSUME NEW i \in k .. Len(q) - 1
          PROVE  r[i] = q[i + 1]
      <4>1. i - (k - 1) \in 1 .. Len(q) - k /\ k + (i - (k - 1)) = i + 1
        BY <2>1, <2>3
      <4>2. r[i] = v[i - (k - 1)]
        <5>1. i \in 1 .. Len(u) + Len(v) /\ i > Len(u)
          BY <2>3, <3>1
        <5> QED BY <3>1, <5>1, ConcatProperties
      <4> QED BY <3>1, <4>1, <4>2
    <3> QED BY <3>2, <3>3, <3>4
  <2>7. \A i \in 1 .. Len(q) - 1 : \E j \in 1 .. Len(q) : j # k /\ r[i] = q[j]
    BY <2>1, <2>3, <2>6
  <2>8. \A j \in 1 .. Len(q) : j # k => \E i \in 1 .. Len(q) - 1 : r[i] = q[j]
    <3> SUFFICES ASSUME NEW j \in 1 .. Len(q), j # k
                 PROVE  \E i \in 1 .. Len(q) - 1 : r[i] = q[j]
      OBVIOUS
    <3>1. CASE j < k
      BY <2>1, <2>3, <2>6, <3>1
    <3>2. CASE j > k
      <4>1. j - 1 \in k .. Len(q) - 1 /\ j - 1 \in 1 .. Len(q) - 1 /\ (j - 1) + 1 = j
        BY <2>1, <2>3, <3>2
      <4> QED BY <2>6, <4>1
    <3> QED BY <2>1, <2>3, <3>1, <3>2
  <2>9. Range(q) \ {x} \subseteq Range(r) /\ Range(r) \subseteq Range(q)
    <3>1. /\ Range(q) = {q[j] : j \in 1 .. Len(q)}
          /\ Range(r) = {r[i] : i \in 1 .. Len(q) - 1}
      BY <2>3, <2>6 DEF Range
    <3>2. \A y \in Range(q) \ {x} : y \in Range(r)
      BY <2>1, <2>8, <3>1
    <3>3. \A y \in Range(r) : y \in Range(q)
      BY <2>7, <3>1
    <3> QED BY <3>2, <3>3
  <2>10. ASSUME IsInjective(q)
         PROVE  IsInjective(r) /\ Range(r) = Range(q) \ {x}
    <3>1. \A a, b \in 1 .. Len(q) : q[a] = q[b] => a = b
      BY <2>3, <2>10 DEF IsInjective
    <3>2. IsInjective(r)
      <4> SUFFICES ASSUME NEW a \in 1 .. Len(q) - 1, NEW b \in 1 .. Len(q) - 1, r[a] = r[b]
                   PROVE  a = b
        BY <2>6 DEF IsInjective
      <4> DEFINE at(i) == IF i < k THEN i ELSE i + 1
      <4>1. \A i \in 1 .. Len(q) - 1 : r[i] = q[at(i)] /\ at(i) \in 1 .. Len(q)
        BY <2>1, <2>3, <2>6
      <4>2. at(a) = at(b)
        BY <3>1, <4>1
      <4> QED BY <2>1, <2>3, <4>2
    <3>3. x \notin Range(r)
      BY <2>1, <2>6, <2>7, <3>1 DEF Range
    <3> QED BY <2>9, <3>2, <3>3
  <2> QED BY <2>6, <2>9, <2>10 DEF r
<1> QED BY <1>1, <1>2

\* What holds of 0 and is passed on to the next number holds of all.
LEMMA UpTo ==
  ASSUME NEW N \in Nat, NEW S, 0 \in S, \A k \in 0 .. N : k \in S /\ k < N => k + 1 \in S
  PROVE  0 .. N \subseteq S
<1> DEFINE T == {k \in 0 .. N : k \notin S}
<1>1. SUFFICES ASSUME T # {}
               PROVE  FALSE
  OBVIOUS
<1>2. T \in SUBSET Nat
  OBVIOUS
<1>3. Min(T) \in T /\ \A j \in T : Min(T) <= j
  BY <1>1, <1>2, MinOfSet
<1>4. Min(T) \in 0 .. N /\ Min(T) \notin S /\ Min(T) # 0
  BY <1>3
<1>5. Min(T) - 1 \in 0 .. N /\ Min(T) - 1 < N /\ (Min(T) - 1) + 1 = Min(T)
  BY <1>4
<1>6. Min(T) - 1 \in S
  BY <1>3, <1>5
<1> QED BY <1>4, <1>5, <1>6

\* A loop of N rounds that begins with s and whose round i turns a state of H[i - 1]
\* into one of H[i] has states after each of its rounds.
LEMMA LoopHasStates ==
  ASSUME NEW N \in Nat, NEW H, NEW s \in H[0],
         NEW round, \A i \in 1 .. N : round[i] \in [H[i - 1] -> H[i]]
  PROVE  \E f : /\ f = [i \in 0 .. N |-> IF i = 0 THEN s ELSE round[i][f[i - 1]]]
                /\ \A i \in 0 .. N : f[i] \in H[i]
<1> DEFINE IsLoop(f, k) == /\ f = [i \in 0 .. k |-> f[i]] /\ f[0] = s
                           /\ \A i \in 1 .. k : f[i] = round[i][f[i - 1]]
                           /\ \A i \in 0 .. k : f[i] \in H[i]
           S == {k \in 0 .. N : \E f : IsLoop(f, k)}
<1>1. 0 \in S
  <2>1. IsLoop([i \in 0 .. 0 |-> s], 0)
    OBVIOUS
  <2> HIDE DEF IsLoop
  <2>2. 0 \in 0 .. N
    OBVIOUS
  <2> QED BY <2>1, <2>2
<1>2. ASSUME NEW k \in 0 .. N, k \in S, k < N
      PROVE  k + 1 \in S
  <2>1. PICK f : IsLoop(f, k)
    BY <1>2
  <2> DEFINE g == [i \in 0 .. k + 1 |-> IF i = k + 1 THEN round[i][f[k]] ELSE f[i]]
  <2>2. k + 1 \in 1 .. N /\ (k + 1) - 1 = k
    BY <1>2
  <2>3. round[k + 1][f[k]] \in H[k + 1]
    <3>1. round[k + 1] \in [H[k] -> H[k + 1]]
      BY <2>2
    <3>2. f[k] \in H[k]
      BY <2>1
    <3> QED BY <3>1, <3>2
  <2>4. g[k + 1] = round[k + 1][f[k]] /\ \A i \in 0 .. k : g[i] = f[i]
    BY <2>2
  <2>5. \A i \in 0 .. k + 1 : i \in 0 .. k \/ i = k + 1
    OBVIOUS
  <2>6. g[0] = s /\ \A i \in 0 .. k + 1 : g[i] \in H[i]
    BY <2>1, <2>3, <2>4, <2>5
  <2>7. ASSUME NEW i \in 1 .. k + 1
        PROVE  g[i] = round[i][g[i - 1]]
    <3>1. CASE i = k + 1
      BY <2>2, <2>4, <3>1
    <3>2. CASE i \in 1 .. k
      <4>1. i \in 0 .. k /\ i - 1 \in 0 .. k
        BY <3>2
      <4>2. g[i] = f[i] /\ g[i - 1] = f[i - 1] /\ f[i] = round[i][f[i - 1]]
        BY <2>1, <2>4, <3>2, <4>1
      <4> QED BY <4>2
    <3> QED BY <2>2, <3>1, <3>2
  <2>8. g = [i \in 0 .. k + 1 |-> g[i]]
    OBVIOUS
  <2> HIDE DEF g
  <2>9. IsLoop(g, k + 1)
    BY <2>6, <2>7, <2>8
  <2> HIDE DEF IsLoop
  <2>10. k + 1 \in 0 .. N
    BY <2>2
  <2> QED BY <2>9, <2>10
<1>3. N \in S
  <2> HIDE DEF S
  <2>1. \A k \in 0 .. N : k \in S /\ k < N => k + 1 \in S
    BY <1>2
  <2>2. 0 .. N \subseteq S
    BY <1>1, <2>1, UpTo
  <2> QED BY <2>2
<1>4. PICK f : IsLoop(f, N)
  BY <1>3
<1>5. f = [i \in 0 .. N |-> IF i = 0 THEN s ELSE round[i][f[i - 1]]]
  <2>1. \A i \in 0 .. N : i = 0 \/ i \in 1 .. N
    OBVIOUS
  <2>2. \A i \in 0 .. N : f[i] = IF i = 0 THEN s ELSE round[i][f[i - 1]]
    BY <1>4, <2>1
  <2> QED BY <1>4, <2>2
<1> QED BY <1>4, <1>5

-----------------------------------------------------------------------------
(* Authorizations *)

\* The authorizations in a message more.
LEMMA ListsAppend ==
  ASSUME NEW q \in Seq(Message), NEW msg \in Message
  PROVE  Append(q, msg) \in Seq(Message) /\ Lists(Append(q, msg)) = Lists(q) \cup Range(msg.list)
<1>1. /\ Append(q, msg) \in Seq(Message) /\ Len(Append(q, msg)) = Len(q) + 1 /\ Len(q) \in Nat
      /\ \A i \in 1 .. Len(q) : Append(q, msg)[i] = q[i]
      /\ Append(q, msg)[Len(q) + 1] = msg
  OBVIOUS
<1>2. 1 .. Len(q) + 1 = 1 .. Len(q) \cup {Len(q) + 1}
  BY <1>1
<1>3. \A i \in 1 .. Len(q) : Range(Append(q, msg)[i].list) = Range(q[i].list)
  BY <1>1
<1>4. Lists(Append(q, msg)) = UNION {Range(Append(q, msg)[i].list) : i \in 1 .. Len(q) + 1}
  BY <1>1 DEF Lists
<1> QED BY <1>1, <1>2, <1>3, <1>4 DEF Lists

\* An authorization is stored once, and sent to the node itself with all the others.
LEMMA NewAuthorization ==
  ASSUME NEW n \in Node, NEW s, Orderly(n, s), NEW x \in Node, NEW from_this_node \in BOOLEAN
  PROVE  LET t == on_new_authorization(n, s, x, from_this_node)
         IN /\ Orderly(n, t) /\ SamePeers(s, t)
            /\ Range(t.auth) = Range(s.auth) \cup {x}
            /\ x \in Range(s.auth) => t = [s EXCEPT !.rc = FALSE]
            /\ \A c \in Conn : Lists(t.out[c]) \subseteq Lists(s.out[c]) \cup Range(t.auth)
            /\ \A way : from_this_node /\ s.closing = {} /\ Covered(n, s, way) => Covered(n, t, way)
<1> DEFINE t == on_new_authorization(n, s, x, from_this_node)
<1>1. CASE x \in Range(s.auth)
  <2>1. Contains(s.auth, x)
    BY <1>1, ContainsIsRange DEF Orderly, Handling
  <2>2. t = [s EXCEPT !.rc = FALSE]
    BY <2>1 DEF on_new_authorization
  <2>3. s \in Handling
    BY DEF Orderly
  <2>4. /\ t \in Handling /\ SamePeers(s, t) /\ t.auth = s.auth /\ t.out = s.out
        /\ t.authorized = s.authorized /\ t.accepted = s.accepted
    BY <2>2, <2>3 DEF Handling, SamePeers
  <2> HIDE DEF t
  <2>5. Orderly(n, t)
    BY <2>4 DEF Orderly, SamePeers
  <2>6. \A way : Covered(n, s, way) => Covered(n, t, way)
    BY <2>4 DEF Covered, SamePeers
  <2> QED BY <1>1, <2>2, <2>4, <2>5, <2>6 DEF t
<1>2. CASE x \notin Range(s.auth)
  <2> DEFINE auth == Append(s.auth, x)
             told == Told(n, s, x, from_this_node)
             to_x == {c \in told : IsTo(n, s, c, x)}
             msg(c) == Authorization(IF c \in to_x THEN auth ELSE <<x>>)
             out == [c \in Conn |-> IF c \in told \ s.closing THEN Append(s.out[c], msg(c)) ELSE s.out[c]]
  <2>1. s \in Handling /\ s.auth \in Seq(Node) /\ s.out \in [Conn -> Seq(Message)] /\ s.known \subseteq Conn
    BY DEF Orderly, Handling
  <2>2. ~ Contains(s.auth, x)
    BY <1>2, <2>1, ContainsIsRange
  <2>3. t = [s EXCEPT !.auth = auth, !.authorized = @ \cup to_x, !.accepted = @ \cup (to_x \ s.closing),
                      !.out = out, !.rc = told \cap s.closing = {}]
    BY <2>2 DEF on_new_authorization
  <2>4. auth \in Seq(Node) /\ Range(auth) = Range(s.auth) \cup {x}
    BY <2>1, AppendRange
  <2>5. \A c \in to_x : c \in s.known /\ Other(c, n) = x
    BY DEF IsTo
  <2>6. \A c \in Conn : msg(c) \in Message /\ Range(msg(c).list) \subseteq Range(auth)
    <3>1. <<x>> \in Seq(Node) /\ Range(<<x>>) = {x}
      BY DEF Range
    <3> HIDE DEF auth, to_x
    <3> QED BY <2>4, <3>1 DEF Authorization, Message
  <2> HIDE DEF auth, told, to_x, msg
  <2>7. /\ out \in [Conn -> Seq(Message)]
        /\ \A c \in Conn : /\ Lists(s.out[c]) \subseteq Lists(out[c])
                           /\ Lists(out[c]) \subseteq Lists(s.out[c]) \cup Range(auth)
                           /\ c \in told \ s.closing
                              => Lists(out[c]) = Lists(s.out[c]) \cup Range(msg(c).list)
    <3>1. \A c \in Conn : Append(s.out[c], msg(c)) \in Seq(Message)
                          /\ Lists(Append(s.out[c], msg(c))) = Lists(s.out[c]) \cup Range(msg(c).list)
      BY <2>1, <2>6, ListsAppend
    <3>2. \A c \in Conn : out[c] = IF c \in told \ s.closing THEN Append(s.out[c], msg(c)) ELSE s.out[c]
      OBVIOUS
    <3>3. \A c \in Conn : out[c] \in Seq(Message)
      BY <2>1, <3>1, <3>2
    <3> QED BY <2>6, <3>1, <3>2, <3>3
  <2> HIDE DEF out
  <2>8. /\ t \in Handling /\ SamePeers(s, t) /\ t.auth = auth /\ t.out = out
        /\ t.authorized = s.authorized \cup to_x /\ t.accepted = s.accepted \cup (to_x \ s.closing)
    <3>1. to_x \subseteq s.known
      BY <2>5
    <3>2. PICK ok \in BOOLEAN : ok = (told \cap s.closing = {})
      OBVIOUS
    <3>3. t = [s EXCEPT !.auth = auth, !.authorized = s.authorized \cup to_x,
                        !.accepted = s.accepted \cup (to_x \ s.closing), !.out = out, !.rc = ok]
      BY <2>1, <2>3, <3>2 DEF Handling
    <3> HIDE DEF t
    <3> QED BY <2>1, <2>4, <2>7, <3>1, <3>3 DEF Handling, SamePeers
  <2> HIDE DEF t
  <2>9. Orderly(n, t)
    BY <2>4, <2>5, <2>8 DEF Orderly, SamePeers
  <2>10. ASSUME NEW way, from_this_node, s.closing = {}, Covered(n, s, way)
         PROVE  Covered(n, t, way)
    <3> SUFFICES ASSUME NEW c \in s.known, Other(c, n) \in Range(auth)
                 PROVE  /\ c \in s.authorized \cup to_x
                        /\ Range(auth) \subseteq way[c] \cup Lists(out[c])
      BY <2>8 DEF Covered, SamePeers
    <3>1. told = {d \in Range(s.peers) : IsTo(n, s, d, x) \/ d \in s.authorized}
      <4> DEFINE concerned(d) == IsTo(n, s, d, x) \/ (from_this_node /\ d \in s.authorized)
      <4>1. SelectInSeq(s.peers, LAMBDA d : concerned(d) /\ d \in s.closing) = 0
        BY <2>10 DEF SelectInSeq
      <4> QED BY <2>10, <4>1 DEF told, Told
    <3>2. c \in Conn /\ c \in Range(s.peers)
      BY <2>1 DEF Orderly
    <3>3. CASE Other(c, n) = x
      <4>1. c \in to_x /\ c \in told
        BY <3>1, <3>2, <3>3 DEF to_x, IsTo
      <4>2. msg(c).list = auth
        BY <4>1 DEF msg, Authorization
      <4> QED BY <2>7, <2>10, <3>2, <4>1, <4>2
    <3>4. CASE Other(c, n) # x
      <4>1. c \in s.authorized /\ Range(s.auth) \subseteq way[c] \cup Lists(s.out[c])
        BY <2>4, <2>10, <3>4 DEF Covered
      <4>2. c \in told /\ c \notin to_x
        BY <3>1, <3>2, <3>4, <4>1 DEF to_x, IsTo
      <4>3. Range(msg(c).list) = {x}
        BY <4>2 DEF msg, Authorization, Range
      <4> QED BY <2>4, <2>7, <2>10, <3>2, <4>1, <4>2, <4>3
    <3> QED BY <3>3, <3>4
  <2> QED BY <1>2, <2>4, <2>7, <2>8, <2>9, <2>10 DEF t
<1> QED BY <1>1, <1>2

\* The loop over a list that was received: all of it is stored; a list without
\* news changes nothing.
LEMMA AuthorizationsReceived ==
  ASSUME NEW n \in Node, NEW s, Orderly(n, s), NEW list \in Seq(Node)
  PROVE  LET t == on_authorization_received(n, s, list)
         IN /\ Orderly(n, t) /\ SamePeers(s, t)
            /\ Range(t.auth) = Range(s.auth) \cup Range(list)
            /\ \A c \in Conn : Lists(t.out[c]) \subseteq Lists(s.out[c]) \cup Range(t.auth)
            /\ Range(list) \subseteq Range(s.auth) => \E ok \in BOOLEAN : t = [s EXCEPT !.rc = ok]
<1> DEFINE N == Len(list)
           learned(i) == {list[j] : j \in 1 .. i}
           Good(t, i) == /\ Orderly(n, t) /\ SamePeers(s, t)
                         /\ Range(t.auth) = Range(s.auth) \cup learned(i)
                         /\ \A c \in Conn : Lists(t.out[c]) \subseteq Lists(s.out[c]) \cup Range(t.auth)
                         /\ Range(list) \subseteq Range(s.auth)
                            => \E ok \in BOOLEAN : t = [s EXCEPT !.rc = ok]
           H == [i \in 0 .. N |-> {t \in Handling : Good(t, i)}]
           round == [i \in 1 .. N |-> [t \in H[i - 1] |-> on_new_authorization(n, t, list[i], FALSE)]]
           IsLoop(f) == f = [i \in 0 .. N |-> IF i = 0 THEN s
                                              ELSE on_new_authorization(n, f[i - 1], list[i], FALSE)]
<1>1. N \in Nat /\ Range(list) = learned(N) /\ \A i \in 1 .. N : list[i] \in Node /\ list[i] \in Range(list)
  BY DEF Range
<1>2. s \in Handling /\ Good(s, 0)
  <2>1. s \in Handling /\ s = [s EXCEPT !.rc = s.rc] /\ s.rc \in BOOLEAN
    BY DEF Orderly, Handling
  <2>2. learned(0) = {}
    OBVIOUS
  <2> HIDE DEF learned
  <2> QED BY <2>1, <2>2 DEF SamePeers
<1>3. ASSUME NEW i \in 1 .. N, NEW t \in Handling, Good(t, i - 1)
      PROVE  /\ on_new_authorization(n, t, list[i], FALSE) \in Handling
             /\ Good(on_new_authorization(n, t, list[i], FALSE), i)
  <2> DEFINE u == on_new_authorization(n, t, list[i], FALSE)
  <2>1. /\ Orderly(n, u) /\ SamePeers(t, u) /\ Range(u.auth) = Range(t.auth) \cup {list[i]}
        /\ list[i] \in Range(t.auth) => u = [t EXCEPT !.rc = FALSE]
        /\ \A c \in Conn : Lists(u.out[c]) \subseteq Lists(t.out[c]) \cup Range(u.auth)
    <3>1. list[i] \in Node /\ Orderly(n, t)
      BY <1>1, <1>3
    <3> HIDE DEF N
    <3> QED BY <3>1, NewAuthorization
  <2> HIDE DEF u
  <2>2. learned(i) = learned(i - 1) \cup {list[i]}
    <3>1. 1 .. i = 1 .. i - 1 \cup {i}
      OBVIOUS
    <3> QED BY <3>1
  <2>3. ASSUME Range(list) \subseteq Range(s.auth)
        PROVE  \E ok \in BOOLEAN : u = [s EXCEPT !.rc = ok]
    <3>1. PICK ok \in BOOLEAN : t = [s EXCEPT !.rc = ok]
      BY <1>3, <2>3
    <3>2. list[i] \in Range(t.auth)
      BY <1>1, <1>3, <2>3
    <3>3. u = [s EXCEPT !.rc = FALSE]
      BY <1>2, <2>1, <3>1, <3>2 DEF Handling
    <3> QED BY <3>3
  <2> HIDE DEF learned
  <2>4. Good(u, i)
    BY <1>3, <2>1, <2>2, <2>3 DEF SamePeers
  <2>5. u \in Handling
    BY <2>1 DEF Orderly
  <2> QED BY <2>4, <2>5 DEF u
<1> HIDE DEF Good
<1>4. \A i \in 1 .. N : round[i] \in [H[i - 1] -> H[i]]
  <2> SUFFICES ASSUME NEW i \in 1 .. N
               PROVE  round[i] \in [H[i - 1] -> H[i]]
    OBVIOUS
  <2>1. i \in 0 .. N /\ i - 1 \in 0 .. N
    BY <1>1
  <2>2. H[i] = {t \in Handling : Good(t, i)} /\ H[i - 1] = {t \in Handling : Good(t, i - 1)}
    BY <2>1
  <2> HIDE DEF H
  <2> QED BY <1>3, <2>2
<1>5. PICK f : /\ f = [i \in 0 .. N |-> IF i = 0 THEN s ELSE round[i][f[i - 1]]]
               /\ \A i \in 0 .. N : f[i] \in H[i]
  <2>1. s \in H[0]
    BY <1>1, <1>2
  <2>2. N \in Nat
    BY <1>1
  <2> HIDE DEF N, H, round
  <2>3. \A HH : s \in HH[0] =>
          \A rr : (\A i \in 1 .. N : rr[i] \in [HH[i - 1] -> HH[i]]) =>
             \E f : /\ f = [i \in 0 .. N |-> IF i = 0 THEN s ELSE rr[i][f[i - 1]]]
                    /\ \A i \in 0 .. N : f[i] \in HH[i]
    BY <2>2, LoopHasStates, Zenon
  <2>4. \A rr : (\A i \in 1 .. N : rr[i] \in [H[i - 1] -> H[i]]) =>
             \E f : /\ f = [i \in 0 .. N |-> IF i = 0 THEN s ELSE rr[i][f[i - 1]]]
                    /\ \A i \in 0 .. N : f[i] \in H[i]
    BY <2>1, <2>3, Zenon
  <2> QED BY <1>4, <2>4, Zenon
<1>6. \A i \in 1 .. N : i \in 0 .. N /\ i - 1 \in 0 .. N
  BY <1>1
<1>7. IsLoop(f)
  <2>1. \A i \in 1 .. N : round[i][f[i - 1]] = on_new_authorization(n, f[i - 1], list[i], FALSE)
    <3> HIDE DEF H
    <3> QED BY <1>5, <1>6
  <2> HIDE DEF round
  <2>2. \A i \in 0 .. N : i = 0 \/ i \in 1 .. N
    BY <1>1
  <2> QED BY <1>5, <2>1, <2>2
<1> DEFINE after == CHOOSE g : IsLoop(g)
<1>8. IsLoop(after)
  <2> HIDE DEF IsLoop
  <2> QED BY <1>7
<1>9. on_authorization_received(n, s, list) = after[N]
  BY DEF on_authorization_received
<1> HIDE DEF after
<1>10. 0 .. N \subseteq {i \in 0 .. N : after[i] \in H[i]}
  <2> DEFINE S == {i \in 0 .. N : after[i] \in H[i]}
  <2>1. 0 \in S
    BY <1>1, <1>2, <1>8
  <2>2. ASSUME NEW k \in 0 .. N, k \in S, k < N
        PROVE  k + 1 \in S
    <3>1. k + 1 \in 1 .. N /\ k + 1 \in 0 .. N /\ (k + 1) - 1 = k /\ k + 1 # 0
      BY <1>1, <2>2
    <3>2. after[k + 1] = on_new_authorization(n, after[k], list[k + 1], FALSE)
      BY <1>8, <3>1
    <3>3. after[k] \in Handling /\ Good(after[k], k)
      BY <2>2
    <3>4. after[k + 1] \in Handling /\ Good(after[k + 1], k + 1)
      BY <1>3, <3>1, <3>2, <3>3
    <3> QED BY <3>1, <3>4
  <2> HIDE DEF S
  <2>3. 0 .. N \subseteq S
    BY <1>1, <2>1, <2>2, UpTo
  <2> QED BY <2>3 DEF S
<1>11. Good(after[N], N)
  BY <1>1, <1>10
<1> QED BY <1>1, <1>9, <1>11 DEF Good

\* The loop over the queue of the administrator's authorizations.
LEMMA SpecialsProcessed ==
  ASSUME NEW n \in Node, NEW s, Orderly(n, s)
  PROVE  LET t == Processed(n, s)
         IN /\ Orderly(n, t)
            /\ t.peers = s.peers /\ t.known = s.known /\ t.closing = s.closing
            /\ Range(s.auth) \subseteq Range(t.auth)
            /\ \A c \in Conn : Lists(t.out[c]) \subseteq Lists(s.out[c]) \cup Range(t.auth)
            /\ \A way : s.closing = {} /\ Covered(n, s, way) => Covered(n, t, way)
<1> DEFINE N == Len(s.special)
           Good(t, i) == /\ Orderly(n, t)
                         /\ t.peers = s.peers /\ t.known = s.known /\ t.closing = s.closing
                         /\ Range(s.auth) \subseteq Range(t.auth)
                         /\ \A c \in Conn : Lists(t.out[c]) \subseteq Lists(s.out[c]) \cup Range(t.auth)
                         /\ \A way : s.closing = {} /\ Covered(n, s, way) => Covered(n, t, way)
                         /\ t.rc => t.special = SubSeq(s.special, i + 1, N)
           Round(t, i) == IF t.rc
                          THEN [on_new_authorization(n, t, s.special[i], TRUE) EXCEPT !.special = Tail(@)]
                          ELSE t
           H == [i \in 0 .. N |-> {t \in Handling : Good(t, i)}]
           round == [i \in 1 .. N |-> [t \in H[i - 1] |-> Round(t, i)]]
           first == [s EXCEPT !.rc = TRUE]
           IsLoop(f) == f = [i \in 0 .. N |-> IF i = 0 THEN first
                                              ELSE IF f[i - 1].rc
                                              THEN [on_new_authorization(n, f[i - 1], s.special[i], TRUE)
                                                      EXCEPT !.special = Tail(@)]
                                              ELSE f[i - 1]]
<1>1. s \in Handling /\ s.special \in Seq(Node) /\ N \in Nat /\ \A i \in 1 .. N : s.special[i] \in Node
  BY DEF Orderly, Handling
<1>2. first \in Handling /\ Good(first, 0)
  <2>1. /\ first \in Handling /\ first.auth = s.auth /\ first.peers = s.peers /\ first.known = s.known
        /\ first.closing = s.closing /\ first.out = s.out /\ first.special = s.special
        /\ first.authorized = s.authorized /\ first.accepted = s.accepted /\ first.connected = s.connected
    BY <1>1 DEF Handling
  <2> HIDE DEF first
  <2>2. Orderly(n, first)
    BY <2>1 DEF Orderly
  <2>3. \A way : Covered(n, s, way) => Covered(n, first, way)
    BY <2>1 DEF Covered
  <2>4. SubSeq(s.special, 0 + 1, N) = s.special
    BY <1>1, SubSeqFull
  <2> QED BY <2>1, <2>2, <2>3, <2>4
<1>3. ASSUME NEW i \in 1 .. N, NEW t \in Handling, Good(t, i - 1)
      PROVE  Round(t, i) \in Handling /\ Good(Round(t, i), i)
  <2>1. CASE ~ t.rc
    BY <1>3, <2>1
  <2>2. CASE t.rc
    <3> DEFINE u == on_new_authorization(n, t, s.special[i], TRUE)
               v == [u EXCEPT !.special = Tail(@)]
    <3>1. /\ Orderly(n, u) /\ SamePeers(t, u) /\ Range(u.auth) = Range(t.auth) \cup {s.special[i]}
          /\ \A c \in Conn : Lists(u.out[c]) \subseteq Lists(t.out[c]) \cup Range(u.auth)
          /\ \A way : t.closing = {} /\ Covered(n, t, way) => Covered(n, u, way)
      <4>1. s.special[i] \in Node /\ TRUE \in BOOLEAN /\ Orderly(n, t)
        BY <1>1, <1>3
      <4> QED BY <4>1, NewAuthorization
    <3> HIDE DEF u
    <3>2. u.special = SubSeq(s.special, i, N) /\ u \in Handling
      <4>1. (i - 1) + 1 = i
        OBVIOUS
      <4> QED BY <1>3, <2>2, <3>1, <4>1 DEF SamePeers, Orderly
    <3>3. Tail(u.special) = SubSeq(s.special, i + 1, N) /\ Tail(u.special) \in Seq(Node)
      <4>1. Tail(u.special) = SubSeq(s.special, i + 1, N)
        BY <1>1, <3>2, HeadTailOfSubSeq
      <4>2. i + 1 \in 1 .. Len(s.special) + 1 /\ N \in i .. Len(s.special)
        BY <1>1
      <4>3. SubSeq(s.special, i + 1, N) \in Seq(Node)
        BY <1>1, <4>2, SubSeqProperties
      <4> QED BY <4>1, <4>3
    <3>4. /\ v \in Handling /\ v.auth = u.auth /\ v.peers = u.peers /\ v.known = u.known
          /\ v.closing = u.closing /\ v.out = u.out /\ v.special = SubSeq(s.special, i + 1, N)
          /\ v.authorized = u.authorized /\ v.accepted = u.accepted /\ v.connected = u.connected
      BY <3>2, <3>3 DEF Handling
    <3>5. Round(t, i) = v
      BY <2>2 DEF u
    <3> HIDE DEF v, Round
    <3>6. Orderly(n, v)
      BY <3>1, <3>4 DEF Orderly
    <3>7. \A way : Covered(n, u, way) => Covered(n, v, way)
      BY <3>4 DEF Covered
    <3>8. Good(v, i)
      BY <1>3, <3>1, <3>4, <3>6, <3>7 DEF SamePeers
    <3> QED BY <3>4, <3>5, <3>8
  <2> QED BY <2>1, <2>2
<1> HIDE DEF Good
<1>4. \A i \in 1 .. N : round[i] \in [H[i - 1] -> H[i]]
  <2> SUFFICES ASSUME NEW i \in 1 .. N
               PROVE  round[i] \in [H[i - 1] -> H[i]]
    OBVIOUS
  <2>1. i \in 0 .. N /\ i - 1 \in 0 .. N
    BY <1>1
  <2>2. H[i] = {t \in Handling : Good(t, i)} /\ H[i - 1] = {t \in Handling : Good(t, i - 1)}
    BY <2>1
  <2> HIDE DEF H, Round
  <2> QED BY <1>3, <2>2
<1>5. PICK f : /\ f = [i \in 0 .. N |-> IF i = 0 THEN first ELSE round[i][f[i - 1]]]
               /\ \A i \in 0 .. N : f[i] \in H[i]
  <2>1. first \in H[0]
    BY <1>1, <1>2
  <2>2. N \in Nat
    BY <1>1
  <2> HIDE DEF N, H, round, first
  <2>3. \A HH : first \in HH[0] =>
          \A rr : (\A i \in 1 .. N : rr[i] \in [HH[i - 1] -> HH[i]]) =>
             \E f : /\ f = [i \in 0 .. N |-> IF i = 0 THEN first ELSE rr[i][f[i - 1]]]
                    /\ \A i \in 0 .. N : f[i] \in HH[i]
    BY <2>2, LoopHasStates, Zenon
  <2>4. \A rr : (\A i \in 1 .. N : rr[i] \in [H[i - 1] -> H[i]]) =>
             \E f : /\ f = [i \in 0 .. N |-> IF i = 0 THEN first ELSE rr[i][f[i - 1]]]
                    /\ \A i \in 0 .. N : f[i] \in H[i]
    BY <2>1, <2>3, Zenon
  <2> QED BY <1>4, <2>4, Zenon
<1>6. \A i \in 1 .. N : i \in 0 .. N /\ i - 1 \in 0 .. N
  BY <1>1
<1>7. IsLoop(f)
  <2>1. \A i \in 1 .. N : round[i][f[i - 1]] = Round(f[i - 1], i)
    <3> HIDE DEF H, Round
    <3> QED BY <1>5, <1>6
  <2> HIDE DEF round, first
  <2>2. \A i \in 0 .. N : i = 0 \/ i \in 1 .. N
    BY <1>1
  <2> QED BY <1>5, <2>1, <2>2
<1> DEFINE after == CHOOSE g : IsLoop(g)
<1>8. IsLoop(after)
  <2> HIDE DEF IsLoop
  <2> QED BY <1>7
<1>9. Processed(n, s) = after[N]
  BY DEF Processed
<1> HIDE DEF after
<1>10. 0 .. N \subseteq {i \in 0 .. N : after[i] \in H[i]}
  <2> DEFINE S == {i \in 0 .. N : after[i] \in H[i]}
  <2>1. 0 \in S
    <3> HIDE DEF first
    <3> QED BY <1>1, <1>2, <1>8
  <2>2. ASSUME NEW k \in 0 .. N, k \in S, k < N
        PROVE  k + 1 \in S
    <3>1. k + 1 \in 1 .. N /\ k + 1 \in 0 .. N /\ (k + 1) - 1 = k /\ k + 1 # 0
      BY <1>1, <2>2
    <3>2. after[k + 1] = Round(after[k], k + 1)
      BY <1>8, <3>1
    <3>3. after[k] \in Handling /\ Good(after[k], k)
      BY <2>2
    <3> HIDE DEF Round
    <3>4. after[k + 1] \in Handling /\ Good(after[k + 1], k + 1)
      BY <1>3, <3>1, <3>2, <3>3
    <3> QED BY <3>1, <3>4
  <2> HIDE DEF S
  <2>3. 0 .. N \subseteq S
    BY <1>1, <2>1, <2>2, UpTo
  <2> QED BY <2>3 DEF S
<1>11. Good(after[N], N)
  <2>1. N \in 0 .. N
    BY <1>1
  <2>2. after[N] \in H[N]
    BY <1>10, <2>1
  <2> HIDE DEF N
  <2> QED BY <2>1, <2>2
<1> QED BY <1>9, <1>11 DEF Good

-----------------------------------------------------------------------------
(* Identification *)

\* A node that identifies its peer has no other identified connection to it, and then goes
\* on with this one, or closes one of the two.
LEMMA Identification ==
  ASSUME NEW n \in Node, NEW s, Orderly(n, s), NEW c \in s.connected \ s.closing
  PROVE  LET t == on_node_identification(n, s, c)
         IN /\ Orderly(n, t) /\ t.peers = s.peers /\ t.auth = s.auth
            /\ t.known = s.known \cup {c}
            /\ \A d \in Conn : Lists(t.out[d]) \subseteq Lists(s.out[d]) \cup Range(s.auth)
            /\ \/ /\ \A d \in s.known : d # c => Other(d, n) # Other(c, n)
                  /\ t.closing = s.closing
                  /\ \A way : Covered(n, s, way) => Covered(n, t, way)
               \/ \E d \in s.known :
                    /\ d # c /\ Other(d, n) = Other(c, n)
                    /\ t.closing = s.closing \cup {choose_duplicate_connection(d, c)}
<1> DEFINE authorized == IF Contains(s.auth, Other(c, n)) THEN s.authorized \cup {c} ELSE s.authorized \ {c}
           u == [s EXCEPT !.known = s.known \cup {c}, !.authorized = authorized]
           t == on_node_identification(n, s, c)
           previous == Previous(n, u, c)
           I == {i \in 1 .. Len(u.peers) : u.peers[i] # c /\ IsTo(n, u, u.peers[i], Other(c, n))}
<1> SUFFICES /\ Orderly(n, t) /\ t.peers = s.peers /\ t.auth = s.auth
             /\ t.known = s.known \cup {c}
             /\ \A d \in Conn : Lists(t.out[d]) \subseteq Lists(s.out[d]) \cup Range(s.auth)
             /\ \/ /\ \A d \in s.known : d # c => Other(d, n) # Other(c, n)
                   /\ t.closing = s.closing
                   /\ \A way : Covered(n, s, way) => Covered(n, t, way)
                \/ \E d \in s.known :
                     /\ d # c /\ Other(d, n) = Other(c, n)
                     /\ t.closing = s.closing \cup {choose_duplicate_connection(d, c)}
  OBVIOUS
<1>1. /\ s \in Handling /\ c \in Conn /\ c \in Range(s.peers) /\ c \notin s.closing
      /\ s.auth \in Seq(Node) /\ s.known \subseteq Conn /\ s.peers \in Seq(Conn)
  BY DEF Orderly, Handling
<1>2. Contains(s.auth, Other(c, n)) <=> Other(c, n) \in Range(s.auth)
  BY <1>1, ContainsIsRange
<1>3. /\ authorized \subseteq s.known \cup {c} /\ s.accepted \subseteq authorized
      /\ \A d \in authorized : Other(d, n) \in Range(s.auth)
      /\ Other(c, n) \in Range(s.auth) => c \in authorized
      /\ s.authorized \ {c} \subseteq authorized
  BY <1>2 DEF Orderly
<1> HIDE DEF authorized
<1>4. /\ u \in Handling /\ u.auth = s.auth /\ u.peers = s.peers /\ u.known = s.known \cup {c}
      /\ u.authorized = authorized /\ u.closing = s.closing /\ u.out = s.out
      /\ u.accepted = s.accepted /\ u.connected = s.connected
  BY <1>1, <1>3 DEF Handling
<1>5. t = check_new_identified_node(n, u, c)
  BY DEF on_node_identification, authorized
<1> HIDE DEF u, t
<1>6. Orderly(n, u)
  BY <1>3, <1>4 DEF Orderly
<1>7. previous = IF I # {} THEN Min(I) ELSE 0
  BY DEF Previous, SelectInSeq
<1>8. I \in SUBSET Nat /\ (I # {} => Min(I) \in I)
  <2>1. I \in SUBSET Nat
    OBVIOUS
  <2> HIDE DEF I
  <2> QED BY <2>1, MinOfSet
<1>9. \A d \in s.known : d # c /\ Other(d, n) = Other(c, n) => I # {}
  <2> SUFFICES ASSUME NEW d \in s.known, d # c, Other(d, n) = Other(c, n)
               PROVE  I # {}
    OBVIOUS
  <2>1. d \in Range(s.peers)
    BY DEF Orderly
  <2>2. PICK i \in 1 .. Len(s.peers) : s.peers[i] = d
    BY <1>1, <2>1 DEF Range
  <2>3. i \in I
    BY <1>4, <2>2 DEF IsTo
  <2> QED BY <2>3
<1>10. CASE I = {}
  <2>1. t = on_valid_node_id(u, c)
    BY <1>5, <1>7, <1>10 DEF check_new_identified_node
  <2>2. \A d \in s.known : d # c => Other(d, n) # Other(c, n)
    BY <1>9, <1>10
  <2>3. CASE Other(c, n) \notin Range(s.auth)
    <3>1. c \notin authorized
      BY <1>3, <2>3
    <3>2. t = u
      BY <1>4, <2>1, <3>1 DEF on_valid_node_id
    <3>3. ASSUME NEW way, Covered(n, s, way)
          PROVE  Covered(n, u, way)
      BY <1>3, <1>4, <2>3, <3>3 DEF Covered
    <3> QED BY <1>4, <1>6, <2>2, <3>2, <3>3
  <2>4. CASE Other(c, n) \in Range(s.auth)
    <3> DEFINE msg == Authorization(s.auth)
               out == [s.out EXCEPT ![c] = Append(@, msg)]
    <3>1. c \in authorized
      BY <1>3, <2>4
    <3>2. msg \in Message /\ msg.list = s.auth
      BY <1>1 DEF Authorization, Message
    <3>3. s.out \in [Conn -> Seq(Message)] /\ s.accepted \cup {c} \subseteq Conn
      BY <1>1 DEF Handling
    <3>4. /\ out \in [Conn -> Seq(Message)]
          /\ \A d \in Conn \ {c} : out[d] = s.out[d]
          /\ Lists(out[c]) = Lists(s.out[c]) \cup Range(s.auth)
      <4>1. /\ Append(s.out[c], msg) \in Seq(Message)
            /\ Lists(Append(s.out[c], msg)) = Lists(s.out[c]) \cup Range(s.auth)
        BY <1>1, <3>2, <3>3, ListsAppend
      <4> QED BY <1>1, <3>3, <4>1
    <3>5. t = [u EXCEPT !.out = out, !.accepted = s.accepted \cup {c}]
      BY <1>1, <1>4, <2>1, <3>1, <3>3 DEF on_valid_node_id, send_peer_message, on_new_accepted_node, Handling
    <3> HIDE DEF out
    <3>6. /\ t \in Handling /\ t.auth = s.auth /\ t.peers = s.peers /\ t.known = s.known \cup {c}
          /\ t.authorized = authorized /\ t.closing = s.closing /\ t.out = out
          /\ t.accepted = s.accepted \cup {c} /\ t.connected = s.connected
      BY <1>4, <3>3, <3>4, <3>5 DEF Handling
    <3>7. Orderly(n, t)
      BY <1>4, <1>6, <3>1, <3>6 DEF Orderly
    <3>8. ASSUME NEW way, Covered(n, s, way)
          PROVE  Covered(n, t, way)
      <4> SUFFICES ASSUME NEW d \in s.known \cup {c}, Other(d, n) \in Range(s.auth)
                   PROVE  d \in authorized /\ Range(s.auth) \subseteq way[d] \cup Lists(out[d])
        BY <3>6 DEF Covered
      <4>1. CASE d = c
        BY <3>1, <3>4, <4>1
      <4>2. CASE d # c
        <5>1. d \in s.known /\ d \in Conn
          BY <1>1, <4>2
        <5>2. d \in s.authorized /\ Range(s.auth) \subseteq way[d] \cup Lists(s.out[d])
          BY <3>8, <5>1 DEF Covered
        <5> QED BY <1>3, <3>4, <4>2, <5>1, <5>2
      <4> QED BY <4>1, <4>2
    <3>9. \A d \in Conn : Lists(t.out[d]) \subseteq Lists(s.out[d]) \cup Range(s.auth)
      BY <3>4, <3>6
    <3> QED BY <2>2, <3>6, <3>7, <3>8, <3>9
  <2> HIDE DEF t
  <2> QED BY <2>3, <2>4
<1>11. CASE I # {}
  <2> DEFINE d == u.peers[previous]
             loser == choose_duplicate_connection(d, c)
  <2>1. previous \in I /\ previous # 0
    BY <1>7, <1>8, <1>11
  <2>2. /\ d # c /\ IsTo(n, u, d, Other(c, n)) /\ d \in Range(s.peers)
    BY <1>1, <1>4, <2>1 DEF Range
  <2>3. d \in s.known /\ Other(d, n) = Other(c, n)
    BY <1>4, <2>2 DEF IsTo
  <2>4. t = [u EXCEPT !.closing = s.closing \cup {loser}]
    BY <1>4, <1>5, <2>1 DEF check_new_identified_node, disconnect_peer
  <2>5. loser \in {c, d} /\ loser \in Conn /\ loser \in Range(s.peers)
    BY <1>1, <2>2, <2>3 DEF choose_duplicate_connection
  <2> HIDE DEF loser
  <2>6. /\ t \in Handling /\ t.auth = s.auth /\ t.peers = s.peers /\ t.known = s.known \cup {c}
        /\ t.authorized = authorized /\ t.closing = s.closing \cup {loser} /\ t.out = s.out
        /\ t.accepted = s.accepted /\ t.connected = s.connected
    BY <1>1, <1>4, <2>4, <2>5 DEF Handling
  <2>7. Orderly(n, t)
    BY <1>4, <1>6, <2>5, <2>6 DEF Orderly
  <2> QED BY <2>2, <2>3, <2>6, <2>7 DEF loser
<1> QED BY <1>10, <1>11

-----------------------------------------------------------------------------
(* Steps *)

\* The authorizations in two sequences of messages.
LEMMA ListsConcat ==
  ASSUME NEW q \in Seq(Message), NEW r \in Seq(Message)
  PROVE  q \o r \in Seq(Message) /\ Lists(q \o r) = Lists(q) \cup Lists(r)
<1>1. /\ q \o r \in Seq(Message) /\ Len(q \o r) = Len(q) + Len(r) /\ Len(q) \in Nat /\ Len(r) \in Nat
      /\ \A i \in 1 .. Len(q) : (q \o r)[i] = q[i]
      /\ \A i \in 1 .. Len(r) : (q \o r)[Len(q) + i] = r[i]
  OBVIOUS
<1> DEFINE p == q \o r
<1> HIDE DEF p
<1>2. \A i \in 1 .. Len(p) : i \in 1 .. Len(q) \/ \E j \in 1 .. Len(r) : i = Len(q) + j
  <2> SUFFICES ASSUME NEW i \in 1 .. Len(p), i \notin 1 .. Len(q)
               PROVE  \E j \in 1 .. Len(r) : i = Len(q) + j
    OBVIOUS
  <2>1. i - Len(q) \in 1 .. Len(r) /\ i = Len(q) + (i - Len(q))
    BY <1>1 DEF p
  <2> QED BY <2>1
<1>3. /\ \A i \in 1 .. Len(q) : i \in 1 .. Len(p) /\ p[i] = q[i]
      /\ \A j \in 1 .. Len(r) : Len(q) + j \in 1 .. Len(p) /\ p[Len(q) + j] = r[j]
  BY <1>1 DEF p
<1>4. Lists(p) \subseteq Lists(q) \cup Lists(r)
  <2> SUFFICES ASSUME NEW i \in 1 .. Len(p), NEW y \in Range(p[i].list)
               PROVE  y \in Lists(q) \/ y \in Lists(r)
    BY DEF Lists
  <2>1. CASE i \in 1 .. Len(q)
    BY <1>3, <2>1 DEF Lists
  <2>2. CASE \E j \in 1 .. Len(r) : i = Len(q) + j
    BY <1>3, <2>2 DEF Lists
  <2> QED BY <1>2, <2>1, <2>2
<1>5. Lists(q) \subseteq Lists(p)
  BY <1>3 DEF Lists
<1>6. Lists(r) \subseteq Lists(p)
  BY <1>3 DEF Lists
<1> QED BY <1>1, <1>4, <1>5, <1>6 DEF p

\* The authorizations of the first message and of the others.
LEMMA ListsTail ==
  ASSUME NEW q \in Seq(Message), q # <<>>
  PROVE  /\ Tail(q) \in Seq(Message) /\ Head(q) \in Message
         /\ Lists(q) = Range(Head(q).list) \cup Lists(Tail(q))
<1>1. /\ Tail(q) \in Seq(Message) /\ Head(q) \in Message /\ Head(q) = q[1]
      /\ Len(Tail(q)) = Len(q) - 1 /\ Len(q) \in Nat /\ Len(q) >= 1
      /\ \A i \in 1 .. Len(q) - 1 : Tail(q)[i] = q[i + 1]
  OBVIOUS
<1> DEFINE r == Tail(q)
<1> HIDE DEF r
<1>2. \A i \in 1 .. Len(q) : i = 1 \/ (i - 1 \in 1 .. Len(r) /\ r[i - 1] = q[i])
  BY <1>1 DEF r
<1>3. \A i \in 1 .. Len(r) : i + 1 \in 1 .. Len(q) /\ r[i] = q[i + 1]
  BY <1>1 DEF r
<1>4. Lists(q) \subseteq Range(q[1].list) \cup Lists(r)
  BY <1>2 DEF Lists
<1>5. Lists(r) \subseteq Lists(q)
  BY <1>3 DEF Lists
<1>6. Range(q[1].list) \subseteq Lists(q)
  BY <1>1 DEF Lists
<1> QED BY <1>1, <1>4, <1>5, <1>6 DEF r

\* The authorizations on their way to m on the connection c after a handler of n with the end s.
Sent(n, s, received, c, m) ==
  /\ Lists(chan'[c][m]) \subseteq Lists(chan[c][m]) \cup Lists(s.out[c])
  /\ ends[c] # NotCalled =>
     /\ m # n /\ {n, m} \subseteq Range(ends[c])
        => Lists(chan'[c][m]) = Lists(chan[c][m]) \cup Lists(s.out[c])
     /\ m # n \/ c \notin received => Lists(chan[c][m]) \subseteq Lists(chan'[c][m])
     /\ m = n /\ c \in received
        => Lists(chan[c][m]) = Range(Head(chan[c][m]).list) \cup Lists(chan'[c][m])

\* What a handler of n has sent arrives at the other ends; the messages it has
\* received are gone.
LEMMA Delivered ==
  ASSUME chan \in [Conn -> [Node -> Seq(Message)]], NEW n \in Node, NEW s \in Handling,
         NEW received, \A c \in received : chan[c][n] # <<>>, Deliver(n, s, received)
  PROVE  /\ chan' \in [Conn -> [Node -> Seq(Message)]]
         /\ \A c \in Conn, m \in Node : Sent(n, s, received, c, m)
<1> DEFINE new(c, m) == IF ends[c] = NotCalled THEN <<>>
                        ELSE IF m = n /\ c \in received THEN Tail(chan[c][m])
                        ELSE IF m # n /\ n \in Range(ends[c]) /\ m \in Range(ends[c])
                        THEN chan[c][m] \o s.out[c] ELSE chan[c][m]
<1>1. chan' = [c \in Conn |-> [m \in Node |-> new(c, m)]]
  BY DEF Deliver
<1>2. ASSUME NEW c \in Conn, NEW m \in Node
      PROVE  /\ new(c, m) \in Seq(Message)
             /\ Lists(new(c, m)) \subseteq Lists(chan[c][m]) \cup Lists(s.out[c])
             /\ ends[c] # NotCalled =>
                /\ m # n /\ {n, m} \subseteq Range(ends[c])
                   => Lists(new(c, m)) = Lists(chan[c][m]) \cup Lists(s.out[c])
                /\ m # n \/ c \notin received => Lists(chan[c][m]) \subseteq Lists(new(c, m))
                /\ m = n /\ c \in received
                   => Lists(chan[c][m]) = Range(Head(chan[c][m]).list) \cup Lists(new(c, m))
  <2>1. chan[c][m] \in Seq(Message) /\ s.out[c] \in Seq(Message)
    BY DEF Handling
  <2>2. CASE ends[c] = NotCalled
    <3>1. new(c, m) = <<>> /\ <<>> \in Seq(Message) /\ Lists(<<>>) = {}
      BY <2>2 DEF Lists
    <3> QED BY <2>2, <3>1
  <2>3. CASE ends[c] # NotCalled /\ m = n /\ c \in received
    <3>1. new(c, m) = Tail(chan[c][m]) /\ chan[c][m] # <<>>
      BY <2>3
    <3> QED BY <2>1, <2>3, <3>1, ListsTail
  <2>4. CASE ends[c] # NotCalled /\ m # n /\ n \in Range(ends[c]) /\ m \in Range(ends[c])
    <3>1. new(c, m) = chan[c][m] \o s.out[c]
      BY <2>4
    <3> QED BY <2>1, <2>4, <3>1, ListsConcat
  <2>5. CASE /\ ends[c] # NotCalled /\ ~ (m = n /\ c \in received)
             /\ ~ (m # n /\ n \in Range(ends[c]) /\ m \in Range(ends[c]))
    <3>1. new(c, m) = chan[c][m]
      BY <2>5
    <3> QED BY <2>1, <2>5, <3>1
  <2> QED BY <2>2, <2>3, <2>4, <2>5
<1>3. \A c \in Conn, m \in Node : chan'[c][m] = new(c, m)
  BY <1>1
<1> HIDE DEF new
<1>4. chan' \in [Conn -> [Node -> Seq(Message)]]
  BY <1>1, <1>2
<1> QED BY <1>2, <1>3, <1>4 DEF Sent

\* The state of a node after a handler: the other nodes are as they were.
LEMMA Became ==
  ASSUME node \in [Node -> NodeState], NEW n \in Node, NEW s, s \in Handling, Become(n, s)
  PROVE  /\ node' \in [Node -> NodeState]
         /\ \A m \in Node \ {n} : node'[m] = node[m]
         /\ node'[n].auth = s.auth /\ node'[n].special = s.special /\ node'[n].peers = s.peers
         /\ node'[n].connected = s.connected /\ node'[n].known = s.known
         /\ node'[n].authorized = s.authorized /\ node'[n].accepted = s.accepted
         /\ node'[n].closing = s.closing
<1> DEFINE t == [s EXCEPT !.rc = TRUE, !.out = [c \in Conn |-> <<>>]]
<1>1. node' = [node EXCEPT ![n] = t]
  BY DEF Become
<1>2. [c \in Conn |-> <<>>] \in [Conn -> {<<>>}]
  OBVIOUS
<1>3. /\ t \in NodeState /\ t.auth = s.auth /\ t.special = s.special /\ t.peers = s.peers
      /\ t.connected = s.connected /\ t.known = s.known /\ t.authorized = s.authorized
      /\ t.accepted = s.accepted /\ t.closing = s.closing
  BY <1>2 DEF Handling, NodeState
<1> HIDE DEF t
<1> QED BY <1>1, <1>3

\* What a node had to be is what it has to be while the ends are the same.
LEMMA StillOrderly ==
  ASSUME NEW m \in Node, node'[m] = node[m], Orderly(m, node[m]),
         \A c \in Listed(m) : ends'[c] = ends[c]
  PROVE  Orderly(m, node[m])'
BY DEF Orderly, Other, Listed

\* A node between two handlers is in a state that a handler can be in.
LEMMA NodeIsHandling ==
  ASSUME NEW x \in NodeState
  PROVE  x \in Handling
<1>1. ASSUME NEW f \in [Conn -> {<<>>}]
      PROVE  f \in [Conn -> Seq(Message)]
  <2>1. <<>> \in Seq(Message)
    OBVIOUS
  <2>2. f = [c \in Conn |-> f[c]] /\ \A c \in Conn : f[c] = <<>>
    OBVIOUS
  <2> QED BY <2>1, <2>2
<1>2. x.out \in [Conn -> Seq(Message)]
  BY <1>1 DEF NodeState
<1> QED BY <1>2 DEF NodeState, Handling

\* The types after a handler of one node.
LEMMA TypedAfter ==
  ASSUME Typed, NEW n \in Node, NEW s, Orderly(n, s), Become(n, s),
         chan' \in [Conn -> [Node -> Seq(Message)]], gone' \in [Conn -> SUBSET Node],
         UNCHANGED <<network, ends>>, failed' \subseteq network.fails
  PROVE  Typed' /\ OthersUnmoved(n)
<1>1. s \in Handling /\ node \in [Node -> NodeState]
  BY DEF Orderly, Typed, TypeOK
<1>2. /\ node' \in [Node -> NodeState]
      /\ \A m \in Node \ {n} : node'[m] = node[m]
      /\ node'[n].auth = s.auth /\ node'[n].special = s.special /\ node'[n].peers = s.peers
      /\ node'[n].connected = s.connected /\ node'[n].known = s.known
      /\ node'[n].authorized = s.authorized /\ node'[n].accepted = s.accepted
      /\ node'[n].closing = s.closing
  BY <1>1, Became
<1>3. \A m \in Node \ {n} : Orderly(m, node[m])'
  BY <1>2, StillOrderly DEF Typed
<1>4. node'[n] \in Handling
  <2>1. node'[n] \in NodeState
    BY <1>2
  <2> QED BY <2>1, NodeIsHandling
<1>5. Orderly(n, node[n])'
  BY <1>2, <1>4 DEF Orderly, Other
<1>6. TypeOK'
  <2>1. \A m \in Node : Orderly(m, node[m])'
    BY <1>3, <1>5
  <2> QED BY <1>2, <2>1 DEF Typed, TypeOK, Orderly
<1>7. OthersUnmoved(n)
  BY <1>2 DEF OthersUnmoved, Unmoved, Listed
<1> QED BY <1>3, <1>5, <1>6, <1>7 DEF Typed

\* The administrator authorizes a node.
LEMMA AuthorizeStep ==
  ASSUME Typed, NEW x \in Node, authorize(x)
  PROVE  Typed' /\ NoMove
<1> DEFINE t == [node[Admin] EXCEPT !.special = Append(@, x)]
<1>1. Admin \in Node /\ node \in [Node -> NodeState] /\ node[Admin] \in NodeState
  BY ConnectionsAssumption DEF Typed, TypeOK
<1>2. node' = [node EXCEPT ![Admin] = t]
  BY <1>1 DEF authorize
<1>3. /\ t \in NodeState /\ t.auth = node[Admin].auth /\ t.peers = node[Admin].peers
      /\ t.connected = node[Admin].connected /\ t.known = node[Admin].known
      /\ t.authorized = node[Admin].authorized /\ t.accepted = node[Admin].accepted
      /\ t.closing = node[Admin].closing
  <2>1. node[Admin].special \in Seq(Node)
    BY <1>1 DEF NodeState
  <2>2. Append(node[Admin].special, x) \in Seq(Node)
    BY <2>1, AppendRange
  <2> DEFINE q == Append(node[Admin].special, x)
  <2>3. t = [node[Admin] EXCEPT !.special = q]
    BY <1>1 DEF NodeState
  <2> HIDE DEF q, t
  <2>4. q \in Seq(Node)
    BY <2>2 DEF q
  <2> QED BY <1>1, <2>3, <2>4 DEF NodeState
<1> HIDE DEF t
<1>4. /\ node' \in [Node -> NodeState] /\ node'[Admin] = t
      /\ \A m \in Node \ {Admin} : node'[m] = node[m]
  BY <1>1, <1>2, <1>3
<1>5. UNCHANGED <<network, ends, chan, gone, failed>>
  BY DEF authorize
<1>6. \A m \in Node : Unmoved(m)
  BY <1>3, <1>4 DEF Unmoved, Listed
<1>7. \A m \in Node \ {Admin} : Orderly(m, node[m])'
  BY <1>4, <1>5, StillOrderly DEF Typed
<1>8. Orderly(Admin, node[Admin])'
  <2>1. node'[Admin] \in Handling
    <3>1. node'[Admin] \in NodeState
      BY <1>3, <1>4
    <3> QED BY <3>1, NodeIsHandling
  <2>2. Orderly(Admin, node[Admin])
    BY <1>1 DEF Typed
  <2> QED BY <1>3, <1>4, <1>5, <2>1, <2>2 DEF Orderly, Other
<1>9. TypeOK'
  <2>1. \A m \in Node : Orderly(m, node[m])'
    BY <1>7, <1>8
  <2> QED BY <1>4, <1>5, <2>1 DEF Typed, TypeOK, Orderly
<1> QED BY <1>5, <1>6, <1>7, <1>8, <1>9 DEF Typed, NoMove

\* The administrator stores the authorizations.
LEMMA SpecialsStep ==
  ASSUME Typed, process_new_special_transaction
  PROVE  Typed' /\ NoMove
<1> DEFINE s == Processed(Admin, node[Admin])
<1>1. Admin \in Node /\ Orderly(Admin, node[Admin])
  BY ConnectionsAssumption DEF Typed
<1>2. /\ Orderly(Admin, s) /\ s.peers = node[Admin].peers /\ s.known = node[Admin].known
      /\ s.closing = node[Admin].closing
  BY <1>1, SpecialsProcessed
<1>3. Become(Admin, s) /\ Deliver(Admin, s, {}) /\ UNCHANGED <<network, ends, gone, failed>>
  BY DEF process_new_special_transaction
<1> HIDE DEF s
<1>4. s \in Handling
  BY <1>2 DEF Orderly
<1>5. chan' \in [Conn -> [Node -> Seq(Message)]]
  BY <1>1, <1>3, <1>4, Delivered DEF Typed
<1>6. Typed' /\ OthersUnmoved(Admin)
  BY <1>1, <1>2, <1>3, <1>5, TypedAfter DEF Typed, TypeOK
<1>7. Unmoved(Admin)
  BY <1>1, <1>2, <1>3, <1>4, Became DEF Unmoved, Listed, Typed, TypeOK
<1> QED BY <1>3, <1>6, <1>7 DEF NoMove, OthersUnmoved

\* A node with another connection, on which it has sent its identification.
LEMMA ConnectedState ==
  ASSUME NEW s \in Handling, NEW c \in Conn, c \notin s.closing
  PROVE  LET t == Connected(s, c)
         IN /\ t \in Handling /\ t.auth = s.auth /\ t.special = s.special
            /\ t.peers = Append(s.peers, c) /\ t.connected = s.connected \cup {c}
            /\ t.known = s.known /\ t.authorized = s.authorized /\ t.accepted = s.accepted
            /\ t.closing = s.closing
            /\ \A d \in Conn : Lists(t.out[d]) = Lists(s.out[d])
<1> DEFINE peers == Append(s.peers, c)
           out == [s.out EXCEPT ![c] = Append(@, Id)]
           t == Connected(s, c)
<1>1. s.peers \in Seq(Conn) /\ s.out \in [Conn -> Seq(Message)] /\ s.connected \subseteq Conn
  BY DEF Handling
<1>2. peers \in Seq(Conn)
  BY <1>1, AppendRange
<1>3. Id \in Message /\ Range(Id.list) = {}
  <2>1. <<>> \in Seq(Node) /\ Range(<<>>) = {}
    BY DEF Range
  <2> QED BY <2>1 DEF Id, Message
<1>4. Append(s.out[c], Id) \in Seq(Message) /\ Lists(Append(s.out[c], Id)) = Lists(s.out[c])
  BY <1>1, <1>3, ListsAppend
<1>5. out \in [Conn -> Seq(Message)] /\ \A d \in Conn : Lists(out[d]) = Lists(s.out[d])
  BY <1>1, <1>4
<1>6. t = [s EXCEPT !.peers = peers, !.connected = s.connected \cup {c}, !.out = out]
  BY DEF Connected, send_peer_message, Handling
<1> HIDE DEF peers, out, t
<1>7. /\ t \in Handling /\ t.auth = s.auth /\ t.special = s.special
      /\ t.peers = peers /\ t.connected = s.connected \cup {c}
      /\ t.known = s.known /\ t.authorized = s.authorized /\ t.accepted = s.accepted
      /\ t.closing = s.closing /\ t.out = out
  BY <1>1, <1>2, <1>5, <1>6 DEF Handling
<1> QED BY <1>5, <1>7 DEF peers, t

\* A call reaches a node.
LEMMA IncomingStep ==
  ASSUME Typed, NEW n \in Node, NEW c \in Conn, worker_thread_on_incoming_tcp_connection(n, c)
  PROVE  Typed' /\ Accepting(n, c)
<1> DEFINE s == Connected(node[n], c)
<1>1. Orderly(n, node[n]) /\ node[n] \in Handling
  BY DEF Typed, Orderly
<1>2. /\ ends[c] # NotCalled /\ ends[c][2] = n /\ c \notin Range(node[n].peers) /\ n \notin gone[c]
      /\ Become(n, s) /\ Deliver(n, s, {}) /\ UNCHANGED <<network, ends, gone, failed>>
  BY DEF worker_thread_on_incoming_tcp_connection
<1>3. n \in Range(ends[c])
  <2>1. ends[c] \in Node \X Node
    BY <1>2 DEF Typed, TypeOK
  <2> QED BY <1>2, <2>1 DEF Range
<1>4. c \notin node[n].closing
  BY <1>1, <1>2 DEF Orderly
<1>5. /\ s \in Handling /\ s.auth = node[n].auth
      /\ s.peers = Append(node[n].peers, c) /\ s.connected = node[n].connected \cup {c}
      /\ s.known = node[n].known /\ s.authorized = node[n].authorized /\ s.accepted = node[n].accepted
      /\ s.closing = node[n].closing
  BY <1>1, <1>4, ConnectedState
<1>6. Range(s.peers) = Listed(n) \cup {c} /\ IsInjective(s.peers)
  <2>1. node[n].peers \in Seq(Conn) /\ IsInjective(node[n].peers)
    BY <1>1 DEF Orderly, Handling
  <2> QED BY <1>2, <1>5, <2>1, AppendRange DEF Listed
<1> HIDE DEF s
<1>7. Orderly(n, s)
  BY <1>1, <1>2, <1>3, <1>5, <1>6 DEF Orderly, Listed
<1>8. chan' \in [Conn -> [Node -> Seq(Message)]]
  BY <1>2, <1>5, Delivered DEF Typed
<1>9. Typed' /\ OthersUnmoved(n)
  BY <1>2, <1>7, <1>8, TypedAfter DEF Typed, TypeOK
<1>10. /\ node'[n].peers = s.peers /\ node'[n].known = s.known /\ node'[n].closing = s.closing
  BY <1>2, <1>5, Became DEF Typed, TypeOK
<1> QED BY <1>2, <1>5, <1>6, <1>9, <1>10 DEF Accepting, Called, Callee, Listed

\* A node calls another one.
LEMMA CallStep ==
  ASSUME Typed, NEW m \in Node, NEW n \in Node, check_peer_connection(m, n)
  PROVE  Typed' /\ \E c \in Conn : Calling(m, n, c)
<1>1. /\ n # m
      /\ \A d \in Listed(m) \cap Between(m, n) : ends[d] # <<m, n>> /\ d \notin node[m].known
      /\ UNCHANGED <<network, gone, failed>>
  BY DEF check_peer_connection, Listed
<1>2. PICK c \in Conn :
        /\ ends[c] = NotCalled /\ ends' = [ends EXCEPT ![c] = <<m, n>>]
        /\ Become(m, Connected(node[m], c)) /\ chan' = [chan EXCEPT ![c][n] = <<Id>>]
  BY DEF check_peer_connection
<1> DEFINE s == Connected(node[m], c)
<1>3. Orderly(m, node[m]) /\ node[m] \in Handling
  BY DEF Typed, Orderly
<1>4. \A k \in Node : c \notin Listed(k)
  BY <1>2 DEF Typed, Orderly, Listed
<1>5. c \notin node[m].closing
  BY <1>3, <1>4 DEF Orderly, Listed
<1>6. /\ s \in Handling /\ s.auth = node[m].auth
      /\ s.peers = Append(node[m].peers, c) /\ s.connected = node[m].connected \cup {c}
      /\ s.known = node[m].known /\ s.authorized = node[m].authorized /\ s.accepted = node[m].accepted
      /\ s.closing = node[m].closing
  BY <1>3, <1>5, ConnectedState
<1>7. Range(s.peers) = Listed(m) \cup {c} /\ IsInjective(s.peers)
  <2>1. node[m].peers \in Seq(Conn) /\ IsInjective(node[m].peers)
    BY <1>3 DEF Orderly, Handling
  <2> QED BY <1>4, <1>6, <2>1, AppendRange DEF Listed
<1> HIDE DEF s
<1>8. /\ node' \in [Node -> NodeState] /\ \A k \in Node \ {m} : node'[k] = node[k]
      /\ node'[m].auth = s.auth /\ node'[m].special = s.special /\ node'[m].peers = s.peers
      /\ node'[m].connected = s.connected /\ node'[m].known = s.known
      /\ node'[m].authorized = s.authorized /\ node'[m].accepted = s.accepted
      /\ node'[m].closing = s.closing
  <2>1. Become(m, s)
    BY <1>2 DEF s
  <2>2. node \in [Node -> NodeState]
    BY DEF Typed, TypeOK
  <2> QED BY <1>6, <2>1, <2>2, Became
<1>9. /\ ends' \in [Conn -> {NotCalled} \cup Node \X Node]
      /\ ends'[c] = <<m, n>> /\ \A d \in Conn \ {c} : ends'[d] = ends[d]
  BY <1>2 DEF Typed, TypeOK
<1>10. ASSUME NEW k \in Node \ {m}
       PROVE  Orderly(k, node[k])'
  <2>1. \A d \in Listed(k) : d \in Conn \ {c}
    <3>1. node[k].peers \in Seq(Conn)
      BY DEF Typed, Orderly, Handling
    <3> QED BY <1>4, <3>1 DEF Listed, Range
  <2> QED BY <1>8, <1>9, <2>1, StillOrderly DEF Typed
<1>11. Orderly(m, node[m])'
  <2>1. node'[m] \in Handling
    <3>1. node'[m] \in NodeState
      BY <1>8
    <3> QED BY <3>1, NodeIsHandling
  <2>2. m \in Range(ends'[c]) /\ ends'[c] # NotCalled
    <3>1. ends'[c][1] = m /\ DOMAIN ends'[c] = 1 .. 2
      BY <1>9
    <3> QED BY <1>9, <3>1 DEF Range, NotCalled
  <2>3. \A d \in Listed(m) : d \in Conn \ {c}
    <3>1. node[m].peers \in Seq(Conn)
      BY <1>3 DEF Handling
    <3> QED BY <1>4, <3>1 DEF Listed, Range
  <2>4. \A d \in Listed(m) : ends'[d] = ends[d]
    BY <1>9, <2>3
  <2>5. \A d \in node[m].authorized : d \in Listed(m)
    BY <1>3 DEF Orderly, Listed
  <2> QED BY <1>3, <1>6, <1>7, <1>8, <2>1, <2>2, <2>4, <2>5 DEF Orderly, Other, Listed
<1>12. TypeOK'
  <2>1. \A k \in Node : Orderly(k, node[k])'
    BY <1>10, <1>11
  <2> QED BY <1>1, <1>8, <1>9, <2>1 DEF Typed, TypeOK, Orderly
<1>13. chan' \in [Conn -> [Node -> Seq(Message)]]
  <2>1. <<Id>> \in Seq(Message)
    <3>1. <<>> \in Seq(Node)
      OBVIOUS
    <3> QED BY <3>1 DEF Id, Message
  <2> QED BY <1>2, <2>1 DEF Typed
<1>14. Calling(m, n, c)
  <2>1. \A d \in Listed(m) \cap Between(m, n) : Caller(d) # m /\ d \notin node[m].known
    <3> SUFFICES ASSUME NEW d \in Listed(m) \cap Between(m, n), ends[d][1] = m
                 PROVE  FALSE
      BY <1>1 DEF Caller
    <3>1. ends[d] \in {<<m, n>>, <<n, m>>} /\ ends[d] # <<m, n>>
      BY <1>1 DEF Between
    <3> QED BY <1>1, <3>1
  <2>2. OthersUnmoved(m)
    BY <1>8 DEF OthersUnmoved, Unmoved, Listed
  <2> QED BY <1>1, <1>2, <1>6, <1>7, <1>8, <2>1, <2>2 DEF Calling, Called, Listed
<1> QED BY <1>10, <1>11, <1>12, <1>13, <1>14 DEF Typed

\* A message arrives.
LEMMA MessageStep ==
  ASSUME Typed, NEW n \in Node, NEW c \in Conn, worker_thread_on_peer_message(n, c)
  PROVE  Typed' /\ (NoMove \/ Identifying(n, c))
<1> DEFINE msg == Head(chan[c][n])
<1>1. /\ Orderly(n, node[n]) /\ node[n] \in Handling /\ node \in [Node -> NodeState]
      /\ c \in node[n].connected \ node[n].closing /\ chan[c][n] # <<>>
      /\ UNCHANGED <<network, ends, gone, failed>>
  BY DEF Typed, TypeOK, Orderly, worker_thread_on_peer_message
<1>2. msg \in Message
  BY <1>1, ListsTail DEF Typed
<1>3. c \in Listed(n) /\ c \notin node[n].closing
  BY <1>1 DEF Orderly, Listed
<1>4. CASE msg.cmd = "id"
  <2> DEFINE s == on_node_identification(n, node[n], c)
  <2>1. Become(n, s) /\ Deliver(n, s, {c})
    BY <1>4 DEF worker_thread_on_peer_message
  <2>2. /\ Orderly(n, s) /\ s.peers = node[n].peers /\ s.known = node[n].known \cup {c}
        /\ \/ /\ \A d \in node[n].known : d # c => Other(d, n) # Other(c, n)
              /\ s.closing = node[n].closing
           \/ \E d \in node[n].known :
                /\ d # c /\ Other(d, n) = Other(c, n)
                /\ s.closing = node[n].closing \cup {choose_duplicate_connection(d, c)}
    BY <1>1, Identification
  <2> HIDE DEF s
  <2>3. s \in Handling
    BY <2>2 DEF Orderly
  <2>4. chan' \in [Conn -> [Node -> Seq(Message)]]
    BY <1>1, <2>1, <2>3, Delivered DEF Typed
  <2>5. Typed' /\ OthersUnmoved(n)
    BY <1>1, <2>1, <2>2, <2>4, TypedAfter DEF Typed, TypeOK
  <2>6. node'[n].peers = s.peers /\ node'[n].known = s.known /\ node'[n].closing = s.closing
    BY <1>1, <2>1, <2>3, Became
  <2>7. Identifying(n, c)
    BY <1>1, <1>3, <2>2, <2>5, <2>6 DEF Identifying, Listed
  <2> QED BY <2>5, <2>7
<1>5. CASE msg.cmd # "id"
  <2> DEFINE s == on_authorization_received(n, node[n], msg.list)
  <2>1. msg.cmd = "authorization" /\ msg.list \in Seq(Node)
    BY <1>2, <1>5 DEF Message
  <2>2. Become(n, s) /\ Deliver(n, s, {c})
    BY <2>1 DEF worker_thread_on_peer_message
  <2>3. Orderly(n, s) /\ SamePeers(node[n], s)
    BY <1>1, <2>1, AuthorizationsReceived
  <2> HIDE DEF s
  <2>4. s \in Handling
    BY <2>3 DEF Orderly
  <2>5. chan' \in [Conn -> [Node -> Seq(Message)]]
    BY <1>1, <2>2, <2>4, Delivered DEF Typed
  <2>6. Typed' /\ OthersUnmoved(n)
    BY <1>1, <2>2, <2>3, <2>5, TypedAfter DEF Typed, TypeOK
  <2>7. node'[n].peers = s.peers /\ node'[n].known = s.known /\ node'[n].closing = s.closing
    BY <1>1, <2>2, <2>4, Became
  <2>8. Unmoved(n)
    BY <2>3, <2>7 DEF SamePeers, Unmoved, Listed
  <2> QED BY <1>1, <2>6, <2>8 DEF NoMove, OthersUnmoved
<1> QED BY <1>4, <1>5

\* A connection is given up at one end.
LEMMA DropStep ==
  ASSUME Typed, NEW n \in Node, NEW c \in Conn,
         connection_dropped(n, c) \/ network_failure(n, c)
  PROVE  Typed' /\ Dropping(n, c)
<1> DEFINE s == disconnect_peer(node[n], c)
<1>1. Orderly(n, node[n]) /\ node[n] \in Handling /\ node \in [Node -> NodeState]
  BY DEF Typed, TypeOK, Orderly
<1>2. /\ c \in Listed(n) /\ c \notin node[n].closing /\ Become(n, s)
      /\ UNCHANGED <<network, ends, chan, gone>>
      /\ \/ Other(c, n) \in gone[c] /\ failed' = failed
         \/ c \in network.fails /\ failed' = failed \cup {c}
  BY DEF connection_dropped, network_failure, Listed
<1>3. /\ s \in Handling /\ s.auth = node[n].auth /\ s.peers = node[n].peers
      /\ s.connected = node[n].connected /\ s.known = node[n].known
      /\ s.authorized = node[n].authorized /\ s.accepted = node[n].accepted
      /\ s.closing = node[n].closing \cup {c}
  BY <1>1 DEF disconnect_peer, Handling
<1> HIDE DEF s
<1>4. Orderly(n, s)
  BY <1>1, <1>2, <1>3 DEF Orderly, Listed
<1>5. Typed' /\ OthersUnmoved(n)
  <2>1. failed' \subseteq network.fails
    BY <1>2 DEF Typed, TypeOK
  <2> QED BY <1>2, <1>4, <2>1, TypedAfter DEF Typed, TypeOK
<1>6. node'[n].peers = s.peers /\ node'[n].known = s.known /\ node'[n].closing = s.closing
  BY <1>1, <1>2, <1>3, Became
<1> QED BY <1>2, <1>3, <1>5, <1>6 DEF Dropping, Listed

\* A connection is closed at one end.
LEMMA CloseStep ==
  ASSUME Typed, NEW n \in Node, NEW c \in Conn, worker_thread_on_close(n, c)
  PROVE  Typed' /\ Leaving(n, c)
<1> DEFINE peers == RemoveFirst(node[n].peers, c)
           t == Without(node[n], c)
<1>1. /\ Orderly(n, node[n]) /\ node[n] \in NodeState /\ node \in [Node -> NodeState]
      /\ node[n].peers \in Seq(Conn) /\ IsInjective(node[n].peers)
  BY DEF Typed, TypeOK, Orderly, NodeState
<1>2. /\ c \in node[n].closing /\ node' = [node EXCEPT ![n] = t]
      /\ gone' = [gone EXCEPT ![c] = @ \cup {n}] /\ chan' = [chan EXCEPT ![c][n] = <<>>]
      /\ UNCHANGED <<network, ends, failed>>
  <2>1. /\ c \in node[n].closing
        /\ gone' = [gone EXCEPT ![c] = @ \cup {n}] /\ chan' = [chan EXCEPT ![c][n] = <<>>]
        /\ UNCHANGED <<network, ends, failed>>
    BY DEF worker_thread_on_close
  <2>2. node' = [node EXCEPT ![n] = t]
    BY DEF worker_thread_on_close
  <2> QED BY <2>1, <2>2
<1>3. peers \in Seq(Conn) /\ IsInjective(peers) /\ Range(peers) = Listed(n) \ {c}
  BY <1>1, RemoveFirstRange DEF Listed
<1> HIDE DEF peers
<1>4. /\ t \in NodeState /\ t.auth = node[n].auth /\ t.peers = peers
      /\ t.connected = node[n].connected \ {c} /\ t.known = node[n].known \ {c}
      /\ t.authorized = node[n].authorized \ {c} /\ t.accepted = node[n].accepted \ {c}
      /\ t.closing = node[n].closing \ {c}
  BY <1>1, <1>3 DEF NodeState, Without, peers
<1> HIDE DEF t
<1>5. /\ node' \in [Node -> NodeState] /\ node'[n] = t
      /\ \A m \in Node \ {n} : node'[m] = node[m]
  BY <1>1, <1>2, <1>4
<1>6. \A m \in Node \ {n} : Orderly(m, node[m])'
  BY <1>2, <1>5, StillOrderly DEF Typed
<1>7. Orderly(n, node[n])'
  <2>1. node'[n] \in Handling
    <3>1. node'[n] \in NodeState
      BY <1>5
    <3> QED BY <3>1, NodeIsHandling
  <2> QED BY <1>1, <1>2, <1>3, <1>4, <1>5, <2>1 DEF Orderly, Other, Listed
<1>8. TypeOK'
  <2>1. \A m \in Node : Orderly(m, node[m])'
    BY <1>6, <1>7
  <2>2. gone' \in [Conn -> SUBSET Node]
    BY <1>2 DEF Typed, TypeOK
  <2> QED BY <1>2, <1>5, <2>1, <2>2 DEF Typed, TypeOK, Orderly
<1>9. chan' \in [Conn -> [Node -> Seq(Message)]]
  <2>1. <<>> \in Seq(Message)
    OBVIOUS
  <2> QED BY <1>2, <2>1 DEF Typed
<1>10. Leaving(n, c)
  <2>1. OthersUnmoved(n)
    BY <1>5 DEF OthersUnmoved, Unmoved, Listed
  <2> QED BY <1>2, <1>3, <1>4, <1>5, <2>1 DEF Leaving, Listed
<1> QED BY <1>6, <1>7, <1>8, <1>9, <1>10 DEF Typed

\* Every step keeps the types, and does one of these things to the lists.
LEMMA StepMoves ==
  ASSUME Typed, [Next]_vars
  PROVE  Typed' /\ Move
<1>1. CASE UNCHANGED vars
  <2>1. UNCHANGED <<network, node, ends, chan, gone, failed>>
    BY <1>1 DEF vars
  <2>2. \A n \in Node : Orderly(n, node[n])'
    BY <2>1, StillOrderly DEF Typed
  <2>3. TypeOK' /\ chan' \in [Conn -> [Node -> Seq(Message)]]
    BY <2>1 DEF Typed, TypeOK
  <2>4. NoMove
    BY <2>1 DEF NoMove, Unmoved, Listed
  <2> QED BY <2>2, <2>3, <2>4 DEF Typed, Move
<1>2. CASE process_new_special_transaction
  BY <1>2, SpecialsStep DEF Move
<1>3. ASSUME NEW n \in Node, authorize(n)
      PROVE  Typed' /\ Move
  BY <1>3, AuthorizeStep DEF Move
<1>4. ASSUME NEW m \in Node, NEW n \in Node, check_peer_connection(m, n)
      PROVE  Typed' /\ Move
  BY <1>4, CallStep DEF Move
<1>5. ASSUME NEW n \in Node, NEW c \in Conn,
             \/ worker_thread_on_incoming_tcp_connection(n, c)
             \/ worker_thread_on_peer_message(n, c)
             \/ connection_dropped(n, c)
             \/ network_failure(n, c)
             \/ worker_thread_on_close(n, c)
      PROVE  Typed' /\ Move
  <2>1. CASE worker_thread_on_incoming_tcp_connection(n, c)
    BY <2>1, IncomingStep DEF Move
  <2>2. CASE worker_thread_on_peer_message(n, c)
    BY <2>2, MessageStep DEF Move
  <2>3. CASE connection_dropped(n, c) \/ network_failure(n, c)
    BY <2>3, DropStep DEF Move
  <2>4. CASE worker_thread_on_close(n, c)
    BY <2>4, CloseStep DEF Move
  <2> QED BY <1>5, <2>1, <2>2, <2>3, <2>4
<1> QED BY <1>1, <1>2, <1>3, <1>4, <1>5 DEF Next

-----------------------------------------------------------------------------
(* Links *)

\* The ends of a connection.
LEMMA EndsShape ==
  ASSUME Typed, NEW c \in Conn, Called(c)
  PROVE  /\ ends[c] = <<Caller(c), Callee(c)>> /\ Caller(c) \in Node /\ Callee(c) \in Node
         /\ Range(ends[c]) = {Caller(c), Callee(c)}
         /\ \A n : Other(c, n) = IF Caller(c) = n THEN Callee(c) ELSE Caller(c)
<1>1. ends[c] \in Node \X Node
  BY DEF Typed, TypeOK, Called
<1>2. PICK m \in Node, n \in Node : ends[c] = <<m, n>>
  BY <1>1
<1>3. Range(<<m, n>>) = {m, n}
  BY DEF Range
<1> QED BY <1>2, <1>3 DEF Caller, Callee, Other

\* What the peers of a node are.
LEMMA ListedFacts ==
  ASSUME Typed, NEW n \in Node
  PROVE  /\ Listed(n) \subseteq Conn /\ node[n].known \subseteq Listed(n)
         /\ node[n].closing \subseteq Listed(n)
         /\ \A c \in Listed(n) : Called(c) /\ (n = Caller(c) \/ n = Callee(c))
<1>1. Orderly(n, node[n]) /\ node[n].peers \in Seq(Conn)
  BY DEF Typed, Orderly, Handling
<1>2. Listed(n) \subseteq Conn /\ node[n].known \subseteq Listed(n) /\ node[n].closing \subseteq Listed(n)
  BY <1>1 DEF Listed, Orderly, Range
<1>3. ASSUME NEW c \in Listed(n)
      PROVE  Called(c) /\ (n = Caller(c) \/ n = Callee(c))
  <2>1. c \in Conn /\ Called(c) /\ n \in Range(ends[c])
    BY <1>1, <1>2 DEF Listed, Orderly, Called
  <2> QED BY <2>1, EndsShape
<1> QED BY <1>2, <1>3

\* Connections of one node to the same other node are between the same two nodes.
LEMMA PairShape ==
  ASSUME Typed, NEW c \in Conn, NEW d \in Conn, Called(c), Called(d)
  PROVE  /\ Pair(c, d) <=> \/ Caller(c) = Caller(d) /\ Callee(c) = Callee(d)
                           \/ Caller(c) = Callee(d) /\ Callee(c) = Caller(d)
         /\ \A n : (n = Caller(c) \/ n = Callee(c)) /\ (n = Caller(d) \/ n = Callee(d))
                   => (Other(c, n) = Other(d, n) <=> Pair(c, d))
<1>1. /\ Range(ends[c]) = {Caller(c), Callee(c)} /\ Range(ends[d]) = {Caller(d), Callee(d)}
      /\ \A n : Other(c, n) = IF Caller(c) = n THEN Callee(c) ELSE Caller(c)
      /\ \A n : Other(d, n) = IF Caller(d) = n THEN Callee(d) ELSE Caller(d)
  BY EndsShape
<1>2. Pair(c, d) <=> {Caller(c), Callee(c)} = {Caller(d), Callee(d)}
  BY <1>1 DEF Pair
<1>3. Pair(c, d) <=> \/ Caller(c) = Caller(d) /\ Callee(c) = Callee(d)
                     \/ Caller(c) = Callee(d) /\ Callee(c) = Caller(d)
  BY <1>2
<1> QED BY <1>1, <1>3

\* The ends of a connection that was made before stay as they are.
LEMMA CallingEnds ==
  ASSUME Typed, NEW m \in Node, NEW n \in Node, NEW c \in Conn, Calling(m, n, c)
  PROVE  /\ Called(c)' /\ Caller(c)' = m /\ Callee(c)' = n /\ Range(ends'[c]) = {m, n}
         /\ \A d \in Conn \ {c} : ends'[d] = ends[d]
         /\ \A k \in Node : c \notin Listed(k) /\ c \notin node[k].known /\ c \notin node[k].closing
<1>1. ends' = [ends EXCEPT ![c] = <<m, n>>] /\ DOMAIN ends = Conn /\ ~ Called(c)
  BY DEF Calling, Typed, TypeOK
<1>2. <<m, n>> # NotCalled /\ Range(<<m, n>>) = {m, n}
  BY DEF NotCalled, Range
<1>3. \A k \in Node : c \notin Listed(k) /\ c \notin node[k].known /\ c \notin node[k].closing
  BY <1>1, ListedFacts
<1> QED BY <1>1, <1>2, <1>3 DEF Called, Caller, Callee

\* Each move keeps the links.
LEMMA LinkedNext ==
  ASSUME Typed, Typed', Linked, Move
  PROVE  Linked'
<1>1. ASSUME UNCHANGED <<ends, gone>>, \A n \in Node : Listed(n)' = Listed(n)
      PROVE  Linked'
  <2>1. \A c : Called(c)' = Called(c) /\ Caller(c)' = Caller(c) /\ Callee(c)' = Callee(c)
    BY <1>1 DEF Called, Caller, Callee
  <2>2. \A c, d : Pair(c, d)' = Pair(c, d)
    BY <1>1 DEF Pair, Called
  <2>3. \A c \in Conn : Called(c) => Caller(c) \in Node
    BY EndsShape
  <2> QED BY <1>1, <2>1, <2>2, <2>3 DEF Linked
<1>2. CASE NoMove
  BY <1>1, <1>2 DEF NoMove, Unmoved
<1>3. ASSUME NEW n \in Node, NEW c \in Conn, Identifying(n, c) \/ Dropping(n, c)
      PROVE  Linked'
  <2>1. UNCHANGED <<ends, gone>> /\ Listed(n)' = Listed(n) /\ \A m \in Node \ {n} : Listed(m)' = Listed(m)
    BY <1>3 DEF Identifying, Dropping, OthersUnmoved, Unmoved
  <2> QED BY <1>1, <2>1
<1>4. ASSUME NEW m \in Node, NEW n \in Node, NEW c \in Conn, Calling(m, n, c)
      PROVE  Linked'
  <2>1. /\ m # n /\ ~ Called(c) /\ UNCHANGED <<gone, failed>>
        /\ Listed(m)' = Listed(m) \cup {c} /\ \A k \in Node \ {m} : Listed(k)' = Listed(k)
        /\ \A d \in Listed(m) \cap Between(m, n) : Caller(d) # m
    BY <1>4 DEF Calling, OthersUnmoved, Unmoved
  <2>2. /\ Called(c)' /\ Caller(c)' = m /\ Callee(c)' = n /\ Range(ends'[c]) = {m, n}
        /\ \A d \in Conn \ {c} : ends'[d] = ends[d]
        /\ \A k \in Node : c \notin Listed(k)
    BY <1>4, CallingEnds
  <2>3. \A d \in Conn \ {c} : Called(d)' = Called(d) /\ Caller(d)' = Caller(d) /\ Callee(d)' = Callee(d)
    BY <2>2 DEF Called, Caller, Callee
  <2>4. gone[c] = {}
    BY <2>1 DEF Linked
  <2>5. \A k \in Node : \A d \in Listed(k)' : k \notin gone'[d]
    BY <2>1, <2>4 DEF Linked
  <2>7. ASSUME NEW d \in Conn, Called(d)'
        PROVE  /\ Caller(d)' # Callee(d)'
               /\ Caller(d)' \in gone'[d] \/ d \in Listed(Caller(d))'
    <3>1. CASE d = c
      BY <2>1, <2>2, <3>1 DEF Listed, Caller
    <3>2. CASE d # c
      <4>1. /\ Called(d) /\ Caller(d)' = Caller(d) /\ Callee(d)' = Callee(d) /\ Caller(d) \in Node
            /\ Caller(d) # Callee(d) /\ (Caller(d) \in gone[d] \/ d \in Listed(Caller(d)))
        BY <2>3, <2>7, <3>2, EndsShape DEF Linked
      <4>2. Listed(Caller(d)) \subseteq Range(node'[Caller(d)].peers)
        BY <2>1, <4>1 DEF Listed
      <4> QED BY <2>1, <4>1, <4>2 DEF Listed
    <3> QED BY <3>1, <3>2
  <2>8. \A d \in Conn : \A k \in gone'[d] : Called(d)' /\ k \in Range(ends'[d])
    BY <2>1, <2>2, <2>3, <2>4 DEF Linked
  <2>9. ASSUME NEW k \in Node, NEW d \in Listed(k)', NEW e \in Listed(k)', Pair(d, e)',
               Caller(d)' = k, Caller(e)' = k
        PROVE  d = e
    <3>0. d \in Conn /\ e \in Conn /\ \A x \in Listed(k) : x \in Conn \ {c}
      BY <1>4, <2>1, <2>2, ListedFacts
    <3>1. CASE d # c /\ e # c
      <4>1. d \in Listed(k) /\ e \in Listed(k)
        BY <2>1, <3>1
      <4>2. Pair(d, e) /\ Caller(d) = k /\ Caller(e) = k
        BY <2>2, <2>3, <2>9, <3>0, <3>1 DEF Pair
      <4> QED BY <4>1, <4>2 DEF Linked
    <3>2. ASSUME NEW x \in Conn, x # c, x \in Listed(k)', Range(ends'[x]) = {m, n}, Caller(x)' = k, k = m
          PROVE  FALSE
      <4>1. x \in Listed(m) /\ Called(x) /\ Caller(x) = m /\ Range(ends[x]) = {m, n}
        <5>1. x \in Listed(m)
          BY <2>1, <3>2
        <5> QED BY <2>2, <2>3, <3>2, <5>1, ListedFacts
      <4>2. ends[x] = <<m, n>>
        BY <2>1, <4>1, EndsShape DEF Linked
      <4> QED BY <2>1, <4>1, <4>2 DEF Between
    <3>3. CASE d = c /\ e # c
      BY <2>2, <2>9, <3>0, <3>2, <3>3 DEF Pair
    <3>4. CASE d # c /\ e = c
      BY <2>2, <2>9, <3>0, <3>2, <3>4 DEF Pair
    <3> QED BY <3>1, <3>3, <3>4
  <2> QED BY <2>5, <2>7, <2>8, <2>9 DEF Linked
<1>5. ASSUME NEW n \in Node, NEW c \in Conn, Accepting(n, c)
      PROVE  Linked'
  <2>1. /\ Called(c) /\ Callee(c) = n /\ n \notin gone[c] /\ UNCHANGED <<ends, gone>>
        /\ Listed(n)' = Listed(n) \cup {c} /\ \A k \in Node \ {n} : Listed(k)' = Listed(k)
    BY <1>5 DEF Accepting, OthersUnmoved, Unmoved
  <2>2. \A d : Called(d)' = Called(d) /\ Caller(d)' = Caller(d) /\ Callee(d)' = Callee(d)
    BY <2>1 DEF Called, Caller, Callee
  <2>3. \A d, e : Pair(d, e)' = Pair(d, e)
    BY <2>1 DEF Pair, Called
  <2>4. Caller(c) # n /\ \A d \in Conn : Called(d) => Caller(d) \in Node
    BY <2>1, EndsShape DEF Linked
  <2>5. \A k \in Node : Listed(k) \subseteq Listed(k)' /\ Listed(k)' \subseteq Listed(k) \cup {c}
    BY <2>1
  <2>6. \A k \in Node : \A d \in Listed(k)' : k \notin gone'[d]
    BY <2>1 DEF Linked
  <2>7. \A d \in Conn : Called(d)' => /\ Caller(d)' # Callee(d)'
                                      /\ Caller(d)' \in gone'[d] \/ d \in Listed(Caller(d))'
    <3> SUFFICES ASSUME NEW d \in Conn, Called(d)
                 PROVE  /\ Caller(d) # Callee(d)
                        /\ Caller(d) \in gone[d] \/ d \in Listed(Caller(d))'
      BY <2>1, <2>2
    <3>1. Caller(d) \in gone[d] \/ d \in Listed(Caller(d))
      BY DEF Linked
    <3>2. Listed(Caller(d)) \subseteq Range(node'[Caller(d)].peers)
      BY <2>4, <2>5 DEF Listed
    <3>3. Caller(d)' = Caller(d)
      BY <2>2
    <3> QED BY <3>1, <3>2, <3>3 DEF Listed, Linked
  <2>8. \A k \in Node : \A d, e \in Listed(k)' : Pair(d, e)' /\ Caller(d)' = k /\ Caller(e)' = k => d = e
    BY <2>1, <2>2, <2>3, <2>4 DEF Linked
  <2>9. \A d \in Conn : \A k \in gone'[d] : Called(d)' /\ k \in Range(ends'[d])
    BY <2>1, <2>2 DEF Linked
  <2> QED BY <2>6, <2>7, <2>8, <2>9 DEF Linked
<1>6. ASSUME NEW n \in Node, NEW c \in Conn, Leaving(n, c)
      PROVE  Linked'
  <2>1. /\ c \in node[n].closing /\ UNCHANGED ends /\ gone' = [gone EXCEPT ![c] = @ \cup {n}]
        /\ Listed(n)' = Listed(n) \ {c} /\ \A k \in Node \ {n} : Listed(k)' = Listed(k)
    BY <1>6 DEF Leaving, OthersUnmoved, Unmoved
  <2>2. \A d : Called(d)' = Called(d) /\ Caller(d)' = Caller(d) /\ Callee(d)' = Callee(d)
    BY <2>1 DEF Called, Caller, Callee
  <2>3. \A d, e : Pair(d, e)' = Pair(d, e)
    BY <2>1 DEF Pair, Called
  <2>4. /\ gone'[c] = gone[c] \cup {n} /\ \A d \in Conn \ {c} : gone'[d] = gone[d]
    BY <2>1 DEF Typed, TypeOK
  <2>5. c \in Listed(n) /\ Called(c) /\ n \in Range(ends[c]) /\ \A k \in Node : Listed(k) \subseteq Conn
    BY <2>1, ListedFacts, EndsShape
  <2>6. \A k \in Node : \A d \in Listed(k)' : k \notin gone'[d]
    BY <2>1, <2>4, <2>5 DEF Linked
  <2>7. ASSUME NEW d \in Conn, Called(d)
        PROVE  Caller(d) # Callee(d) /\ (Caller(d) \in gone'[d] \/ d \in Listed(Caller(d))')
    <3>1. Caller(d) \in Node /\ Caller(d) # Callee(d) /\ (Caller(d) \in gone[d] \/ d \in Listed(Caller(d)))
      BY <2>7, EndsShape DEF Linked
    <3>2. Caller(d) \in gone'[d] \/ d \in Range(node'[Caller(d)].peers)
      BY <2>1, <2>4, <3>1 DEF Listed
    <3>3. Caller(d)' = Caller(d)
      BY <2>2
    <3> QED BY <3>1, <3>2, <3>3 DEF Listed
  <2>8. \A k \in Node : \A d, e \in Listed(k)' : Pair(d, e)' /\ Caller(d)' = k /\ Caller(e)' = k => d = e
    BY <2>1, <2>2, <2>3 DEF Linked
  <2>9. \A d \in Conn : \A k \in gone'[d] : Called(d)' /\ k \in Range(ends'[d])
    BY <2>1, <2>2, <2>4, <2>5 DEF Linked
  <2> QED BY <2>2, <2>6, <2>7, <2>8, <2>9 DEF Linked
<1> QED BY <1>2, <1>3, <1>4, <1>5, <1>6 DEF Move

\* Connections stay the connections of their ends.
LEMMA EndsStay ==
  ASSUME Typed, Move
  PROVE  /\ \A c \in Conn : Called(c) => /\ Called(c)' /\ ends'[c] = ends[c]
                                         /\ Caller(c)' = Caller(c) /\ Callee(c)' = Callee(c)
         /\ \A c, d \in Conn : Pair(c, d) => Pair(c, d)'
         /\ \A c, d \in Conn : Called(c) /\ Called(d) /\ Pair(c, d)' => Pair(c, d)
         /\ failed \subseteq failed'
<1>1. (\A c \in Conn : Called(c) => ends'[c] = ends[c]) /\ failed \subseteq failed'
  <2>1. ASSUME NEW m \in Node, NEW n \in Node, NEW k \in Conn, Calling(m, n, k)
        PROVE  (\A c \in Conn : Called(c) => ends'[c] = ends[c]) /\ failed \subseteq failed'
    BY <2>1, CallingEnds DEF Calling
  <2>2. CASE UNCHANGED ends /\ failed \subseteq failed'
    BY <2>2
  <2>3. CASE NoMove
    BY <2>2, <2>3 DEF NoMove
  <2>4. ASSUME NEW n \in Node, NEW k \in Conn,
               Accepting(n, k) \/ Identifying(n, k) \/ Dropping(n, k) \/ Leaving(n, k)
        PROVE  UNCHANGED ends /\ failed \subseteq failed'
    BY <2>4 DEF Accepting, Identifying, Dropping, Leaving
  <2> QED BY <2>1, <2>2, <2>3, <2>4 DEF Move
<1>2. \A c \in Conn : Called(c) => /\ Called(c)' /\ Caller(c)' = Caller(c) /\ Callee(c)' = Callee(c)
  BY <1>1 DEF Called, Caller, Callee
<1> QED BY <1>1, <1>2 DEF Pair

\* A node closes a connection because of another one with the same node that it has identified,
\* or because it is gone at the other end or has failed.
LEMMA WhyClosed ==
  ASSUME Typed, Typed', Move, NEW c \in Conn, NEW n \in Node, Closed(c, n)', ~ Closed(c, n)
  PROVE  /\ Called(c) /\ c \in Listed(n) /\ c \in node'[n].closing /\ UNCHANGED <<ends, gone>>
         /\ \/ failed' = failed /\ \E d \in Conn :
                 /\ d # c /\ Pair(c, d) /\ {c, d} \subseteq node'[n].known
                 /\ d \in node[n].known \/ d \notin node[n].closing
                 /\ c \in node[n].known \/ d \in node[n].known
                 /\ Random[c] <= Random[d] /\ OthersUnmoved(n) /\ Listed(n)' = Listed(n)
            \/ Other(c, n) \in gone[c] /\ failed' = failed
            \/ c \in failed'
<1>1. ASSUME node'[n].closing = node[n].closing, n \notin gone'[c] \/ n \in gone[c]
      PROVE  FALSE
  BY <1>1 DEF Closed
<1>2. CASE NoMove
  BY <1>1, <1>2 DEF NoMove, Unmoved
<1>3. ASSUME NEW k \in Node, NEW m \in Node, NEW e \in Conn, Calling(k, m, e)
      PROVE  FALSE
  BY <1>1, <1>3 DEF Calling, OthersUnmoved, Unmoved
<1>4. ASSUME NEW k \in Node, NEW e \in Conn, Accepting(k, e)
      PROVE  FALSE
  BY <1>1, <1>4 DEF Accepting, OthersUnmoved, Unmoved
<1>5. ASSUME NEW k \in Node, NEW e \in Conn, Leaving(k, e)
      PROVE  FALSE
  <2>1. /\ e \in node[k].closing /\ gone' = [gone EXCEPT ![e] = @ \cup {k}]
        /\ node'[k].closing = node[k].closing \ {e}
        /\ \A m \in Node \ {k} : node'[m].closing = node[m].closing
    BY <1>5 DEF Leaving, OthersUnmoved, Unmoved
  <2>2. n \in gone'[c] => n \in gone[c] \/ (c = e /\ n = k)
    BY <2>1 DEF Typed, TypeOK
  <2> QED BY <2>1, <2>2 DEF Closed
<1>6. ASSUME NEW k \in Node, NEW e \in Conn, Dropping(k, e)
      PROVE  /\ Called(c) /\ c \in Listed(n) /\ c \in node'[n].closing /\ UNCHANGED <<ends, gone>>
             /\ (Other(c, n) \in gone[c] /\ failed' = failed) \/ c \in failed'
  <2>1. n = k /\ c = e
    BY <1>6 DEF Dropping, OthersUnmoved, Unmoved, Closed
  <2>2. c \in Listed(n) /\ Called(c)
    BY <1>6, <2>1, ListedFacts DEF Dropping
  <2> QED BY <1>6, <2>1, <2>2 DEF Dropping
<1>7. ASSUME NEW k \in Node, NEW e \in Conn, Identifying(k, e)
      PROVE  /\ Called(c) /\ c \in Listed(n) /\ c \in node'[n].closing /\ UNCHANGED <<ends, gone>>
             /\ failed' = failed /\ \E d \in Conn :
                 /\ d # c /\ Pair(c, d) /\ {c, d} \subseteq node'[n].known
                 /\ d \in node[n].known \/ d \notin node[n].closing
                 /\ c \in node[n].known \/ d \in node[n].known
                 /\ Random[c] <= Random[d] /\ OthersUnmoved(n) /\ Listed(n)' = Listed(n)
  <2>1. UNCHANGED <<ends, gone>> /\ failed' = failed /\ n = k /\ e \in Listed(n) /\ e \notin node[n].closing
        /\ node'[n].known = node[n].known \cup {e} /\ Listed(n)' = Listed(n) /\ OthersUnmoved(n)
    BY <1>7 DEF Identifying, OthersUnmoved, Unmoved, Closed
  <2>2. PICK d \in node[n].known :
          /\ d # e /\ Other(d, n) = Other(e, n)
          /\ node'[n].closing = node[n].closing \cup {choose_duplicate_connection(d, e)}
    BY <1>1, <1>7, <2>1 DEF Identifying
  <2>3. d \in Listed(n) /\ d \in Conn /\ Called(d) /\ Called(e) /\ Pair(d, e) /\ Pair(e, d)
    <3>1. d \in Listed(n) /\ d \in Conn /\ Called(d) /\ Called(e)
      BY <2>1, ListedFacts
    <3>2. Pair(d, e)
      BY <2>1, <2>2, <3>1, ListedFacts, PairShape
    <3> QED BY <3>1, <3>2 DEF Pair
  <2>4. c = choose_duplicate_connection(d, e) /\ c \in node'[n].closing
    BY <2>1, <2>2 DEF Closed
  <2>5. Random[d] \in Nat /\ Random[e] \in Nat
    BY <2>3, ConnectionsAssumption
  <2>6. CASE c = d
    <3>1. Random[d] <= Random[e]
      BY <2>2, <2>4, <2>5, <2>6 DEF choose_duplicate_connection
    <3> QED BY <2>1, <2>2, <2>3, <2>4, <2>6, <3>1
  <2>7. CASE c = e
    <3>1. Random[e] <= Random[d]
      BY <2>2, <2>4, <2>5, <2>7 DEF choose_duplicate_connection
    <3> QED BY <2>1, <2>2, <2>3, <2>4, <2>7, <3>1
  <2> QED BY <2>4, <2>6, <2>7 DEF choose_duplicate_connection
<1> QED BY <1>2, <1>3, <1>4, <1>5, <1>6, <1>7 DEF Move

\* What is closed has been beaten or has failed, or the other end was.
LEMMA BeatenNext ==
  ASSUME DifferentNumbers, Typed, Typed', Beaten, Move
  PROVE  Beaten'
<1> SUFFICES ASSUME NEW c \in Conn, NEW n \in Node, Closed(c, n)'
             PROVE  \E d \in Conn : Pair(c, d)' /\ (d \in failed' \/ Random[c] < Random[d])
  BY DEF Beaten
<1>1. ASSUME NEW d \in Conn, Pair(c, d), d \in failed' \/ Random[c] < Random[d]
      PROVE  \E e \in Conn : Pair(c, e)' /\ (e \in failed' \/ Random[c] < Random[e])
  BY <1>1, EndsStay
<1>2. CASE \E m \in Node : Closed(c, m)
  BY <1>1, <1>2, EndsStay DEF Beaten
<1>3. CASE ~ \E m \in Node : Closed(c, m)
  <2>1. Called(c) /\ Pair(c, c)
    BY <1>3, WhyClosed DEF Pair
  <2>2. CASE \E d \in Conn : d # c /\ Pair(c, d) /\ Random[c] <= Random[d]
    <3>1. PICK d \in Conn : d # c /\ Pair(c, d) /\ Random[c] <= Random[d]
      BY <2>2
    <3>2. Random[c] \in Nat /\ Random[d] \in Nat /\ Random[c] # Random[d]
      BY <3>1, ConnectionsAssumption DEF DifferentNumbers
    <3>3. Random[c] < Random[d]
      BY <3>1, <3>2
    <3> QED BY <1>1, <3>1, <3>3
  <2>3. CASE c \in failed'
    BY <1>1, <2>1, <2>3
  <2>4. CASE Other(c, n) \in gone[c]
    <3>1. Other(c, n) \in Node
      BY <2>1, EndsShape
    <3> QED BY <1>3, <2>4, <3>1 DEF Closed
  <2> QED BY <1>3, <2>2, <2>3, <2>4, WhyClosed
<1> QED BY <1>2, <1>3

-----------------------------------------------------------------------------
(* One connection stays *)

\* Among finitely many connections one has the greatest random identifier.
LEMMA GreatestOf ==
  ASSUME NEW b \in Nat, NEW W \in SUBSET Conn, W # {}, \A c \in W : c <= b
  PROVE  \E c \in W : \A d \in W : Random[d] <= Random[c]
<1> DEFINE Has(V) == \E c \in V : \A d \in V : Random[d] <= Random[c]
           S == {k \in 0 .. b : \A V \in SUBSET Conn : V # {} /\ (\A c \in V : c <= k) => Has(V)}
<1>1. \A c \in Conn : c \in Nat /\ Random[c] \in Nat
  BY ConnectionsAssumption
<1>2. 0 \in S
  <2> SUFFICES ASSUME NEW V \in SUBSET Conn, V # {}, \A c \in V : c <= 0
               PROVE  Has(V)
    OBVIOUS
  <2>1. PICK c \in V : TRUE
    OBVIOUS
  <2>2. c \in Conn /\ Random[c] \in Nat /\ \A d \in V : d = c
    BY <1>1, <2>1
  <2> QED BY <2>2
<1>3. ASSUME NEW k \in 0 .. b, k \in S, k < b
      PROVE  k + 1 \in S
  <2> SUFFICES ASSUME NEW V \in SUBSET Conn, V # {}, \A c \in V : c <= k + 1
               PROVE  Has(V)
    BY <1>3
  <2> DEFINE U == V \ {k + 1}
  <2>1. \A c \in U : c <= k
    BY <1>1
  <2>2. U # {} => Has(U)
    BY <1>3, <2>1
  <2>3. CASE k + 1 \notin V
    BY <2>2, <2>3
  <2>4. CASE k + 1 \in V /\ U = {}
    <3>1. \A d \in V : d = k + 1
      BY <2>4
    <3> QED BY <1>1, <2>4, <3>1
  <2>5. CASE k + 1 \in V /\ U # {}
    <3>1. PICK c \in U : \A d \in U : Random[d] <= Random[c]
      BY <2>2, <2>5
    <3>2. c \in V /\ Random[c] \in Nat /\ Random[k + 1] \in Nat /\ \A d \in V : Random[d] \in Nat
      BY <1>1, <2>5, <3>1
    <3>3. CASE Random[k + 1] <= Random[c]
      <4>1. \A d \in V : Random[d] <= Random[c]
        BY <3>1, <3>3
      <4> QED BY <3>2, <4>1
    <3>4. CASE Random[c] < Random[k + 1]
      <4>1. \A d \in V : Random[d] <= Random[k + 1]
        BY <3>1, <3>2, <3>4
      <4> QED BY <2>5, <4>1
    <3> QED BY <3>2, <3>3, <3>4
  <2> QED BY <2>3, <2>4, <2>5
<1>4. b \in S
  <2> HIDE DEF S
  <2>1. 0 .. b \subseteq S
    BY <1>2, <1>3, UpTo
  <2> QED BY <2>1
<1> QED BY <1>4

\* Among the connections between the same nodes as c.
LEMMA GreatestPair ==
  ASSUME Typed, Counted, NEW c \in Conn, Called(c)
  PROVE  \E d \in Conn : Pair(d, c) /\ \A e \in Conn : Pair(e, c) => Random[e] <= Random[d]
<1>1. PICK b \in Nat : \A d \in Conn : Called(d) => d <= b
  BY DEF Counted
<1> DEFINE W == {d \in Conn : Pair(d, c)}
<1>2. W \in SUBSET Conn /\ c \in W /\ \A d \in W : d <= b
  BY <1>1 DEF Pair
<1>3. \E d \in W : \A e \in W : Random[e] <= Random[d]
  <2> HIDE DEF W
  <2> QED BY <1>2, GreatestOf
<1> QED BY <1>3

\* A call adds one to the number of connections.
LEMMA CountedNext ==
  ASSUME Typed, Counted, Move
  PROVE  Counted'
<1>1. PICK b \in Nat : \A c \in Conn : Called(c) => c <= b
  BY DEF Counted
<1>2. CASE UNCHANGED ends
  BY <1>1, <1>2 DEF Counted, Called
<1>3. ASSUME NEW m \in Node, NEW n \in Node, NEW c \in Conn, Calling(m, n, c)
      PROVE  Counted'
  <2>1. \A d \in Conn \ {c} : Called(d)' => d <= b
    BY <1>1, <1>3, CallingEnds DEF Called
  <2>2. c \in Nat /\ Conn \subseteq Nat
    BY ConnectionsAssumption
  <2>3. b + c \in Nat /\ \A d \in Conn : Called(d)' => d <= b + c
    BY <2>1, <2>2
  <2> QED BY <2>3 DEF Counted
<1>4. ASSUME NEW n \in Node, NEW c \in Conn,
             Accepting(n, c) \/ Identifying(n, c) \/ Dropping(n, c) \/ Leaving(n, c)
      PROVE  UNCHANGED ends
  BY <1>4 DEF Accepting, Identifying, Dropping, Leaving
<1> QED BY <1>2, <1>3, <1>4 DEF Move, NoMove

\* The greatest of the connections of two nodes is open unless one has failed.
LEMMA BeatenMeansOpen ==
  ASSUME Typed, Counted, Linked, Beaten
  PROVE  StillConnected
<1> SUFFICES ASSUME NEW m \in Node, NEW n \in Node, Between(m, n) # {}, Between(m, n) \cap failed = {}
             PROVE  \E c \in Between(m, n) : Open(c)
  BY DEF StillConnected
<1>1. PICK c \in Conn : ends[c] \in {<<m, n>>, <<n, m>>}
  BY DEF Between
<1>2. <<m, n>> # NotCalled /\ <<n, m>> # NotCalled /\ Range(<<m, n>>) = {m, n} /\ Range(<<n, m>>) = {m, n}
  BY DEF NotCalled, Range
<1>3. Called(c) /\ Range(ends[c]) = {m, n}
  BY <1>1, <1>2 DEF Called
<1>4. PICK d \in Conn : Pair(d, c) /\ \A e \in Conn : Pair(e, c) => Random[e] <= Random[d]
  BY <1>3, GreatestPair
<1>5. ASSUME NEW e \in Conn, Pair(e, c)
      PROVE  e \in Between(m, n)
  <2>1. Called(e) /\ {Caller(e), Callee(e)} = {m, n} /\ ends[e] = <<Caller(e), Callee(e)>>
    BY <1>3, <1>5, EndsShape DEF Pair
  <2>2. ends[e] = <<m, n>> \/ ends[e] = <<n, m>>
    BY <2>1
  <2> QED BY <2>2 DEF Between
<1>6. ASSUME NEW k \in Node, Closed(d, k)
      PROVE  FALSE
  <2>1. PICK e \in Conn : Pair(d, e) /\ (e \in failed \/ Random[d] < Random[e])
    BY <1>6 DEF Beaten
  <2>2. Pair(e, c)
    BY <1>4, <2>1 DEF Pair
  <2>3. Random[e] \in Nat /\ Random[d] \in Nat
    BY ConnectionsAssumption
  <2> QED BY <1>4, <1>5, <2>1, <2>2, <2>3
<1>7. Open(d)
  <2>1. gone[d] \subseteq Node
    BY DEF Typed, TypeOK
  <2> QED BY <1>6, <2>1 DEF Open, Closed
<1> QED BY <1>4, <1>5, <1>7

\* The first states.
LEMMA InitLinks ==
  ASSUME Init
  PROVE  Typed /\ Linked /\ Counted /\ Beaten
<1>1. /\ network \in Network /\ node = [n \in Node |-> Started(n)]
      /\ ends = [c \in Conn |-> NotCalled] /\ chan = [c \in Conn |-> [n \in Node |-> <<>>]]
      /\ gone = [c \in Conn |-> {}] /\ failed = {}
  BY DEF Init
<1>2. ASSUME NEW n \in Node
      PROVE  /\ Started(n) \in NodeState /\ Started(n) \in Handling
             /\ Started(n).peers = <<>> /\ Started(n).known = {} /\ Started(n).authorized = {}
             /\ Started(n).accepted = {} /\ Started(n).connected = {} /\ Started(n).closing = {}
  <2>1. (IF n = Admin THEN <<n>> ELSE <<>>) \in Seq(Node) /\ <<>> \in Seq(Node) /\ <<>> \in Seq(Conn)
    OBVIOUS
  <2>2. [c \in Conn |-> <<>>] \in [Conn -> {<<>>}] /\ [c \in Conn |-> <<>>] \in [Conn -> Seq(Message)]
    OBVIOUS
  <2> QED BY <2>1, <2>2 DEF Started, NodeState, Handling
<1>3. Range(<<>>) = {} /\ IsInjective(<<>>)
  BY DEF Range, IsInjective
<1>4. \A n \in Node : Orderly(n, node[n])
  BY <1>1, <1>2, <1>3 DEF Orderly
<1>5. \A n \in Node : Listed(n) = {} /\ node[n].closing = {}
  BY <1>1, <1>2, <1>3 DEF Listed
<1>6. \A c \in Conn : ~ Called(c) /\ gone[c] = {}
  BY <1>1 DEF Called
<1>7. TypeOK
  BY <1>1, <1>2, <1>4 DEF TypeOK, Orderly
<1>8. chan \in [Conn -> [Node -> Seq(Message)]]
  BY <1>1
<1>9. Linked /\ Counted /\ Beaten
  BY <1>5, <1>6 DEF Linked, Counted, Beaten, Closed
<1> QED BY <1>4, <1>7, <1>8, <1>9 DEF Typed

\* The variables keep their types for any networks, calls and failures, and only identified peers are
\* authorized (allowed_nodes.c and the connection callbacks of no-leader.c).
THEOREM ConnectionsTypeCorrect == Spec => []TypeOK
<1>1. Init => Typed
  BY InitLinks
<1>2. Typed /\ [Next]_vars => Typed'
  BY StepMoves
<1>3. Typed => TypeOK
  BY DEF Typed
<1> QED BY <1>1, <1>2, <1>3, PTL DEF Spec

\* Of the connections of two nodes that call each other, both ends keep one, as long as none of them fails:
\* choose_duplicate_connection decides by identifiers that differ, and the greatest is never closed.
THEOREM TieBreakKeepsOne ==
  ASSUME DifferentNumbers
  PROVE  Spec => []StillConnected
<1>1. Init => LinksInv
  BY InitLinks DEF LinksInv
<1>2. LinksInv /\ [Next]_vars => LinksInv'
  BY StepMoves, LinkedNext, CountedNext, BeatenNext DEF LinksInv
<1>3. LinksInv => StillConnected
  BY BeatenMeansOpen DEF LinksInv
<1> QED BY <1>1, <1>2, <1>3, PTL DEF Spec

-----------------------------------------------------------------------------
(* No more than one stays *)

\* A connection that is not closed at its caller is on its list.
LEMMA OpenIsListed ==
  ASSUME Linked, NEW c \in Conn, Called(c), ~ Closed(c, Caller(c))
  PROVE  c \in Listed(Caller(c))
BY DEF Linked, Closed

\* What is on a list and closed is being closed; what is not on the list of the caller is
\* gone there.
LEMMA ListedClosing ==
  ASSUME Linked
  PROVE  /\ \A n \in Node : \A c \in Listed(n) : Closed(c, n) => c \in node[n].closing
         /\ \A c \in Conn : Called(c) /\ c \notin Listed(Caller(c)) => Closed(c, Caller(c))
BY DEF Linked, Closed

\* Without a failure the largest connection is open.
LEMMA LargestIsOpen ==
  ASSUME Beaten, failed = {}, NEW g \in Conn, Called(g), Largest(g), NEW n \in Node
  PROVE  ~ Closed(g, n)
<1> SUFFICES ASSUME Closed(g, n)
             PROVE  FALSE
  OBVIOUS
<1>1. PICK d \in Conn : Pair(g, d) /\ Random[g] < Random[d]
  BY DEF Beaten
<1>2. Pair(d, g) /\ Random[g] \in Nat /\ Random[d] \in Nat
  BY <1>1, ConnectionsAssumption DEF Pair
<1> QED BY <1>1, <1>2 DEF Largest

\* There is one largest connection.
LEMMA LargestIsUnique ==
  ASSUME DifferentNumbers, NEW c \in Conn, NEW d \in Conn, Pair(c, d), Largest(c), Largest(d)
  PROVE  c = d
<1>1. Random[c] \in Nat /\ Random[d] \in Nat /\ Pair(d, c)
  BY ConnectionsAssumption DEF Pair
<1>2. Random[c] <= Random[d] /\ Random[d] <= Random[c]
  BY <1>1 DEF Largest
<1>3. Random[c] = Random[d]
  BY <1>1, <1>2
<1> QED BY <1>3 DEF DifferentNumbers

\* The larger of different connections.
LEMMA LargerNumber ==
  ASSUME DifferentNumbers, NEW c \in Conn, NEW d \in Conn, c # d, Random[c] <= Random[d]
  PROVE  Random[c] < Random[d]
<1>1. Random[c] \in Nat /\ Random[d] \in Nat /\ Random[c] # Random[d]
  BY ConnectionsAssumption DEF DifferentNumbers
<1> QED BY <1>1

\* What a move may change in the lists of a node.
LEMMA Changes ==
  ASSUME Typed, Move, NEW n \in Node, NEW c \in Conn
  PROVE  /\ Closed(c, n) => Closed(c, n)'
         /\ c \in Listed(n)' => \/ c \in Listed(n) \/ Accepting(n, c)
                                \/ \E m \in Node : Calling(n, m, c)
         /\ c \in node'[n].known => c \in node[n].known \/ Identifying(n, c)
         /\ c \in node[n].known => c \in node'[n].known \/ c \in node[n].closing
         /\ c \in node[n].closing => c \in node'[n].closing \/ c \notin node'[n].known
<1> DEFINE Goal == /\ Closed(c, n) => Closed(c, n)'
                   /\ c \in Listed(n)' => \/ c \in Listed(n) \/ Accepting(n, c)
                                          \/ \E m \in Node : Calling(n, m, c)
                   /\ c \in node'[n].known => c \in node[n].known \/ Identifying(n, c)
                   /\ c \in node[n].known => c \in node'[n].known \/ c \in node[n].closing
                   /\ c \in node[n].closing => c \in node'[n].closing \/ c \notin node'[n].known
<1>1. ASSUME Unmoved(n), gone[c] \subseteq gone'[c]
      PROVE  Goal
  BY <1>1 DEF Unmoved, Closed
<1>2. CASE NoMove
  BY <1>1, <1>2 DEF NoMove
<1>3. ASSUME NEW m \in Node, NEW k \in Node, NEW d \in Conn, Calling(m, k, d)
      PROVE  Goal
  <2>1. gone' = gone /\ OthersUnmoved(m)
    BY <1>3 DEF Calling
  <2>2. CASE m # n
    BY <1>1, <2>1, <2>2 DEF OthersUnmoved
  <2>3. CASE m = n
    BY <1>3, <2>3 DEF Calling, Closed
  <2> QED BY <2>2, <2>3
<1>4. ASSUME NEW m \in Node, NEW d \in Conn, Accepting(m, d)
      PROVE  Goal
  <2>1. gone' = gone /\ OthersUnmoved(m)
    BY <1>4 DEF Accepting
  <2>2. CASE m # n
    BY <1>1, <2>1, <2>2 DEF OthersUnmoved
  <2>3. CASE m = n
    <3>1. Listed(n)' = Listed(n) \cup {d} /\ node'[n].known = node[n].known /\ node'[n].closing = node[n].closing
      BY <1>4, <2>3 DEF Accepting
    <3>2. c = d => Accepting(n, c)
      BY <1>4, <2>3
    <3> QED BY <2>1, <3>1, <3>2 DEF Closed
  <2> QED BY <2>2, <2>3
<1>5. ASSUME NEW m \in Node, NEW d \in Conn, Identifying(m, d)
      PROVE  Goal
  <2>1. gone' = gone /\ OthersUnmoved(m)
    BY <1>5 DEF Identifying
  <2>2. CASE m # n
    BY <1>1, <2>1, <2>2 DEF OthersUnmoved
  <2>3. CASE m = n
    <3>1. /\ Listed(n)' = Listed(n) /\ node'[n].known = node[n].known \cup {d}
          /\ node[n].closing \subseteq node'[n].closing
      BY <1>5, <2>3 DEF Identifying
    <3>2. c = d => Identifying(n, c)
      BY <1>5, <2>3
    <3> QED BY <2>1, <3>1, <3>2 DEF Closed
  <2> QED BY <2>2, <2>3
<1>6. ASSUME NEW m \in Node, NEW d \in Conn, Dropping(m, d)
      PROVE  Goal
  <2>1. gone' = gone /\ OthersUnmoved(m)
    BY <1>6 DEF Dropping
  <2>2. CASE m # n
    BY <1>1, <2>1, <2>2 DEF OthersUnmoved
  <2>3. CASE m = n
    BY <1>6, <2>3 DEF Dropping, Closed
  <2> QED BY <2>2, <2>3
<1>7. ASSUME NEW m \in Node, NEW d \in Conn, Leaving(m, d)
      PROVE  Goal
  <2>1. gone' = [gone EXCEPT ![d] = @ \cup {m}] /\ OthersUnmoved(m) /\ gone \in [Conn -> SUBSET Node]
    BY <1>7 DEF Leaving, Typed, TypeOK
  <2>2. gone[c] \subseteq gone'[c] /\ (c = d => m \in gone'[c])
    BY <2>1
  <2>3. CASE m # n
    BY <1>1, <2>1, <2>2, <2>3 DEF OthersUnmoved
  <2>4. CASE m = n
    BY <1>7, <2>2, <2>4 DEF Leaving, Closed
  <2> QED BY <2>3, <2>4
<1> QED BY <1>2, <1>3, <1>4, <1>5, <1>6, <1>7 DEF Move

\* What a node knows next is then on its list.
LEMMA KnownNext ==
  ASSUME Typed', NEW n \in Node
  PROVE  node'[n].known \subseteq Range(node'[n].peers)
BY DEF Typed, TypeOK

\* A connection is made by a call.
LEMMA NewlyCalled ==
  ASSUME Typed, Move, NEW c \in Conn, Called(c)', ~ Called(c)
  PROVE  \E m, n \in Node : Calling(m, n, c)
<1>1. CASE UNCHANGED ends
  BY <1>1 DEF Called
<1>2. ASSUME NEW m \in Node, NEW n \in Node, NEW d \in Conn, Calling(m, n, d)
      PROVE  Calling(m, n, c)
  <2>1. c # d => ends'[c] = ends[c]
    BY <1>2, CallingEnds
  <2>2. c = d
    BY <2>1 DEF Called
  <2> QED BY <1>2, <2>2
<1>3. ASSUME NEW n \in Node, NEW d \in Conn,
             Accepting(n, d) \/ Identifying(n, d) \/ Dropping(n, d) \/ Leaving(n, d)
      PROVE  UNCHANGED ends
  BY <1>3 DEF Accepting, Identifying, Dropping, Leaving
<1> QED BY <1>1, <1>2, <1>3 DEF Move, NoMove

\* What a node lists next it has listed, or it is a new call or one of another node.
LEMMA NewlyListed ==
  ASSUME Typed, Linked, Move, NEW c \in Conn, Called(c), c \in Listed(Caller(c))'
  PROVE  c \in Listed(Caller(c))
<1>1. Caller(c)' = Caller(c) /\ Caller(c) \in Node /\ Caller(c) # Callee(c)
  BY EndsStay, EndsShape DEF Linked
<1>2. c \in Range(node'[Caller(c)].peers)
  BY <1>1 DEF Listed
<1> DEFINE p == Caller(c)
<1>3. \/ c \in Listed(p) \/ Accepting(p, c) \/ \E m \in Node : Calling(p, m, c)
  <2>1. \A n \in Node : c \in Range(node'[n].peers) => \/ c \in Listed(n) \/ Accepting(n, c)
                                                      \/ \E m \in Node : Calling(n, m, c)
    BY Changes DEF Listed
  <2> QED BY <1>1, <1>2, <2>1
<1>4. ~ Accepting(p, c) /\ \A m \in Node : ~ Calling(p, m, c)
  BY <1>1 DEF Accepting, Calling
<1> QED BY <1>3, <1>4

\* A largest connection that the other end has identified stays so: neither end calls again.
LEMMA LargestStays ==
  ASSUME LinksInv, Move, failed' = {},
         NEW g \in Conn, Called(g), Largest(g), g \in node[Callee(g)].known
  PROVE  /\ Largest(g)' /\ g \in node'[Callee(g)].known
         /\ \A c \in Conn : Pair(c, g)' => Called(c)
<1>1. Typed /\ Linked /\ Beaten /\ failed = {}
  BY EndsStay DEF LinksInv
<1>2. \A n \in Node : ~ Closed(g, n)
  BY <1>1, LargestIsOpen
<1>3. /\ Caller(g) \in Node /\ Callee(g) \in Node /\ ends[g] = <<Caller(g), Callee(g)>>
      /\ Range(ends[g]) = {Caller(g), Callee(g)} /\ Called(g)' /\ ends'[g] = ends[g]
  BY <1>1, EndsShape, EndsStay
<1>4. g \in Listed(Caller(g)) /\ g \in Listed(Callee(g))
  BY <1>1, <1>2, <1>3, OpenIsListed, ListedFacts
<1>5. g \in node'[Callee(g)].known
  BY <1>1, <1>2, <1>3, Changes DEF Closed
<1>6. ASSUME NEW c \in Conn, Pair(c, g)', ~ Called(c)
      PROVE  FALSE
  <2>1. PICK m \in Node, n \in Node : Calling(m, n, c)
    BY <1>1, <1>6, NewlyCalled DEF Pair
  <2>2. Range(ends'[c]) = {m, n}
    BY <1>1, <2>1, CallingEnds
  <2>3. {m, n} = {Caller(g), Callee(g)}
    BY <1>3, <1>6, <2>2 DEF Pair
  <2>4. g \in Between(m, n)
    BY <1>3, <2>3 DEF Between
  <2>5. \A d \in Listed(m) \cap Between(m, n) : Caller(d) # m /\ d \notin node[m].known
    BY <2>1 DEF Calling
  <2> QED BY <1>4, <2>3, <2>4, <2>5
<1>7. Largest(g)'
  <2> SUFFICES ASSUME NEW d \in Conn, Pair(d, g)'
               PROVE  Random[d] <= Random[g]
    BY DEF Largest
  <2>1. Called(d)
    BY <1>6
  <2>2. Pair(d, g)
    BY <1>1, <2>1, EndsStay
  <2> QED BY <2>2 DEF Largest
<1> QED BY <1>5, <1>6, <1>7

\* When a peer has closed its call and this node has not, the call of this node is the largest.
LEMMA OwnIsLargest ==
  ASSUME LinksInv, failed = {}, ClosedByOther,
         NEW c \in Conn, NEW d \in Conn, Pair(c, d), Caller(c) = Callee(d), c \in Listed(Caller(c)),
         Closed(d, Caller(d)), ~ Closed(d, Callee(d))
  PROVE  /\ Largest(c)
         /\ \A e \in Listed(Caller(d)) : Pair(e, d) /\ Caller(e) = Caller(d) => e = d
<1>1. Typed /\ Linked /\ Beaten
  BY DEF LinksInv
<1>2. Called(c) /\ Called(d)
  BY DEF Pair
<1>3. PICK g \in Conn :
        /\ Pair(g, d) /\ Largest(g) /\ Callee(g) = Caller(d)
        /\ \A e \in Listed(Caller(d)) : Pair(e, d) /\ Caller(e) = Caller(d) => e = d
  BY <1>2 DEF ClosedByOther
<1>4. Called(g) /\ Pair(g, c)
  BY <1>3 DEF Pair
<1>5. Caller(g) = Caller(c)
  <2>1. Caller(d) # Callee(d)
    BY <1>1, <1>2 DEF Linked
  <2>2. \/ Caller(g) = Caller(d) /\ Callee(g) = Callee(d)
        \/ Caller(g) = Callee(d) /\ Callee(g) = Caller(d)
    BY <1>1, <1>2, <1>3, <1>4, PairShape
  <2> QED BY <1>3, <2>1, <2>2
<1>6. Caller(c) \in Node /\ g \in Listed(Caller(c))
  <2>1. Caller(c) \in Node
    BY <1>1, <1>2, EndsShape
  <2>2. ~ Closed(g, Caller(g))
    BY <1>1, <1>3, <1>4, <1>5, <2>1, LargestIsOpen
  <2> QED BY <1>1, <1>4, <1>5, <2>1, <2>2, OpenIsListed
<1>7. g = c
  BY <1>1, <1>4, <1>5, <1>6 DEF Linked
<1> QED BY <1>3, <1>7

\* A call that its node has not closed stays on its list; what is closed there was called before.
LEMMA ClosedWasCalled ==
  ASSUME LinksInv, Move, NEW c \in Conn, Called(c)', Closed(c, Caller(c))'
  PROVE  Called(c) /\ Caller(c)' = Caller(c) /\ Callee(c)' = Callee(c)
<1>1. Typed /\ Linked
  BY DEF LinksInv
<1>2. ASSUME ~ Called(c)
      PROVE  FALSE
  <2>1. PICK m \in Node, n \in Node : Calling(m, n, c)
    BY <1>1, <1>2, NewlyCalled
  <2>2. Caller(c)' = m /\ c \notin node[m].closing
    BY <1>1, <2>1, CallingEnds
  <2>3. gone'[c] = gone[c] /\ node'[m].closing = node[m].closing
    BY <2>1 DEF Calling
  <2>4. m \notin gone[c]
    BY <1>1, <1>2 DEF Linked
  <2>5. m \in gone'[c] \/ c \in node'[m].closing
    BY <2>2 DEF Closed
  <2> QED BY <2>2, <2>3, <2>4, <2>5
<1> QED BY <1>1, <1>2, EndsStay

\* Each move keeps that the caller closes its call after the other end, or because of the largest one.
LEMMA ClosedByOtherNext ==
  ASSUME DifferentNumbers, LinksInv, LinksInv', Move, failed' = {}, ClosedByOther, OwnIsGreater
  PROVE  ClosedByOther'
<1> SUFFICES ASSUME NEW c \in Conn, Called(c)', Closed(c, Caller(c))'
             PROVE  \/ Closed(c, Callee(c))'
                    \/ \E g \in Conn :
                         /\ Pair(g, c)' /\ Largest(g)' /\ Callee(g)' = Caller(c)'
                         /\ g \in (node[Caller(c)].known)'
                         /\ \A d \in Listed(Caller(c))' : Pair(d, c)' /\ Caller(d)' = Caller(c)' => d = c
  BY DEF ClosedByOther
<1> DEFINE p == Caller(c)
           q == Callee(c)
<1>1. /\ Typed /\ Typed' /\ Linked /\ Linked' /\ Beaten /\ Counted /\ failed = {}
      /\ Called(c) /\ Caller(c)' = p /\ Callee(c)' = q
      /\ p \in Node /\ q \in Node /\ p # q
  <2>1. Typed /\ Typed' /\ Linked /\ Linked' /\ Beaten /\ Counted /\ failed = {}
    BY EndsStay DEF LinksInv
  <2>2. Called(c) /\ Caller(c)' = p /\ Callee(c)' = q
    BY ClosedWasCalled
  <2>3. p \in Node /\ q \in Node /\ p # q
    BY <2>1, <2>2, EndsShape DEF Linked
  <2> QED BY <2>1, <2>2, <2>3
<1>2. Closed(c, p)'
  BY <1>1 DEF Closed
<1>3. ASSUME NEW g \in Conn, Pair(g, c)', Largest(g)', Callee(g)' = p, g \in node'[p].known,
             \A d \in Conn : d \in Range(node'[p].peers) /\ Pair(d, c)' /\ Caller(d)' = p => d = c
      PROVE  \E h \in Conn :
               /\ Pair(h, c)' /\ Largest(h)' /\ Callee(h)' = Caller(c)'
               /\ h \in (node[Caller(c)].known)'
               /\ \A d \in Listed(Caller(c))' : Pair(d, c)' /\ Caller(d)' = Caller(c)' => d = c
  <2>1. \A d \in Listed(Caller(c))' : d \in Conn /\ d \in Range(node'[p].peers)
    <3>1. Listed(Caller(c))' = Range(node'[p].peers)
      BY <1>1 DEF Listed
    <3>2. Listed(p) \subseteq Conn
      BY <1>1, ListedFacts
    <3>3. \A d \in Range(node'[p].peers) : d \in Conn
      <4>1. node'[p].peers \in Seq(Conn)
        BY <1>1 DEF Typed, TypeOK, NodeState
      <4> QED BY <4>1 DEF Range
    <3> QED BY <3>1, <3>3
  <2> QED BY <1>1, <1>3, <2>1
<1>4. CASE Closed(c, p)
  <2>1. CASE Closed(c, q)
    <3>1. \A n \in Node : Closed(c, n) => Closed(c, n)'
      BY <1>1, Changes
    <3>2. Closed(c, q)'
      BY <1>1, <2>1, <3>1 DEF Closed
    <3> QED BY <1>1, <3>2 DEF Closed
  <2>2. CASE ~ Closed(c, q)
    <3>1. PICK g \in Conn :
            /\ Pair(g, c) /\ Largest(g) /\ Callee(g) = p /\ g \in node[p].known
            /\ \A d \in Listed(p) : Pair(d, c) /\ Caller(d) = p => d = c
      BY <1>1, <1>4, <2>2 DEF ClosedByOther
    <3>2. Called(g) /\ Pair(g, c)' /\ Callee(g)' = p
      BY <1>1, <3>1, EndsStay DEF Pair
    <3>3. Largest(g)' /\ g \in node'[p].known /\ \A d \in Conn : Pair(d, g)' => Called(d)
      BY <3>1, <3>2, LargestStays
    <3>4. ASSUME NEW d \in Conn, d \in Range(node'[p].peers), Pair(d, c)', Caller(d)' = p
          PROVE  d = c
      <4>1. Called(d)
        BY <3>2, <3>3, <3>4 DEF Pair
      <4>2. Pair(d, c) /\ Caller(d) = p
        BY <1>1, <3>4, <4>1, EndsStay
      <4>3. d \in Listed(Caller(d))'
        BY <3>4 DEF Listed
      <4>4. d \in Listed(p)
        BY <1>1, <4>1, <4>2, <4>3, NewlyListed
      <4> QED BY <3>1, <4>2, <4>4
    <3> QED BY <1>3, <3>2, <3>3, <3>4
  <2> QED BY <2>1, <2>2
<1>5. CASE ~ Closed(c, p)
  <2>0. /\ c \in Listed(p) /\ UNCHANGED <<ends, gone>>
        /\ \/ \E d \in Conn :
                /\ d # c /\ Pair(c, d) /\ {c, d} \subseteq node'[p].known
                /\ d \in node[p].known \/ d \notin node[p].closing
                /\ Random[c] <= Random[d] /\ Listed(p)' = Listed(p)
           \/ Other(c, p) \in gone[c]
    <3>1. c \notin failed'
      OBVIOUS
    <3> QED BY <1>1, <1>2, <1>5, <3>1, WhyClosed
  <2>1. CASE Other(c, p) \in gone[c]
    <3>1. q \in gone'[c]
      BY <1>1, <2>0, <2>1, EndsShape
    <3> QED BY <1>1, <3>1 DEF Closed
  <2>2. CASE \E d \in Conn :
               /\ d # c /\ Pair(c, d) /\ {c, d} \subseteq node'[p].known
               /\ d \in node[p].known \/ d \notin node[p].closing
               /\ Random[c] <= Random[d] /\ Listed(p)' = Listed(p)
    <3>1. PICK d \in Conn :
               /\ d # c /\ Pair(c, d) /\ {c, d} \subseteq node'[p].known
               /\ d \in node[p].known \/ d \notin node[p].closing
               /\ Random[c] <= Random[d] /\ Listed(p)' = Listed(p)
      BY <2>2
    <3>2. d \in Listed(p) /\ Called(d) /\ Random[c] < Random[d] /\ ~ (Random[d] <= Random[c])
      <4>1. d \in Listed(p)
        <5>1. d \in Range(node'[p].peers)
          BY <1>1, <3>1, KnownNext
        <5> QED BY <1>1, <3>1, <5>1 DEF Listed
      <4>2. Random[c] < Random[d] /\ Random[c] \in Nat /\ Random[d] \in Nat
        BY <3>1, LargerNumber, ConnectionsAssumption
      <4> QED BY <3>1, <4>1, <4>2 DEF Pair
    <3>3. Caller(d) = q /\ Callee(d) = p
      <4>1. Caller(d) # p
        BY <1>1, <2>0, <3>1, <3>2 DEF Linked
      <4> QED BY <1>1, <3>1, <3>2, <4>1, PairShape
    <3>4. PICK g \in Conn : Pair(g, c) /\ Largest(g)
      <4>1. PICK g \in Conn : Pair(g, c) /\ \A e \in Conn : Pair(e, c) => Random[e] <= Random[g]
        BY <1>1, GreatestPair
      <4>2. \A e \in Conn : Pair(e, g) => Pair(e, c)
        BY <4>1 DEF Pair
      <4> QED BY <4>1, <4>2 DEF Largest
    <3>5. /\ Called(g) /\ Pair(g, d) /\ Pair(d, g) /\ Pair(c, d) /\ Random[d] <= Random[g]
          /\ (Caller(g) = p /\ Callee(g) = q) \/ (Caller(g) = q /\ Callee(g) = p)
          /\ g \in Listed(Caller(g))
      <4>1. Called(g) /\ Pair(g, d) /\ Pair(d, g)
        BY <3>1, <3>4 DEF Pair
      <4>2. (Caller(g) = p /\ Callee(g) = q) \/ (Caller(g) = q /\ Callee(g) = p)
        BY <1>1, <3>4, <4>1, PairShape
      <4>3. ~ Closed(g, Caller(g))
        BY <1>1, <3>4, <4>1, <4>2, LargestIsOpen
      <4> QED BY <1>1, <3>1, <3>4, <4>1, <4>2, <4>3, OpenIsListed DEF Largest
    <3>6. CASE Caller(g) = p
      <4>1. g = c
        BY <1>1, <2>0, <3>4, <3>5, <3>6 DEF Linked
      <4> QED BY <3>2, <3>5, <4>1
    <3>7. CASE Caller(g) = q /\ g # d
      <4>1. d \notin Listed(q)
        BY <1>1, <3>3, <3>5, <3>7 DEF Linked
      <4>2. Closed(d, q)
        BY <1>1, <3>2, <3>3, <4>1, ListedClosing
      <4>3. CASE Closed(d, p)
        <5>1. d \in node[p].closing
          BY <1>1, <3>2, <4>3, ListedClosing
        <5>2. d \in node[p].known
          BY <3>1, <5>1
        <5>3. Random[d] < Random[c]
          BY <1>1, <2>0, <3>1, <3>3, <5>1, <5>2 DEF OwnIsGreater
        <5>4. Random[d] \in Nat /\ Random[c] \in Nat
          BY ConnectionsAssumption
        <5> QED BY <3>2, <5>3, <5>4
      <4>4. CASE ~ Closed(d, p)
        <5>1. Largest(c)
          BY <1>1, <2>0, <3>1, <3>3, <4>2, <4>4, OwnIsLargest
        <5>2. g = c
          BY <3>4, <5>1, LargestIsUnique
        <5> QED BY <1>1, <3>7, <5>2
      <4> QED BY <4>3, <4>4
    <3>8. CASE Caller(g) = q /\ g = d
      <4>1. Pair(d, c)' /\ Callee(d)' = p /\ d \in node'[p].known
        BY <1>1, <3>1, <3>2, <3>3, <3>4, <3>8, EndsStay
      <4>2. \A e \in Conn : Pair(e, d)' = Pair(e, d)
        BY <2>0 DEF Pair, Called
      <4>3. Largest(d)'
        BY <3>4, <3>8, <4>2 DEF Largest
      <4>4. ASSUME NEW e \in Conn, e \in Range(node'[p].peers), Pair(e, c)', Caller(e)' = p
            PROVE  e = c
        <5>1. Pair(e, c) /\ Caller(e) = p
          BY <2>0, <4>4 DEF Pair, Called, Caller
        <5>2. e \in Listed(p)
          BY <1>1, <3>1, <4>4 DEF Listed
        <5> QED BY <1>1, <2>0, <5>1, <5>2 DEF Linked
      <4> QED BY <1>3, <4>1, <4>3, <4>4
    <3> QED BY <3>5, <3>6, <3>7, <3>8
  <2> QED BY <2>0, <2>1, <2>2
<1> QED BY <1>4, <1>5

\* Each move keeps the call of a node greater than those it is closing.
LEMMA OwnIsGreaterNext ==
  ASSUME DifferentNumbers, LinksInv, LinksInv', Move, failed' = {}, ClosedByOther, OwnIsGreater
  PROVE  OwnIsGreater'
<1>1. Typed /\ Typed' /\ Linked /\ Linked' /\ Beaten /\ failed = {} /\ \A c \in Conn : Random[c] \in Nat
  BY EndsStay, ConnectionsAssumption DEF LinksInv
<1> SUFFICES ASSUME NEW c \in Conn, NEW d \in Conn, NEW p \in Node, Pair(c, d)', p = Caller(c)',
                    p = Callee(d)', c \in Range(node'[p].peers), d \in node'[p].known, d \in node'[p].closing
             PROVE  Random[d] < Random[c]
  <2> SUFFICES ASSUME NEW c \in Conn, NEW d \in Conn, Pair(c, d)', Caller(c)' = Callee(d)',
                      c \in Listed(Caller(c))', d \in node'[Caller(c)'].known,
                      d \in node'[Caller(c)'].closing
               PROVE  Random[d] < Random[c]
    BY DEF OwnIsGreater
  <2>1. c \in Range(node'[Caller(c)'].peers)
    BY DEF Listed
  <2>2. Caller(c)' \in Node
    <3>1. ends'[c] \in Node \X Node
      BY <1>1 DEF Pair, Called, Typed, TypeOK
    <3> QED BY <3>1 DEF Caller
  <2> QED BY <2>1, <2>2
<1>2. d \in Listed(p) /\ Called(d) /\ Callee(d) = p
  <2>1. d \in node[p].known \/ Identifying(p, d)
    BY <1>1, Changes
  <2>2. d \in Listed(p)
    BY <1>1, <2>1, ListedFacts DEF Identifying
  <2>3. Called(d) /\ d \in Conn
    BY <1>1, <2>2, ListedFacts
  <2>4. Callee(d)' = Callee(d)
    BY <1>1, <2>3, EndsStay
  <2> QED BY <2>2, <2>3, <2>4
<1>3. Called(c)
  <2> SUFFICES ASSUME ~ Called(c)
               PROVE  FALSE
    OBVIOUS
  <2>1. PICK m \in Node, n \in Node : Calling(m, n, c)
    BY <1>1, NewlyCalled DEF Pair
  <2>2. Caller(c)' = m /\ Callee(c)' = n /\ Range(ends'[c]) = {m, n}
    BY <1>1, <2>1, CallingEnds
  <2>3. d \in node[m].known /\ \A e \in Listed(m) \cap Between(m, n) : e \notin node[m].known
    BY <2>1, <2>2 DEF Calling
  <2>4. Range(ends[d]) = {m, n} /\ ends[d] = <<Caller(d), Callee(d)>> /\ Range(ends[d]) = {Caller(d), Callee(d)}
    BY <1>1, <1>2, <2>2, EndsStay, EndsShape DEF Pair
  <2>5. d \in Between(m, n)
    BY <2>4 DEF Between
  <2> QED BY <1>2, <2>2, <2>3, <2>5
<1>4. /\ Pair(c, d) /\ Caller(c) = p /\ Callee(c) # p /\ Caller(d) = Callee(c) /\ Callee(c) \in Node
      /\ c \in Listed(p) /\ c # d
  <2>1. Pair(c, d) /\ Caller(c) = p
    BY <1>1, <1>2, <1>3, EndsStay
  <2>2. Callee(c) # p /\ Callee(c) \in Node
    BY <1>1, <1>3, <2>1, EndsShape DEF Linked
  <2>3. c \in Listed(Caller(c))'
    BY DEF Listed
  <2>4. c \in Listed(p)
    BY <1>1, <1>3, <2>1, <2>3, NewlyListed
  <2> QED BY <1>1, <1>2, <1>3, <2>1, <2>2, <2>4, PairShape
<1> DEFINE q == Callee(c)
<1>5. ASSUME Largest(c)
      PROVE  Random[d] < Random[c]
  <2>1. Random[d] <= Random[c]
    BY <1>4, <1>5 DEF Largest, Pair
  <2> QED BY <1>4, <2>1, LargerNumber
<1>6. ASSUME Closed(d, q), ~ Closed(d, p)
      PROVE  Random[d] < Random[c]
  BY <1>1, <1>2, <1>4, <1>5, <1>6, OwnIsLargest
<1>7. CASE d \in node[p].closing
  <2>1. d \in node[p].known
    BY <1>1, <1>7, Changes DEF Identifying
  <2> QED BY <1>2, <1>4, <1>7, <2>1 DEF OwnIsGreater
<1>8. CASE d \notin node[p].closing
  <2>1. ~ Closed(d, p) /\ Closed(d, p)'
    BY <1>1, <1>2, <1>8 DEF Closed, Linked
  <2>2. \/ \E b \in Conn :
              /\ b # d /\ Pair(d, b) /\ {d, b} \subseteq node'[p].known
              /\ b \in node[p].known \/ b \notin node[p].closing
              /\ Random[d] <= Random[b] /\ Listed(p)' = Listed(p)
        \/ Other(d, p) \in gone[d]
    BY <1>1, <2>1, WhyClosed
  <2>3. CASE Other(d, p) \in gone[d]
    <3>1. Other(d, p) = q
      BY <1>1, <1>2, <1>4, EndsShape
    <3> QED BY <1>6, <2>1, <2>3, <3>1 DEF Closed
  <2>4. ASSUME NEW b \in Conn, b # d, Pair(d, b), b \in node'[p].known,
               b \in node[p].known \/ b \notin node[p].closing,
               Random[d] <= Random[b], Listed(p)' = Listed(p)
        PROVE  Random[d] < Random[c]
    <3>1. Random[d] < Random[b]
      BY <2>4, LargerNumber
    <3>2. CASE b = c
      BY <3>1, <3>2
    <3>3. CASE b # c
      <4>1. b \in Listed(p) /\ Called(b) /\ Pair(c, b) /\ Pair(b, c)
        <5>1. b \in Range(node'[p].peers)
          BY <1>1, <2>4, KnownNext
        <5> QED BY <1>4, <2>4, <5>1 DEF Listed, Pair
      <4>2. Caller(b) = q /\ Callee(b) = p
        <5>1. Caller(b) # p
          BY <1>1, <1>4, <3>3, <4>1 DEF Linked
        <5> QED BY <1>1, <1>3, <1>4, <4>1, <5>1, PairShape
      <4>3. CASE b \notin Listed(q)
        <5>1. Closed(b, q)
          BY <1>1, <4>1, <4>2, <4>3, ListedClosing
        <5>2. CASE Closed(b, p)
          <6>1. b \in node[p].closing /\ b \in node[p].known
            BY <1>1, <2>4, <4>1, <5>2, ListedClosing
          <6>2. Random[b] < Random[c]
            BY <1>4, <4>1, <4>2, <6>1 DEF OwnIsGreater
          <6> QED BY <1>1, <3>1, <6>2
        <5>3. CASE ~ Closed(b, p)
          BY <1>1, <1>4, <1>5, <4>1, <4>2, <5>1, <5>3, OwnIsLargest
        <5> QED BY <5>2, <5>3
      <4>4. CASE b \in Listed(q)
        <5>1. d \notin Listed(q)
          BY <1>1, <1>4, <2>4, <4>2, <4>4 DEF Linked
        <5>2. Closed(d, q)
          BY <1>1, <1>2, <1>4, <5>1, ListedClosing
        <5> QED BY <1>6, <2>1, <5>2
      <4> QED BY <4>3, <4>4
    <3> QED BY <3>2, <3>3
  <2> QED BY <2>2, <2>3, <2>4
<1> QED BY <1>7, <1>8

\* The end that compares two connections keeps comparing just these.
LEMMA FreshStays ==
  ASSUME LinksInv, LinksInv', Move, failed' = {}, ClosedByOther,
         NEW c \in Conn, NEW d \in Conn, NEW p \in Node, NEW q \in Node, p # q, Pair(c, d),
         p \in {Caller(c), Caller(d)}, q \in {Caller(c), Caller(d)},
         c \in Listed(Caller(c)), d \in Listed(Caller(d)), Fresh(p, c, d)
  PROVE  Fresh(p, c, d)'
<1>1. Typed /\ Typed' /\ Linked /\ Linked' /\ Beaten /\ failed = {} /\ Called(c) /\ Called(d) /\ c # d
  BY EndsStay DEF LinksInv, Pair
<1>2. \A e \in Conn : Pair(e, c) /\ (Caller(e) = p \/ Caller(e) = q) /\ e \in Listed(Caller(e)) => e \in {c, d}
  BY <1>1 DEF Linked, Pair
<1>3. ASSUME NEW e \in Conn, Identifying(p, e), Pair(e, c)
      PROVE  e \in {c, d}
  <2> SUFFICES ASSUME e \notin {c, d}
               PROVE  FALSE
    OBVIOUS
  <2>1. e \in Listed(p) /\ e \notin node[p].closing /\ Called(e) /\ ~ Closed(e, p)
    BY <1>1, <1>3 DEF Identifying, Pair, Closed, Linked
  <2>2. \/ Caller(c) = p /\ Callee(c) = q /\ Caller(d) = q /\ Callee(d) = p
        \/ Caller(c) = q /\ Callee(c) = p /\ Caller(d) = p /\ Callee(d) = q
    BY <1>1, PairShape DEF Linked
  <2>3. Caller(e) = q /\ Callee(e) = p
    <3>1. Caller(e) # p
      BY <1>2, <1>3, <2>1
    <3> QED BY <1>1, <1>3, <2>1, <2>2, <3>1, PairShape
  <2>4. Closed(e, q)
    BY <1>1, <1>2, <1>3, <2>1, <2>3, ListedClosing
  <2>5. PICK x \in {c, d}, y \in {c, d} : Caller(x) = p /\ Callee(x) = q /\ Caller(y) = q
    BY <2>2
  <2>6. Pair(x, e) /\ Pair(y, e) /\ x \in Listed(p) /\ y \in Listed(q)
    BY <1>3, <2>5 DEF Pair
  <2>7. \A z \in Listed(q) : Pair(z, e) /\ Caller(z) = q => z = e
    BY <1>1, <2>1, <2>3, <2>4, <2>5, <2>6, OwnIsLargest
  <2> QED BY <2>5, <2>6, <2>7
<1>4. ASSUME NEW e \in node'[p].known, Pair(e, c)'
      PROVE  e \in {c, d}
  <2>1. e \in Conn
    BY <1>1 DEF Typed, TypeOK, NodeState
  <2>2. e \in node[p].known \/ Identifying(p, e)
    BY <1>1, <2>1, Changes
  <2>3. Called(e)
    BY <1>1, <2>2, ListedFacts DEF Identifying
  <2>4. Pair(e, c)
    BY <1>1, <1>4, <2>1, <2>3, EndsStay
  <2> QED BY <1>3, <2>1, <2>2, <2>4 DEF Fresh
<1>5. ~ ({c, d} \subseteq node'[p].known \ node'[p].closing)
  <2> SUFFICES ASSUME {c, d} \subseteq node'[p].known \ node'[p].closing
               PROVE  FALSE
    OBVIOUS
  <2>1. \A e \in {c, d} : e \notin node[p].closing /\ (e \in node[p].known \/ Identifying(p, e))
    BY <1>1, Changes
  <2>2. PICK e \in {c, d} : e \notin node[p].known /\ Identifying(p, e)
    BY <2>1 DEF Fresh
  <2>3. PICK x \in {c, d} : x # e /\ {c, d} = {x, e} /\ Pair(x, e)
    BY <1>1, <2>2 DEF Pair
  <2>4. x \in node[p].known
    BY <2>2, <2>3 DEF Identifying
  <2>5. \A y \in node[p].known : y \in Conn /\ Called(y) /\ (p = Caller(y) \/ p = Callee(y))
    BY <1>1, ListedFacts
  <2>6. Called(e) /\ (p = Caller(e) \/ p = Callee(e))
    BY <1>1, <2>2, ListedFacts DEF Identifying
  <2>7. \A y \in node[p].known : Other(y, p) = Other(e, p) <=> Pair(y, e)
    BY <1>1, <2>2, <2>5, <2>6, PairShape
  <2>8. PICK y \in node[p].known :
          /\ y # e /\ Other(y, p) = Other(e, p)
          /\ node'[p].closing = node[p].closing \cup {choose_duplicate_connection(y, e)}
    BY <2>2, <2>3, <2>4, <2>7 DEF Identifying
  <2>9. Pair(y, c)
    BY <2>2, <2>3, <2>7, <2>8 DEF Pair
  <2>10. y \in {c, d}
    BY <2>8, <2>9 DEF Fresh
  <2>11. choose_duplicate_connection(y, e) \in {c, d}
    BY <2>2, <2>10 DEF choose_duplicate_connection
  <2> QED BY <2>8, <2>11
<1> QED BY <1>4, <1>5 DEF Fresh

\* A node that calls has not identified a connection of the two nodes.
LEMMA CallerIsFresh ==
  ASSUME Typed, Move, NEW c \in Conn, NEW d \in Conn, ~ Called(c), Pair(c, d)'
  PROVE  Fresh(Caller(c), c, d)' /\ Fresh(Caller(c), d, c)'
<1>1. PICK m \in Node, n \in Node : Calling(m, n, c)
  BY NewlyCalled DEF Pair
<1>2. /\ Caller(c)' = m /\ Range(ends'[c]) = {m, n} /\ c \notin node[m].known
      /\ \A e \in Conn \ {c} : ends'[e] = ends[e]
  BY <1>1, CallingEnds
<1>3. node'[m].known = node[m].known /\ \A e \in Listed(m) \cap Between(m, n) : e \notin node[m].known
  BY <1>1 DEF Calling
<1>4. ASSUME NEW e \in node[m].known, Range(ends'[e]) = {m, n}
      PROVE  FALSE
  <2>1. e \in Listed(m) /\ e \in Conn /\ Called(e)
    BY ListedFacts
  <2>2. e # c /\ Range(ends[e]) = {m, n}
    BY <1>2, <1>4, <2>1
  <2>3. ends[e] = <<Caller(e), Callee(e)>> /\ Range(ends[e]) = {Caller(e), Callee(e)}
    BY <2>1, EndsShape
  <2>4. e \in Between(m, n)
    BY <2>1, <2>2, <2>3 DEF Between
  <2> QED BY <1>3, <2>1, <2>4
<1>5. \A e \in node'[m].known : ~ Pair(e, c)' /\ ~ Pair(e, d)'
  BY <1>2, <1>3, <1>4 DEF Pair
<1>6. c \notin node'[m].known
  BY <1>2, <1>3
<1> QED BY <1>2, <1>5, <1>6 DEF Fresh

\* Each move keeps that one end compares the two connections.
LEMMA OneComparesNext ==
  ASSUME LinksInv, LinksInv', Move, failed' = {}, ClosedByOther, OneCompares
  PROVE  OneCompares'
<1>1. Typed /\ Typed' /\ Linked /\ Linked'
  BY DEF LinksInv
<1> SUFFICES ASSUME NEW c \in Conn, NEW d \in Conn, Pair(c, d)', Caller(c)' # Caller(d)',
                    c \in Listed(Caller(c))', d \in Listed(Caller(d))'
             PROVE  Fresh(Caller(c), c, d)' \/ Fresh(Caller(d), c, d)'
  BY DEF OneCompares
<1>2. CASE ~ Called(c)
  BY <1>1, <1>2, CallerIsFresh
<1>3. CASE ~ Called(d)
  <2>1. Pair(d, c)'
    BY DEF Pair
  <2> QED BY <1>1, <1>3, <2>1, CallerIsFresh
<1>4. CASE Called(c) /\ Called(d)
  <2>1. Pair(c, d) /\ Caller(c)' = Caller(c) /\ Caller(d)' = Caller(d)
    BY <1>1, <1>4, EndsStay
  <2>2. c \in Listed(Caller(c)) /\ d \in Listed(Caller(d))
    BY <1>1, <1>4, NewlyListed
  <2>3. Caller(c) \in Node /\ Caller(d) \in Node
    BY <1>1, <1>4, EndsShape
  <2>4. PICK p \in {Caller(c), Caller(d)} : Fresh(p, c, d)
    BY <2>1, <2>2 DEF OneCompares
  <2>5. PICK q \in {Caller(c), Caller(d)} : q # p
    BY <2>1
  <2>6. Fresh(p, c, d)'
    BY <2>1, <2>2, <2>3, <2>4, <2>5, FreshStays
  <2> QED BY <2>1, <2>4, <2>6 DEF Fresh
<1> QED BY <1>2, <1>3, <1>4

\* Two open connections that both ends have identified would have been compared.
LEMMA OneIsLeft ==
  ASSUME LinksInv, OneCompares
  PROVE  NoDuplicateLeft
<1>1. Typed /\ Linked
  BY DEF LinksInv
<1> SUFFICES ASSUME NEW m \in Node, NEW n \in Node, NEW c \in Between(m, n), NEW d \in Between(m, n),
                    Settled(c), Settled(d)
             PROVE  c = d
  BY DEF NoDuplicateLeft
<1>2. <<m, n>> # NotCalled /\ <<n, m>> # NotCalled /\ Range(<<m, n>>) = {m, n} /\ Range(<<n, m>>) = {m, n}
  BY DEF NotCalled, Range
<1>3. c \in Conn /\ d \in Conn /\ Pair(c, d) /\ Called(c) /\ Called(d)
  BY <1>2 DEF Between, Pair, Called
<1>4. \A e \in {c, d} : /\ Caller(e) \in Node /\ Range(ends[e]) = Range(ends[c])
                        /\ Caller(e) \in Range(ends[e]) /\ e \in Listed(Caller(e))
  <2>1. \A e \in {c, d}, k \in Node : ~ Closed(e, k)
    BY DEF Settled, Open, Closed
  <2> QED BY <1>1, <1>3, <2>1, EndsShape, OpenIsListed DEF Pair
<1>5. \A e \in {c, d} : {c, d} \subseteq node[Caller(e)].known \ node[Caller(e)].closing
  BY <1>4 DEF Settled, Open
<1>6. Caller(c) = Caller(d)
  BY <1>3, <1>4, <1>5 DEF OneCompares, Fresh
<1> QED BY <1>1, <1>3, <1>4, <1>6 DEF Linked

\* Two nodes that call each other do not keep two connections as long as none fails, whatever the networks,
\* the calls and the order of the messages: choose_duplicate_connection compares just these two at one end.
THEOREM OneConnectionIsLeft ==
  ASSUME DifferentNumbers
  PROVE  Spec => [](failed = {} => NoDuplicateLeft)
<1>1. Init => LinksInv /\ Settling
  <2> SUFFICES ASSUME Init
               PROVE  LinksInv /\ Settling
    OBVIOUS
  <2>1. LinksInv
    BY InitLinks DEF LinksInv
  <2>2. \A c \in Conn : ~ Called(c)
    BY DEF Init, Called
  <2>3. ClosedByOther /\ OwnIsGreater /\ OneCompares
    BY <2>2 DEF ClosedByOther, OwnIsGreater, OneCompares, Pair
  <2> QED BY <2>1, <2>3 DEF Settling
<1>2. LinksInv /\ Settling /\ [Next]_vars => LinksInv' /\ Settling'
  <2> SUFFICES ASSUME LinksInv, Settling, [Next]_vars
               PROVE  LinksInv' /\ Settling'
    OBVIOUS
  <2>1. Typed /\ Typed' /\ Move
    BY StepMoves DEF LinksInv
  <2>2. LinksInv'
    BY <2>1, LinkedNext, CountedNext, BeatenNext DEF LinksInv
  <2>3. ASSUME failed' = {}
        PROVE  ClosedByOther' /\ OwnIsGreater' /\ OneCompares'
    <3>1. failed = {}
      BY <2>1, <2>3, EndsStay
    <3>2. ClosedByOther /\ OwnIsGreater /\ OneCompares
      BY <3>1 DEF Settling
    <3> QED BY <2>1, <2>2, <2>3, <3>2, ClosedByOtherNext, OwnIsGreaterNext, OneComparesNext
  <2> QED BY <2>2, <2>3 DEF Settling
<1>3. LinksInv /\ Settling => (failed = {} => NoDuplicateLeft)
  BY OneIsLeft DEF Settling
<1> QED BY <1>1, <1>2, <1>3, PTL DEF Spec

-----------------------------------------------------------------------------
(* The authorizations *)

\* A step that leaves the connections undisturbed found them so.
LEMMA UndisturbedBefore ==
  ASSUME Typed, Move, Undisturbed'
  PROVE  Undisturbed
<1> SUFFICES ASSUME NEW c \in Conn, NEW d \in Conn
             PROVE  Open(c) /\ (Called(c) /\ c # d => Range(ends[c]) # Range(ends[d]))
  BY DEF Undisturbed, Called
<1>1. Open(c)' /\ (Called(c)' /\ c # d => Range(ends'[c]) # Range(ends'[d]))
  BY DEF Undisturbed, Called
<1>2. gone[c] \subseteq Node
  BY DEF Typed, TypeOK
<1>3. Open(c)
  <2>1. \A n \in Node : ~ Closed(c, n)'
    BY <1>1 DEF Open, Closed
  <2>2. \A n \in Node : ~ Closed(c, n)
    BY <2>1, Changes
  <2> QED BY <1>2, <2>2 DEF Open, Closed
<1>4. ASSUME Called(c), c # d, Range(ends[c]) = Range(ends[d])
      PROVE  FALSE
  <2>1. Called(c)' /\ ends'[c] = ends[c]
    BY <1>4, EndsStay
  <2>2. Called(d)
    <3>1. Caller(c) \in Range(ends[d]) /\ Range(NotCalled) = {}
      BY <1>4, EndsShape DEF Range, NotCalled
    <3> QED BY <3>1 DEF Called
  <2>3. ends'[d] = ends[d]
    BY <2>2, EndsStay
  <2> QED BY <1>1, <1>4, <2>1, <2>3
<1> QED BY <1>3, <1>4

\* Nothing is being closed then, and two nodes have one connection.
LEMMA UndisturbedFacts ==
  ASSUME Typed, Undisturbed
  PROVE  /\ \A n \in Node : node[n].closing = {}
         /\ \A c, d \in Conn : Pair(c, d) => c = d
<1>1. ASSUME NEW n \in Node
      PROVE  node[n].closing = {}
  <2>1. node[n].closing \subseteq Conn
    BY DEF Typed, TypeOK, NodeState
  <2> QED BY <2>1 DEF Undisturbed, Open
<1> QED BY <1>1 DEF Undisturbed, Pair, Called

\* The peer of the administrator on a connection.
LEMMA AdminsPeer ==
  ASSUME Typed, Linked, NEW c \in node[Admin].known
  PROVE  /\ c \in Conn /\ Called(c) /\ Other(c, Admin) \in Node /\ Other(c, Admin) # Admin
         /\ Range(ends[c]) = {Admin, Other(c, Admin)}
<1>1. Admin \in Node
  BY ConnectionsAssumption
<1>2. c \in Conn /\ Called(c) /\ (Admin = Caller(c) \/ Admin = Callee(c))
  BY <1>1, ListedFacts
<1>3. Caller(c) # Callee(c)
  BY <1>2 DEF Linked
<1> QED BY <1>2, <1>3, EndsShape

\* What a handler of n does to the authorizations, when it loses none and sends those it has.
LEMMA HandlerInforms ==
  ASSUME Typed, Linked, Granted, NEW n \in Node, NEW s, Orderly(n, s), Become(n, s),
         NEW received, \A c \in received : chan[c][n] # <<>> /\ Range(Head(chan[c][n]).list) \subseteq Range(s.auth),
         Deliver(n, s, received), UNCHANGED ends,
         Range(node[n].auth) \subseteq Range(s.auth),
         n # Admin => Range(s.auth) \subseteq Range(node[Admin].auth),
         \A c \in Conn : Lists(s.out[c]) \subseteq Range(s.auth)
  PROVE  /\ Granted'
         /\ PeersInformed /\ (n = Admin => Covered(Admin, s, [c \in Conn |-> OnTheWay(c)])) => PeersInformed'
<1>1. /\ Admin \in Node /\ node \in [Node -> NodeState] /\ s \in Handling
      /\ chan \in [Conn -> [Node -> Seq(Message)]]
  BY ConnectionsAssumption DEF Typed, TypeOK, Orderly
<1>2. /\ \A m \in Node \ {n} : node'[m] = node[m]
      /\ node'[n].auth = s.auth /\ node'[n].known = s.known /\ node'[n].authorized = s.authorized
  BY <1>1, Became
<1>3. \A c \in Conn, m \in Node : Sent(n, s, received, c, m)
  BY <1>1, Delivered
<1>4. Range(s.auth) \subseteq Range(node'[Admin].auth) /\ Range(node[Admin].auth) \subseteq Range(node'[Admin].auth)
  BY <1>1, <1>2
<1>5. Granted'
  <2>1. ASSUME NEW m \in Node
        PROVE  Range(node'[m].auth) \subseteq Range(node'[Admin].auth)
    <3>1. m # n => node'[m].auth = node[m].auth
      BY <1>2
    <3> QED BY <1>2, <1>4, <3>1 DEF Granted
  <2>2. ASSUME NEW c \in Conn, NEW m \in Node
        PROVE  Lists(chan'[c][m]) \subseteq Range(node'[Admin].auth)
    <3>1. Lists(chan[c][m]) \subseteq Range(node[Admin].auth) /\ Lists(s.out[c]) \subseteq Range(s.auth)
      BY DEF Granted
    <3>2. Lists(chan'[c][m]) \subseteq Lists(chan[c][m]) \cup Lists(s.out[c])
      <4>1. Sent(n, s, received, c, m)
        BY <1>3
      <4> QED BY <4>1, Zenon DEF Sent
    <3> QED BY <1>4, <3>1, <3>2, Zenon
  <2> QED BY <2>1, <2>2 DEF Granted
<1>6. ASSUME PeersInformed, n = Admin => Covered(Admin, s, [c \in Conn |-> OnTheWay(c)])
      PROVE  PeersInformed'
  <2>0. \A c : Other(c, Admin)' = Other(c, Admin)
    BY DEF Other
  <2>1. CASE n # Admin
    <3>1. node'[Admin] = node[Admin]
      BY <1>1, <1>2, <2>1
    <3> SUFFICES ASSUME NEW c \in node[Admin].known, Other(c, Admin) \in Range(node[Admin].auth)
                 PROVE  c \in node[Admin].authorized /\ Range(node[Admin].auth) \subseteq OnTheWay(c)'
      BY <2>0, <3>1 DEF PeersInformed
    <3> DEFINE x == Other(c, Admin)
    <3>2. c \in node[Admin].authorized /\ Range(node[Admin].auth) \subseteq Range(node[x].auth) \cup Lists(chan[c][x])
      BY <1>6 DEF PeersInformed, OnTheWay
    <3>3. c \in Conn /\ Called(c) /\ x \in Node
      BY AdminsPeer
    <3>4. Range(node[x].auth) \cup Lists(chan[c][x]) \subseteq Range(node'[x].auth) \cup Lists(chan'[c][x])
      <4> HIDE DEF x
      <4>1. CASE x = n /\ c \in received
        <5>1. Lists(chan[c][x]) = Range(Head(chan[c][n]).list) \cup Lists(chan'[c][x])
          BY <1>3, <3>3, <4>1 DEF Sent, Called
        <5>2. Range(Head(chan[c][n]).list) \subseteq Range(node'[x].auth)
          BY <1>2, <4>1
        <5>3. Range(node[x].auth) \subseteq Range(node'[x].auth)
          BY <1>2, <4>1
        <5> QED BY <5>1, <5>2, <5>3
      <4>2. CASE ~ (x = n /\ c \in received)
        <5>1. Lists(chan[c][x]) \subseteq Lists(chan'[c][x])
          BY <1>3, <3>3, <4>2 DEF Sent, Called
        <5>2. Range(node[x].auth) \subseteq Range(node'[x].auth)
          BY <1>2, <3>3
        <5> QED BY <5>1, <5>2
      <4> QED BY <4>1, <4>2
    <3>5. OnTheWay(c)' = Range(node'[x].auth) \cup Lists(chan'[c][x])
      BY <2>0 DEF OnTheWay
    <3> QED BY <3>2, <3>4, <3>5
  <2>2. CASE n = Admin
    <3> SUFFICES ASSUME NEW c \in s.known, Other(c, Admin) \in Range(s.auth)
                 PROVE  c \in s.authorized /\ Range(s.auth) \subseteq OnTheWay(c)'
      BY <1>2, <2>0, <2>2 DEF PeersInformed
    <3> DEFINE x == Other(c, Admin)
    <3>1. c \in Conn /\ Called(c) /\ x \in Node /\ x # Admin /\ {n, x} \subseteq Range(ends[c])
      <4>1. c \in Conn /\ Called(c) /\ Admin \in Range(ends[c])
        BY <2>2 DEF Orderly, Handling, Called
      <4>2. Caller(c) # Callee(c)
        BY <4>1 DEF Linked
      <4>3. /\ Caller(c) \in Node /\ Callee(c) \in Node
            /\ Range(ends[c]) = {Caller(c), Callee(c)}
            /\ x = IF Caller(c) = Admin THEN Callee(c) ELSE Caller(c)
        BY <4>1, EndsShape
      <4> HIDE DEF x
      <4> QED BY <2>2, <4>1, <4>2, <4>3
    <3>2. c \in s.authorized /\ Range(s.auth) \subseteq OnTheWay(c) \cup Lists(s.out[c])
      BY <1>6, <2>2, <3>1 DEF Covered
    <3>3. Lists(chan'[c][x]) = Lists(chan[c][x]) \cup Lists(s.out[c])
      BY <1>3, <2>2, <3>1 DEF Sent, Called
    <3>4. node'[x].auth = node[x].auth
      BY <1>2, <2>2, <3>1
    <3>5. OnTheWay(c)' = Range(node'[x].auth) \cup Lists(chan'[c][x])
      BY <2>0 DEF OnTheWay
    <3> QED BY <3>2, <3>3, <3>4, <3>5 DEF OnTheWay
  <2> QED BY <2>1, <2>2
<1> QED BY <1>5, <1>6

\* A step that only closes or loses something disturbs the connections, and adds no authorization.
LEMMA ClosingInforms ==
  ASSUME Typed, Typed', Granted, Move, NEW n \in Node, NEW c \in Conn, Dropping(n, c) \/ Leaving(n, c),
         \A m \in Node : node'[m].auth = node[m].auth,
         \A d \in Conn, m \in Node : Lists(chan'[d][m]) \subseteq Lists(chan[d][m])
  PROVE  Granted' /\ Informed'
<1>1. Admin \in Node /\ gone \in [Conn -> SUBSET Node]
  BY ConnectionsAssumption DEF Typed, TypeOK
<1>2. Granted'
  BY <1>1 DEF Granted
<1>3. c \in node'[n].closing \/ n \in gone'[c]
  BY <1>1 DEF Dropping, Leaving
<1>4. ~ Undisturbed'
  BY <1>3 DEF Undisturbed, Open
<1> QED BY <1>2, <1>4 DEF Informed

\* A step that changes none of the authorizations.
LEMMA NothingToInform ==
  ASSUME Typed, Linked, Granted, PeersInformed,
         \A m \in Node : node'[m].auth = node[m].auth,
         node'[Admin].known = node[Admin].known, node'[Admin].authorized = node[Admin].authorized,
         \A c \in Conn : Called(c) => ends'[c] = ends[c],
         \A c \in Conn, m \in Node : Called(c) => chan'[c][m] = chan[c][m]
  PROVE  PeersInformed'
<1>1. Admin \in Node
  BY ConnectionsAssumption
<1>2. ASSUME NEW c \in node[Admin].known
      PROVE  Other(c, Admin)' = Other(c, Admin) /\ OnTheWay(c)' = OnTheWay(c)
  <2>1. c \in Conn /\ Called(c) /\ Other(c, Admin) \in Node
    BY AdminsPeer
  <2>2. Other(c, Admin)' = Other(c, Admin)
    BY <2>1 DEF Other
  <2> QED BY <2>1, <2>2 DEF OnTheWay
<1> QED BY <1>1, <1>2 DEF PeersInformed

\* The state of a node between the handlers holds no messages to send.
LEMMA NothingHeld ==
  ASSUME Typed, NEW n \in Node
  PROVE  /\ \A c \in Conn : node[n].out[c] = <<>> /\ Lists(node[n].out[c]) = {}
         /\ n = Admin => (PeersInformed <=> Covered(Admin, node[Admin], [c \in Conn |-> OnTheWay(c)]))
<1>1. node[n] \in NodeState
  BY DEF Typed, TypeOK
<1>2. \A c \in Conn : node[n].out[c] = <<>> /\ Lists(node[n].out[c]) = {}
  <2>1. Lists(<<>>) = {}
    BY DEF Lists
  <2> QED BY <1>1, <2>1 DEF NodeState
<1>3. node[n].known \subseteq Conn
  BY <1>1 DEF NodeState
<1> QED BY <1>2, <1>3 DEF PeersInformed, Covered

\* The administrator stores the authorizations of its queue.
LEMMA SpecialsInform ==
  ASSUME Typed, Linked, Granted, process_new_special_transaction
  PROVE  Granted' /\ (Undisturbed /\ PeersInformed => PeersInformed')
<1> DEFINE s == Processed(Admin, node[Admin])
<1>1. Admin \in Node /\ Orderly(Admin, node[Admin])
  BY ConnectionsAssumption DEF Typed
<1>2. /\ Orderly(Admin, s) /\ Range(node[Admin].auth) \subseteq Range(s.auth)
      /\ \A c \in Conn : Lists(s.out[c]) \subseteq Lists(node[Admin].out[c]) \cup Range(s.auth)
      /\ \A way : node[Admin].closing = {} /\ Covered(Admin, node[Admin], way) => Covered(Admin, s, way)
  BY <1>1, SpecialsProcessed
<1>3. Become(Admin, s) /\ Deliver(Admin, s, {}) /\ UNCHANGED ends
  BY DEF process_new_special_transaction
<1> HIDE DEF s
<1>4. \A c \in Conn : Lists(s.out[c]) \subseteq Range(s.auth)
  BY <1>1, <1>2, NothingHeld
<1>5. Undisturbed /\ PeersInformed => Covered(Admin, s, [c \in Conn |-> OnTheWay(c)])
  BY <1>1, <1>2, NothingHeld, UndisturbedFacts
<1>6. Granted' /\ (PeersInformed /\ Covered(Admin, s, [c \in Conn |-> OnTheWay(c)]) => PeersInformed')
  BY <1>1, <1>2, <1>3, <1>4, HandlerInforms
<1> QED BY <1>5, <1>6

\* A call reaches a node.
LEMMA IncomingInforms ==
  ASSUME Typed, Linked, Granted, NEW n \in Node, NEW c \in Conn,
         worker_thread_on_incoming_tcp_connection(n, c)
  PROVE  Granted' /\ (Undisturbed /\ PeersInformed => PeersInformed')
<1> DEFINE s == Connected(node[n], c)
<1>1. Admin \in Node /\ Orderly(n, node[n]) /\ node[n] \in Handling
  BY ConnectionsAssumption DEF Typed, Orderly
<1>2. /\ ends[c] # NotCalled /\ ends[c][2] = n /\ c \notin Range(node[n].peers)
      /\ Become(n, s) /\ Deliver(n, s, {}) /\ UNCHANGED ends
  BY DEF worker_thread_on_incoming_tcp_connection
<1>3. c \notin node[n].closing /\ n \in Range(ends[c])
  <2>1. c \notin node[n].closing
    BY <1>1, <1>2 DEF Orderly
  <2> QED BY <1>2, <2>1, EndsShape DEF Called, Callee
<1>4. /\ s \in Handling /\ s.auth = node[n].auth
      /\ s.peers = Append(node[n].peers, c) /\ s.connected = node[n].connected \cup {c}
      /\ s.known = node[n].known /\ s.authorized = node[n].authorized /\ s.accepted = node[n].accepted
      /\ s.closing = node[n].closing
      /\ \A d \in Conn : Lists(s.out[d]) = Lists(node[n].out[d])
  BY <1>1, <1>3, ConnectedState
<1>5. Range(s.peers) = Listed(n) \cup {c} /\ IsInjective(s.peers)
  <2>1. node[n].peers \in Seq(Conn) /\ IsInjective(node[n].peers)
    BY <1>1 DEF Orderly, Handling
  <2> QED BY <1>2, <1>4, <2>1, AppendRange DEF Listed
<1> HIDE DEF s
<1>6. Orderly(n, s)
  BY <1>1, <1>2, <1>3, <1>4, <1>5 DEF Orderly, Listed
<1>7. \A d \in Conn : Lists(s.out[d]) \subseteq Range(s.auth)
  BY <1>4, NothingHeld
<1>8. ASSUME PeersInformed, n = Admin
      PROVE  Covered(Admin, s, [d \in Conn |-> OnTheWay(d)])
  <2>1. Covered(Admin, node[Admin], [d \in Conn |-> OnTheWay(d)]) /\ node[Admin].known \subseteq Conn
    BY <1>1, <1>8, NothingHeld DEF Handling
  <2> QED BY <1>4, <1>8, <2>1 DEF Covered
<1>9. Range(s.auth) \subseteq Range(node[Admin].auth)
  BY <1>4 DEF Granted
<1>10. /\ Granted'
       /\ PeersInformed /\ (n = Admin => Covered(Admin, s, [d \in Conn |-> OnTheWay(d)])) => PeersInformed'
  BY <1>2, <1>4, <1>6, <1>7, <1>9, HandlerInforms
<1> QED BY <1>8, <1>10

\* A message of a peer arrives.
LEMMA MessageInforms ==
  ASSUME Typed, Linked, Granted, NEW n \in Node, NEW c \in Conn, worker_thread_on_peer_message(n, c)
  PROVE  Granted' /\ (Undisturbed /\ PeersInformed => PeersInformed')
<1> DEFINE msg == Head(chan[c][n])
           way == [d \in Conn |-> OnTheWay(d)]
<1>1. /\ Admin \in Node /\ Orderly(n, node[n]) /\ node[n] \in Handling
      /\ c \in node[n].connected \ node[n].closing /\ chan[c][n] # <<>>
      /\ chan[c][n] \in Seq(Message) /\ UNCHANGED ends
  BY ConnectionsAssumption DEF Typed, Orderly, worker_thread_on_peer_message
<1>2. msg \in Message /\ Range(msg.list) \subseteq Lists(chan[c][n])
  BY <1>1, ListsTail
<1>3. \A d \in Conn : Lists(node[n].out[d]) = {}
  BY NothingHeld
<1>4. ASSUME PeersInformed, n = Admin
      PROVE  Covered(Admin, node[Admin], way) /\ node[Admin].known \subseteq Conn
  BY <1>1, <1>4, NothingHeld DEF Handling
<1> HIDE DEF msg, way
<1>5. ASSUME NEW s, Orderly(n, s), Become(n, s), Deliver(n, s, {c}),
             Range(node[n].auth) \subseteq Range(s.auth), Range(msg.list) \subseteq Range(s.auth),
             n # Admin => Range(s.auth) \subseteq Range(node[Admin].auth),
             \A d \in Conn : Lists(s.out[d]) \subseteq Lists(node[n].out[d]) \cup Range(s.auth),
             Undisturbed /\ PeersInformed /\ n = Admin => Covered(Admin, s, way)
      PROVE  Granted' /\ (Undisturbed /\ PeersInformed => PeersInformed')
  <2>1. \A d \in {c} : chan[d][n] # <<>> /\ Range(Head(chan[d][n]).list) \subseteq Range(s.auth)
    BY <1>1, <1>5 DEF msg
  <2>2. \A d \in Conn : Lists(s.out[d]) \subseteq Range(s.auth)
    BY <1>3, <1>5
  <2>3. /\ Granted'
        /\ PeersInformed /\ (n = Admin => Covered(Admin, s, way)) => PeersInformed'
    BY <1>1, <1>5, <2>1, <2>2, HandlerInforms DEF way
  <2> QED BY <1>5, <2>3
<1>6. CASE msg.cmd = "id"
  <2> DEFINE s == on_node_identification(n, node[n], c)
  <2>1. Become(n, s) /\ Deliver(n, s, {c})
    BY <1>6 DEF worker_thread_on_peer_message, msg
  <2>2. /\ Orderly(n, s) /\ s.auth = node[n].auth
        /\ \A d \in Conn : Lists(s.out[d]) \subseteq Lists(node[n].out[d]) \cup Range(node[n].auth)
        /\ \/ Covered(n, node[n], way) => Covered(n, s, way)
           \/ \E d \in node[n].known : d # c /\ Other(d, n) = Other(c, n)
    <3>1. c \in node[n].connected \ node[n].closing
      BY <1>1
    <3>2. Orderly(n, s) /\ s.auth = node[n].auth
      BY <1>1, <3>1, Identification
    <3>3. \A d \in Conn : Lists(s.out[d]) \subseteq Lists(node[n].out[d]) \cup Range(node[n].auth)
      BY <1>1, <3>1, Identification
    <3>4. \/ Covered(n, node[n], way) => Covered(n, s, way)
          \/ \E d \in node[n].known : d # c /\ Other(d, n) = Other(c, n)
      BY <1>1, <3>1, Identification
    <3> HIDE DEF s
    <3> QED BY <3>2, <3>3, <3>4
  <2> HIDE DEF s
  <2>3. Range(msg.list) = {}
    BY <1>2, <1>6 DEF Message, Range
  <2>4. Range(node[n].auth) \subseteq Range(node[Admin].auth)
    BY DEF Granted
  <2>5. ASSUME Undisturbed, NEW d \in node[n].known, d # c, Other(d, n) = Other(c, n)
        PROVE  FALSE
    <3>1. c \in Listed(n) /\ d \in Listed(n)
      BY <1>1, ListedFacts DEF Orderly, Listed
    <3>2. Pair(d, c)
      BY <2>5, <3>1, ListedFacts, PairShape
    <3> QED BY <2>5, <3>1, <3>2, ListedFacts, UndisturbedFacts
  <2>6. Undisturbed /\ PeersInformed /\ n = Admin => Covered(Admin, s, way)
    BY <1>4, <2>2, <2>5
  <2> QED BY <1>5, <2>1, <2>2, <2>3, <2>4, <2>6
<1>7. CASE msg.cmd # "id"
  <2> DEFINE s == on_authorization_received(n, node[n], msg.list)
  <2>1. msg.cmd = "authorization" /\ msg.list \in Seq(Node)
    BY <1>2, <1>7 DEF Message
  <2>2. Become(n, s) /\ Deliver(n, s, {c})
    BY <2>1 DEF worker_thread_on_peer_message, msg
  <2>3. /\ Orderly(n, s) /\ Range(s.auth) = Range(node[n].auth) \cup Range(msg.list)
        /\ \A d \in Conn : Lists(s.out[d]) \subseteq Lists(node[n].out[d]) \cup Range(s.auth)
        /\ Range(msg.list) \subseteq Range(node[n].auth) => \E ok \in BOOLEAN : s = [node[n] EXCEPT !.rc = ok]
    BY <1>1, <2>1, AuthorizationsReceived
  <2> HIDE DEF s
  <2>4. Range(node[n].auth) \subseteq Range(node[Admin].auth) /\ Range(msg.list) \subseteq Range(node[Admin].auth)
    BY <1>2 DEF Granted
  <2>5. ASSUME Undisturbed, PeersInformed, n = Admin
        PROVE  Covered(Admin, s, way)
    <3>1. PICK ok \in BOOLEAN : s = [node[Admin] EXCEPT !.rc = ok]
      BY <2>3, <2>4, <2>5
    <3>2. /\ s.auth = node[Admin].auth /\ s.known = node[Admin].known
          /\ s.authorized = node[Admin].authorized /\ s.out = node[Admin].out
      BY <1>1, <2>5, <3>1 DEF Handling
    <3> QED BY <1>4, <2>5, <3>2 DEF Covered
  <2> QED BY <1>5, <2>2, <2>3, <2>4, <2>5
<1> QED BY <1>6, <1>7

\* A node calls another one.
LEMMA CallInforms ==
  ASSUME Typed, Linked, Granted, NEW m \in Node, NEW n \in Node, check_peer_connection(m, n)
  PROVE  Granted' /\ (PeersInformed => PeersInformed')
<1>1. PICK c \in Conn :
        /\ ends[c] = NotCalled /\ ends' = [ends EXCEPT ![c] = <<m, n>>]
        /\ Become(m, Connected(node[m], c)) /\ chan' = [chan EXCEPT ![c][n] = <<Id>>]
  BY DEF check_peer_connection
<1> DEFINE s == Connected(node[m], c)
<1>2. /\ Admin \in Node /\ node[m] \in Handling /\ node \in [Node -> NodeState]
      /\ ends \in [Conn -> {NotCalled} \cup Node \X Node] /\ chan \in [Conn -> [Node -> Seq(Message)]]
  BY ConnectionsAssumption DEF Typed, TypeOK, Orderly
<1>3. c \notin node[m].closing
  BY <1>1, ListedFacts DEF Called
<1>4. s \in Handling /\ s.auth = node[m].auth /\ s.known = node[m].known /\ s.authorized = node[m].authorized
  BY <1>2, <1>3, ConnectedState
<1>5. Become(m, s)
  BY <1>1
<1> HIDE DEF s
<1>6. /\ \A k \in Node : node'[k].auth = node[k].auth
      /\ node'[Admin].known = node[Admin].known /\ node'[Admin].authorized = node[Admin].authorized
  <2>1. /\ \A k \in Node \ {m} : node'[k] = node[k]
        /\ node'[m].auth = s.auth /\ node'[m].known = s.known /\ node'[m].authorized = s.authorized
    BY <1>2, <1>4, <1>5, Became
  <2>2. \A k \in Node : /\ node'[k].auth = node[k].auth /\ node'[k].known = node[k].known
                        /\ node'[k].authorized = node[k].authorized
    BY <1>4, <2>1
  <2> QED BY <1>2, <2>2
<1>7. \A d \in Conn : Called(d) => d # c /\ ends'[d] = ends[d] /\ chan'[d] = chan[d]
  BY <1>1, <1>2 DEF Called
<1>8. \A d \in Conn, k \in Node : chan'[d][k] = chan[d][k] \/ chan'[d][k] = <<Id>>
  BY <1>1, <1>2
<1>9. Lists(<<Id>>) = {}
  <2>1. Len(<<Id>>) = 1 /\ <<Id>>[1].list = <<>> /\ Range(<<>>) = {}
    BY DEF Id, Range
  <2>2. \A i \in 1 .. Len(<<Id>>) : Range(<<Id>>[i].list) = {}
    BY <2>1
  <2> QED BY <2>2 DEF Lists
<1>10. Granted'
  <2>1. ASSUME NEW d \in Conn, NEW k \in Node
        PROVE  Lists(chan'[d][k]) \subseteq Range(node[Admin].auth)
    BY <1>8, <1>9 DEF Granted
  <2> QED BY <1>2, <1>6, <2>1 DEF Granted
<1>11. PeersInformed => PeersInformed'
  BY <1>6, <1>7, NothingToInform
<1> QED BY <1>10, <1>11

\* Each step keeps what is known of the authorizations.
LEMMA MembersNext ==
  ASSUME MembersInv, [Next]_vars
  PROVE  MembersInv'
<1>1. Typed /\ Linked /\ Granted /\ Informed /\ Typed' /\ Move /\ Linked'
  BY StepMoves, LinkedNext DEF MembersInv
<1>2. ASSUME Granted', Undisturbed /\ PeersInformed => PeersInformed'
      PROVE  MembersInv'
  BY <1>1, <1>2, UndisturbedBefore DEF MembersInv, Informed
<1>3. Admin \in Node /\ node \in [Node -> NodeState] /\ chan \in [Conn -> [Node -> Seq(Message)]]
  BY <1>1, ConnectionsAssumption DEF Typed, TypeOK
<1>4. CASE UNCHANGED vars
  <2>0. UNCHANGED <<node, ends, chan>>
    BY <1>4 DEF vars
  <2>1. Granted' /\ (PeersInformed => PeersInformed')
    <3>1. Granted'
      BY <1>1, <2>0 DEF Granted
    <3>2. PeersInformed => PeersInformed'
      BY <1>1, <2>0, NothingToInform
    <3> QED BY <3>1, <3>2
  <2> QED BY <1>2, <2>1
<1>5. CASE process_new_special_transaction
  BY <1>1, <1>2, <1>5, SpecialsInform
<1>6. ASSUME NEW x \in Node, authorize(x)
      PROVE  MembersInv'
  <2>1. /\ \A n \in Node : node'[n].auth = node[n].auth
        /\ node'[Admin].known = node[Admin].known /\ node'[Admin].authorized = node[Admin].authorized
        /\ UNCHANGED <<ends, chan>>
    BY <1>3, <1>6 DEF authorize, NodeState
  <2>2. Granted'
    BY <1>1, <1>3, <2>1 DEF Granted
  <2>3. PeersInformed => PeersInformed'
    BY <1>1, <2>1, NothingToInform
  <2> QED BY <1>2, <2>2, <2>3
<1>7. ASSUME NEW m \in Node, NEW n \in Node, check_peer_connection(m, n)
      PROVE  MembersInv'
  BY <1>1, <1>2, <1>7, CallInforms
<1>8. ASSUME NEW n \in Node, NEW c \in Conn
      PROVE  /\ worker_thread_on_incoming_tcp_connection(n, c) => MembersInv'
             /\ worker_thread_on_peer_message(n, c) => MembersInv'
  BY <1>1, <1>2, IncomingInforms, MessageInforms
<1>9. ASSUME NEW n \in Node, NEW c \in Conn, Dropping(n, c) \/ Leaving(n, c),
             \A m \in Node : node'[m].auth = node[m].auth,
             \A d \in Conn, m \in Node : Lists(chan'[d][m]) \subseteq Lists(chan[d][m])
      PROVE  MembersInv'
  BY <1>1, <1>9, ClosingInforms DEF MembersInv
<1>10. ASSUME NEW n \in Node, NEW c \in Conn, connection_dropped(n, c) \/ network_failure(n, c)
       PROVE  MembersInv'
  <2> DEFINE s == disconnect_peer(node[n], c)
  <2>1. Become(n, s) /\ UNCHANGED chan
    BY <1>10 DEF connection_dropped, network_failure
  <2>2. node[n] \in Handling
    BY <1>1 DEF Typed, Orderly
  <2>3. s \in Handling /\ s.auth = node[n].auth
    BY <2>2 DEF disconnect_peer, Handling
  <2> HIDE DEF s
  <2>4. \A m \in Node : node'[m].auth = node[m].auth
    BY <1>3, <2>1, <2>3, Became
  <2>5. Dropping(n, c)
    BY <1>1, <1>10, DropStep
  <2> QED BY <1>9, <2>1, <2>4, <2>5
<1>11. ASSUME NEW n \in Node, NEW c \in Conn, worker_thread_on_close(n, c)
       PROVE  MembersInv'
  <2>1. node' = [node EXCEPT ![n] = Without(@, c)] /\ chan' = [chan EXCEPT ![c][n] = <<>>]
    BY <1>11 DEF worker_thread_on_close
  <2>2. Without(node[n], c).auth = node[n].auth
    BY <1>3 DEF Without, NodeState
  <2>3. \A m \in Node : node'[m].auth = node[m].auth
    BY <1>3, <2>1, <2>2
  <2>4. \A d \in Conn, m \in Node : chan'[d][m] = chan[d][m] \/ chan'[d][m] = <<>>
    BY <1>3, <2>1
  <2>5. Lists(<<>>) = {}
    BY DEF Lists
  <2>6. Leaving(n, c)
    BY <1>1, <1>11, CloseStep
  <2> QED BY <1>9, <2>3, <2>4, <2>5, <2>6
<1> QED BY <1>4, <1>5, <1>6, <1>7, <1>8, <1>10, <1>11 DEF Next

\* What the administrator has sent, the connected members have once it has arrived.
LEMMA InformedMembersAgree ==
  ASSUME MembersInv
  PROVE  MembersAgree
<1>1. Typed /\ Linked /\ Granted /\ Informed /\ Admin \in Node
  BY ConnectionsAssumption DEF MembersInv
<1> SUFFICES ASSUME Undisturbed, \A m, n \in Node : m # n => \E c \in Between(m, n) : Settled(c),
                    NEW n \in Node, Contains(node[n].auth, n)
             PROVE  Range(node[n].auth) = Range(node[Admin].auth)
  BY DEF MembersAgree
<1>2. n \in Range(node[n].auth) /\ Range(node[n].auth) \subseteq Range(node[Admin].auth)
  <2>1. node[n].auth \in Seq(Node)
    BY <1>1 DEF Typed, TypeOK, NodeState
  <2> QED BY <1>1, <2>1, ContainsIsRange DEF Granted
<1>3. CASE n = Admin
  BY <1>3
<1>4. CASE n # Admin
  <2>1. PICK c \in Between(Admin, n) : Settled(c)
    BY <1>1, <1>4
  <2>2. /\ c \in Conn /\ Other(c, Admin) = n /\ Admin \in Range(ends[c]) /\ n \in Range(ends[c])
    <3>1. c \in Conn /\ (ends[c] = <<Admin, n>> \/ ends[c] = <<n, Admin>>)
      BY DEF Between
    <3> QED BY <1>4, <3>1 DEF Other, Range
  <2>3. c \in node[Admin].known /\ chan[c][n] = <<>>
    BY <2>1, <2>2 DEF Settled
  <2>4. Range(node[Admin].auth) \subseteq Range(node[n].auth) \cup Lists(<<>>)
    BY <1>1, <1>2, <2>2, <2>3 DEF Informed, PeersInformed, OnTheWay
  <2>5. Lists(<<>>) = {}
    BY DEF Lists
  <2> QED BY <1>2, <2>4, <2>5
<1> QED BY <1>3, <1>4

\* Connected nodes that know that they are authorized know the same authorized nodes, in whatever order the
\* administrator authorized them and they were connected: on_new_authorization and on_valid_node_id tell
\* each authorized peer everything (allowed_nodes.c).
THEOREM MembersKnowTheSame == Spec => []MembersAgree
<1>1. Init => MembersInv
  <2> SUFFICES ASSUME Init
               PROVE  MembersInv
    OBVIOUS
  <2>1. Typed /\ Linked
    BY InitLinks
  <2>2. /\ node = [n \in Node |-> Started(n)] /\ chan = [c \in Conn |-> [n \in Node |-> <<>>]]
        /\ Admin \in Node
    BY ConnectionsAssumption DEF Init
  <2>3. \A n \in Node : node[n].auth = (IF n = Admin THEN <<n>> ELSE <<>>) /\ node[n].known = {}
    BY <2>2 DEF Started
  <2>4. Range(<<>>) = {} /\ Lists(<<>>) = {}
    BY DEF Range, Lists
  <2>5. Granted
    BY <2>2, <2>3, <2>4 DEF Granted
  <2> QED BY <2>1, <2>2, <2>3, <2>5 DEF MembersInv, Informed, PeersInformed
<1>2. MembersInv /\ [Next]_vars => MembersInv'
  BY MembersNext
<1>3. MembersInv => MembersAgree
  BY InformedMembersAgree
<1> QED BY <1>1, <1>2, <1>3, PTL DEF Spec
=============================================================================
