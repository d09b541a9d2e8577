----------------------------- MODULE Connections -----------------------------
(***************************************************************************)
(* The connections between the nodes and the authorizations they exchange  *)
(* on them (allowed_nodes.c, the connection callbacks of no-leader.c).     *)
(* Two nodes may call each other at the same time: each then closes one of *)
(* the two connections.  A node that learns that a peer is authorized      *)
(* sends it all the authorizations it has.                                 *)
(***************************************************************************)
EXTENDS Integers, Sequences, FiniteSets, SequencesExt

CONSTANTS
  Node,      \* the nodes, each with its public key
  Admin,     \* the node where the network was created: it authorized itself
             \* and now authorizes the others
  Network,   \* the networks: finds[n] are the nodes whose address n finds, and
             \* fails the connections that may fail
  Conn,      \* the connections, numbered as they are made
  Random     \* the random identifier that the end with the lower node id
             \* sends on each connection

ASSUMPTION ConnectionsAssumption ==
  /\ IsFiniteSet(Node) /\ Admin \in Node
  /\ Conn \subseteq Nat /\ Random \in [Conn -> Nat]
  /\ Network \subseteq [finds : [Node -> SUBSET Node], fails : SUBSET Conn]

VARIABLES
  network,   \* the one of Network the nodes are in
  node,      \* the plugin of each node
  ends,      \* ends[c]: the node that called and the one that was called
  chan,      \* chan[c][n]: the messages on their way to n
  gone,      \* gone[c]: the ends that have closed the connection
  failed     \* the connections that have failed

vars == <<network, node, ends, chan, gone, failed>>

-----------------------------------------------------------------------------
(* Messages and helpers *)

Id == [cmd |-> "id", list |-> <<>>]
Authorization(list) == [cmd |-> "authorization", list |-> list]

NotCalled == <<>>

Other(c, n) == IF ends[c][1] = n THEN ends[c][2] ELSE ends[c][1]

Between(m, n) == {c \in Conn : ends[c] \in {<<m, n>>, <<n, m>>}}

Become(n, s) == node' = [node EXCEPT ![n] = [s EXCEPT !.rc = TRUE, !.out = [c \in Conn |-> <<>>]]]

\* What the handler sent goes to the other ends of the connections of n.
Deliver(n, s, received) ==
  chan' = [c \in Conn |-> [m \in Node |->
             IF ends[c] = NotCalled THEN <<>>
             ELSE IF m = n /\ c \in received THEN Tail(chan[c][m])
             ELSE IF m # n /\ n \in Range(ends[c]) /\ m \in Range(ends[c])
             THEN chan[c][m] \o s.out[c] ELSE chan[c][m]]]

\* No message on a connection that is being closed.
send_peer_message(s, c, msg) ==
  IF c \in s.closing THEN s ELSE [s EXCEPT !.out[c] = Append(@, msg)]

disconnect_peer(s, c) == [s EXCEPT !.closing = @ \cup {c}]

on_new_accepted_node(s, c) == [s EXCEPT !.accepted = @ \cup {c}]

-----------------------------------------------------------------------------
(* Authorizations *)

\* The connection c is to x.
IsTo(n, s, c, x) == c \in s.known /\ Other(c, n) = x

\* (mutant) Every authorization that is learned is told to the new peer only.
ToldToNew(n, s, x, from_this_node) ==
  {c \in Range(s.peers) : IsTo(n, s, c, x) /\ c \notin s.closing}

\* The peers that node n tells of the authorization of x: all that has it is
\* told to x, and a new one is told to the authorized peers.  The loop over the
\* peers ends at the first that is being closed.
Told(n, s, x, from_this_node) ==
  LET concerned(c) == IsTo(n, s, c, x) \/ (from_this_node /\ c \in s.authorized)
      first_failure == SelectInSeq(s.peers, LAMBDA c : concerned(c) /\ c \in s.closing)
  IN {c \in Range(IF first_failure = 0 THEN s.peers ELSE SubSeq(s.peers, 1, first_failure)) :
        concerned(c)}

\* An authorization that is new is stored; x is accepted on its connection.
\* The result of the call is in rc.
on_new_authorization(n, s, x, from_this_node) ==
  IF Contains(s.auth, x) THEN [s EXCEPT !.rc = FALSE] ELSE
  LET auth == Append(s.auth, x)
      told == Told(n, s, x, from_this_node)
      to_x == {c \in told : IsTo(n, s, c, x)}
  IN [s EXCEPT
        !.auth = auth,
        !.authorized = @ \cup to_x,
        !.accepted = @ \cup (to_x \ s.closing),
        !.out = [c \in Conn |-> IF c \in told \ s.closing
                                THEN Append(@[c], Authorization(IF c \in to_x THEN auth ELSE <<x>>))
                                ELSE @[c]],
        !.rc = told \cap s.closing = {}]

\* The loop over the list, as the states after each of its authorizations.
on_authorization_received(n, s, list) ==
  LET after[i \in 0 .. Len(list)] ==
        IF i = 0 THEN s ELSE on_new_authorization(n, after[i - 1], list[i], FALSE)
  IN after[Len(list)]

\* (mutant) Nodes that are not authorized are accepted too.
on_valid_node_id_any(s, c) ==
  on_new_accepted_node(send_peer_message(s, c, Authorization(s.auth)), c)

on_valid_node_id(s, c) ==
  IF c \in s.authorized
  THEN on_new_accepted_node(send_peer_message(s, c, Authorization(s.auth)), c)
  ELSE s

\* (mutant) The new connection takes the place of the previous one.
choose_new_connection(c, d) == c

\* Both ends compare the identifiers that the same end sent.
choose_duplicate_connection(c, d) == IF Random[c] < Random[d] THEN c ELSE d

\* (mutant) Only the connections that n made are looked up.
PreviousCalls(n, s, c) ==
  SelectInSeq(s.peers, LAMBDA d : d # c /\ IsTo(n, s, d, Other(c, n)) /\ ends[d][1] = n)

\* Where in the list the first other connection of n to the same node is.
Previous(n, s, c) == SelectInSeq(s.peers, LAMBDA d : d # c /\ IsTo(n, s, d, Other(c, n)))

\* With a previous connection one of the two is closed and nothing else is done.
check_new_identified_node(n, s, c) ==
  LET previous == Previous(n, s, c)
  IN IF previous = 0 THEN on_valid_node_id(s, c)
     ELSE disconnect_peer(s, choose_duplicate_connection(s.peers[previous], c))

on_node_identification(n, s, c) ==
  check_new_identified_node(n,
    [s EXCEPT !.known = @ \cup {c},
              !.authorized = IF Contains(s.auth, Other(c, n)) THEN @ \cup {c} ELSE @ \ {c}], c)

-----------------------------------------------------------------------------
(* Actions *)

\* The administrator authorizes x: the application commits a special transaction,
\* which goes to a queue of the worker thread.
authorize(x) ==
  /\ ~ Contains(node[Admin].auth \o node[Admin].special, x)
  /\ node' = [node EXCEPT ![Admin].special = Append(@, x)]
  /\ UNCHANGED <<network, ends, chan, gone, failed>>

\* The worker thread stores the authorizations of the queue, until one fails.
Processed(n, s) ==
  LET after[i \in 0 .. Len(s.special)] ==
        IF i = 0 THEN [s EXCEPT !.rc = TRUE]
        ELSE IF after[i - 1].rc
        THEN [on_new_authorization(n, after[i - 1], s.special[i], TRUE) EXCEPT !.special = Tail(@)]
        ELSE after[i - 1]
  IN after[Len(s.special)]

process_new_special_transaction ==
  LET s == Processed(Admin, node[Admin])
  IN /\ node[Admin].special # <<>>
     /\ Become(Admin, s)
     /\ Deliver(Admin, s, {})
     /\ UNCHANGED <<network, ends, gone, failed>>

\* The state after on_new_node_connected.
Connected(s, c) ==
  send_peer_message([s EXCEPT !.peers = Append(@, c), !.connected = @ \cup {c}], c, Id)

\* m found the address of n, and has no connection to it: it knows that of an
\* incoming connection once the peer is identified.  The call ends with the
\* callback worker_thread_on_outgoing_tcp_connection, which only sends the
\* identification: it is part of the step, for the message may take any time.
check_peer_connection(m, n) ==
  /\ n \in network.finds[m] \ {m}
  /\ \A c \in Range(node[m].peers) \cap Between(m, n) : ends[c] # <<m, n>> /\ c \notin node[m].known
  /\ \E c \in Conn :
       /\ ends[c] = NotCalled /\ \A d \in Conn : d < c => ends[d] # NotCalled
       /\ ends' = [ends EXCEPT ![c] = <<m, n>>]
       /\ Become(m, Connected(node[m], c))
       /\ chan' = [chan EXCEPT ![c][n] = <<Id>>]
  /\ UNCHANGED <<network, gone, failed>>

worker_thread_on_incoming_tcp_connection(n, c) ==
  LET s == Connected(node[n], c)
  IN /\ ends[c] # NotCalled /\ ends[c][2] = n
     /\ c \notin Range(node[n].peers) /\ n \notin gone[c]
     /\ Become(n, s)
     /\ Deliver(n, s, {})
     /\ UNCHANGED <<network, ends, gone, failed>>

\* The next message of a connection that is not being closed.
worker_thread_on_peer_message(n, c) ==
  /\ c \in node[n].connected \ node[n].closing
  /\ chan[c][n] # <<>>
  /\ LET msg == Head(chan[c][n])
         s == CASE msg.cmd = "id" -> on_node_identification(n, node[n], c)
                [] msg.cmd = "authorization" -> on_authorization_received(n, node[n], msg.list)
     IN Become(n, s) /\ Deliver(n, s, {c})
  /\ UNCHANGED <<network, ends, gone, failed>>

\* The other end has closed the connection; what it had sent may be lost.
connection_dropped(n, c) ==
  /\ c \in Range(node[n].peers) \ node[n].closing
  /\ Other(c, n) \in gone[c]
  /\ Become(n, disconnect_peer(node[n], c))
  /\ UNCHANGED <<network, ends, chan, gone, failed>>

network_failure(n, c) ==
  /\ c \in (network.fails \cap Range(node[n].peers)) \ node[n].closing
  /\ failed' = failed \cup {c}
  /\ Become(n, disconnect_peer(node[n], c))
  /\ UNCHANGED <<network, ends, chan, gone>>

\* The state without the connection c.
Without(s, c) ==
  [s EXCEPT !.peers = RemoveFirst(@, c), !.connected = @ \ {c}, !.known = @ \ {c},
            !.authorized = @ \ {c}, !.accepted = @ \ {c}, !.closing = @ \ {c}]

worker_thread_on_close(n, c) ==
  /\ c \in node[n].closing
  /\ node' = [node EXCEPT ![n] = Without(@, c)]
  /\ gone' = [gone EXCEPT ![c] = @ \cup {n}]
  /\ chan' = [chan EXCEPT ![c][n] = <<>>]
  /\ UNCHANGED <<network, ends, failed>>

Started(n) ==
  [auth |-> IF n = Admin THEN <<n>> ELSE <<>>, special |-> <<>>, peers |-> <<>>, connected |-> {}, known |-> {},
   authorized |-> {}, accepted |-> {}, closing |-> {}, rc |-> TRUE,
   out |-> [c \in Conn |-> <<>>]]

Init ==
  /\ network \in Network
  /\ node = [n \in Node |-> Started(n)]
  /\ ends = [c \in Conn |-> NotCalled]
  /\ chan = [c \in Conn |-> [n \in Node |-> <<>>]]
  /\ gone = [c \in Conn |-> {}]
  /\ failed = {}

Next ==
  \/ process_new_special_transaction
  \/ \E n \in Node : authorize(n)
  \/ \E m, n \in Node : check_peer_connection(m, n)
  \/ \E n \in Node, c \in Conn :
       \/ worker_thread_on_incoming_tcp_connection(n, c)
       \/ worker_thread_on_peer_message(n, c)
       \/ connection_dropped(n, c)
       \/ network_failure(n, c)
       \/ worker_thread_on_close(n, c)

Spec == Init /\ [][Next]_vars

-----------------------------------------------------------------------------
(* Properties *)

NodeState ==
  [auth : Seq(Node), special : Seq(Node), peers : Seq(Conn), connected : SUBSET Conn,
   known : SUBSET Conn, authorized : SUBSET Conn, accepted : SUBSET Conn,
   closing : SUBSET Conn, rc : BOOLEAN, out : [Conn -> {<<>>}]]

\* The variables keep their types, and the peers are those of the connections:
\* only identified ones are authorized.
TypeOK ==
  /\ node \in [Node -> NodeState]
  /\ ends \in [Conn -> {NotCalled} \cup Node \X Node]
  /\ gone \in [Conn -> SUBSET Node]
  /\ network \in Network
  /\ failed \subseteq network.fails
  /\ \A n \in Node :
       /\ node[n].accepted \subseteq node[n].authorized
       /\ node[n].authorized \subseteq node[n].known
       /\ node[n].known \subseteq node[n].connected
       /\ node[n].connected \cup node[n].closing \subseteq Range(node[n].peers)

\* Both ends keep it, or do not have it yet.
Open(c) == gone[c] = {} /\ \A n \in Node : c \notin node[n].closing

\* Both ends have identified each other and nothing is on its way.
Settled(c) ==
  Open(c) /\ \A n \in Range(ends[c]) : c \in node[n].known /\ chan[c][n] = <<>>

\* Two nodes that call each other at the same time keep one of the connections:
\* they never close one each (choose_duplicate_connection).
StillConnected ==
  \A m, n \in Node :
    Between(m, n) # {} /\ Between(m, n) \cap failed = {} => \E c \in Between(m, n) : Open(c)

\* They do not keep both.
NoDuplicateLeft ==
  \A m, n \in Node : \A c, d \in Between(m, n) : Settled(c) /\ Settled(d) => c = d

\* No connection was made twice, and none was closed.
Undisturbed == \A c, d \in Conn :
  /\ Open(c)
  /\ ends[c] # NotCalled /\ c # d => Range(ends[c]) # Range(ends[d])

\* When all the nodes are connected, those that know that they are authorized
\* know the same authorized nodes once the messages have arrived, whoever
\* authorized them and in whatever order they were connected.
MembersAgree ==
  ( /\ Undisturbed
    /\ \A n \in Node : node[n].special = <<>>
    /\ \A m, n \in Node : m # n => \E c \in Between(m, n) : Settled(c) )
  => \A m, n \in Node : Contains(node[m].auth, m) /\ Contains(node[n].auth, n)
                        => Range(node[m].auth) = Range(node[n].auth)
=============================================================================
