---------------------------- MODULE StateUpdate ----------------------------
(***************************************************************************)
(* The state update of AergoLite (plugins/no-leader/state_update.c).  A    *)
(* node that may be behind asks its peers, one at a time and in a random   *)
(* order, for the database pages changed since its block; the pages are    *)
(* written in one transaction, which the last message (the state of the    *)
(* block) commits if pages and state match.  A node serves requests while  *)
(* it runs an update of its own.                                           *)
(*                                                                         *)
(* The consensus produces one chain of blocks (module Consensus), so a     *)
(* block is its height, and the content of a page is the height of the     *)
(* last block that wrote it.  A handler is one action.  Messages between   *)
(* two nodes keep their order, as on the TCP connection; answers may be    *)
(* as late as the timers allow.                                            *)
(***************************************************************************)
EXTENDS Integers, Sequences, FiniteSets, SequencesExt

CONSTANTS
  Node,          \* the authorized nodes
  NoNode,        \* contacted_node_id = 0
  Page,          \* the pages of the database
  MaxHeight,     \* bound: the height of the last block
  Writes(_),     \* Writes(h): the pages block h modifies
  StartHeights,  \* the possible heights of the nodes at the start
  MaxInFlight,   \* bound: messages in flight when a timer overtakes an answer
  Faults         \* which of the faults below may happen

(***************************************************************************)
(* "late": a timer fires while the answer is on its way.  "begin": the     *)
(* database is locked, or a page cannot be written.  "read": the peer      *)
(* fails while it reads or sends the pages.  "commit": the update cannot   *)
(* be committed.  "nomem": no memory is left for the new block.            *)
(* "disconnect": a connection drops.  "crash": a node restarts.  "verify": *)
(* a proposal cannot be verified.  "load": the state cannot be loaded.     *)
(* "block": the consensus commits blocks meanwhile.                        *)
(***************************************************************************)
FaultKinds == {"late", "begin", "read", "commit", "nomem", "disconnect",
               "crash", "verify", "load", "block"}

Height == 0 .. MaxHeight

ASSUME NodeAssumption == IsFiniteSet(Node) /\ NoNode \notin Node
ASSUME HeightAssumption == MaxHeight \in Nat /\ StartHeights \subseteq [Node -> Height]
ASSUME WritesAssumption == IsFiniteSet(Page) /\ \A h \in Height : Writes(h) \subseteq Page
ASSUME FaultAssumption == Faults \subseteq FaultKinds /\ MaxInFlight \in Nat

VARIABLES
  node,     \* node[n]: the state update variables and the database of node n
  chan,     \* chan[<<m, n>>]: the messages from node m to node n
  peers,    \* <<n, m>>: m is on the list of peers of n
  closing   \* the peers whose socket is being closed; they are still listed

vars == <<node, chan, peers, closing>>

-----------------------------------------------------------------------------
(* Database states *)

\* The height of the last block up to h that wrote page p (page_state).
Version(p, h) ==
  LET W == {k \in 1 .. h : p \in Writes(k)}
  IN IF W = {} THEN 0 ELSE CHOOSE k \in W : \A j \in W : j <= k

\* The state of the database after block h; its hash is in the block header.
State(h) == [p \in Page |-> Version(p, h)]

\* The pages that blocks above height from have modified, up to height h.
Modified(from, h) == {p \in Page : Version(p, h) > from}

\* The pages of a transaction: a partial function from pages to contents.
PageSet == UNION {[S -> Height] : S \in SUBSET Page}
NoPages == [p \in {} |-> 0]
Overlay(pages, db) == [p \in Page |-> IF p \in DOMAIN pages THEN pages[p] ELSE db[p]]

Majority == Cardinality(Node) \div 2 + 1
Peers(n) == {m \in Node : <<n, m>> \in peers}
Reachable(n) == {m \in Node : <<n, m>> \in peers \ closing}

-----------------------------------------------------------------------------
(* Messages *)

Request(h) == [cmd |-> "request", height |-> h]
UpToDate == [cmd |-> "uptodate"]
Busy == [cmd |-> "busy"]
DbPage(h, p, v) == [cmd |-> "page", height |-> h, pgno |-> p, data |-> v]
Apply(h, mod) == [cmd |-> "apply", height |-> h, mod_pages |-> mod]

Received(m, n) == [chan EXCEPT ![<<m, n>>] = Tail(@)]
Arrives(m, n, cmd) ==
  ~ node[n].spinning /\ chan[<<m, n>>] # <<>> /\ Head(chan[<<m, n>>]).cmd = cmd

\* A timer of node n fires: the sockets that were to be closed are.
TimerPhase(n) == ~ node[n].spinning /\ \A m \in Node : <<n, m>> \notin closing

\* An outcome of a handler of node n: the new state of the node, and the node
\* the next request goes to.
Outcome(s, to) == [state |-> s, to |-> to]

\* Node n takes the outcome o; c are the other messages in flight.
Become(n, o, c) ==
  /\ node' = [node EXCEPT ![n] = o.state]
  /\ chan' = IF o.to = NoNode THEN c
             ELSE [c EXCEPT ![<<n, o.to>>] = Append(@, Request(o.state.block))]
  /\ UNCHANGED <<peers, closing>>

\* The first message from m to n is read and changes nothing.
Ignore(m, n) == chan' = Received(m, n) /\ UNCHANGED <<node, peers, closing>>

-----------------------------------------------------------------------------
(* The requesting side.  s is the state of a node: block is the height of  *)
(* current_block (0: NULL), height and db what its database files hold,    *)
(* hashes the page hashes in memory, received the pages of the open        *)
(* transaction, updating is_updating_state, timer the state_update_timer.  *)
(* spinning: the handler never returns.                                    *)

\* (mutant) The state of the node is not set.
state_update_finished_unmarked(s) ==
  [s EXCEPT !.timer = FALSE, !.contacted = {}, !.failed = {},
            !.contacted_node_id = NoNode]

state_update_finished(s) ==
  [s EXCEPT !.timer = FALSE, !.contacted = {}, !.failed = {},
            !.contacted_node_id = NoNode,
            !.sync = IF @ = "synchronizing" THEN "in_sync" ELSE @]

\* (mutant) A node without any block is done as well.
MajorityContactedAnyBlock(s) == Cardinality(s.contacted) + 1 >= Majority

MajorityContacted(s) == Cardinality(s.contacted) + 1 >= Majority /\ s.block > 0

\* The peers that are selected in vain, because their socket is closing.
Skip(s, D) == [s EXCEPT !.contacted = @ \cup D, !.failed = @ \cup D]

fail_node(s, m) == IF m = NoNode THEN s ELSE [s EXCEPT !.failed = @ \cup {m}]

\* Peer m is asked, after the peers D were selected in vain.
Ask(s, m, D) ==
  LET t == Skip(s, D)
  IN IF MajorityContacted(t) THEN Outcome(state_update_finished(t), NoNode)
     ELSE Outcome([t EXCEPT !.contacted = @ \cup {m}, !.contacted_node_id = m,
                            !.timer = TRUE], m)

\* One pass over the peers that were not contacted, in a random order, until a
\* request can be sent.
AskOne(n, s) ==
  LET closed == Peers(n) \ (Reachable(n) \cup s.contacted)
  IN UNION {{Ask(s, m, D) : D \in SUBSET closed} : m \in Reachable(n) \ s.contacted}

\* When all the peers were contacted those that failed are contacted again, and
\* with none left the node waits for new connections.  When all that is left
\* are closing sockets the loop does not end.
request_state_update_next(n, s) ==
  LET all == Skip(s, Peers(n) \ (Reachable(n) \cup s.contacted))
      again == [all EXCEPT !.contacted = @ \ all.failed, !.failed = {}]
      waiting == [again EXCEPT !.contacted_node_id = NoNode, !.timer = TRUE]
  IN IF MajorityContacted(s) THEN {Outcome(state_update_finished(s), NoNode)}
     ELSE IF AskOne(n, s) # {} THEN AskOne(n, s)
     ELSE IF MajorityContacted(all) THEN {Outcome(state_update_finished(all), NoNode)}
     ELSE IF AskOne(n, again) # {} THEN AskOne(n, again)
     ELSE IF Peers(n) \subseteq again.contacted THEN {Outcome(waiting, NoNode)}
     ELSE {Outcome([again EXCEPT !.spinning = TRUE], NoNode)}

request_state_update(n, s) ==
  IF s.sync = "synchronizing" THEN {Outcome(s, NoNode)}
  ELSE IF Peers(n) = {} THEN {Outcome([s EXCEPT !.sync = "unknown"], NoNode)}
  ELSE request_state_update_next(n, [s EXCEPT !.sync = "synchronizing"])

aergolite_cancel_state_update(s) == [s EXCEPT !.updating = FALSE, !.received = NoPages]

\* The page hashes and the last block are read from the database.
load_current_state(s) ==
  IF s.height = 0 THEN [s EXCEPT !.sync = "error"]
  ELSE [s EXCEPT !.block = s.height, !.hashes = State(s.height)]

\* Can the database be read?
LoadResults == IF "load" \in Faults THEN BOOLEAN ELSE {TRUE}

\* A node that has no block loads it first.  Only an empty database goes on to
\* the request at once: the successful load is taken for an error.
start_downstream_db_sync(n, loaded) ==
  LET s == node[n]
      t == IF loaded THEN load_current_state(s) ELSE s
  IN IF s.block = 0 /\ (s.height > 0 \/ ~ loaded)
     THEN {Outcome([t EXCEPT !.sync = "error"], NoNode)}
     ELSE request_state_update(n, s)

\* Every 500 ms.
process_transactions_timer_cb(n) ==
  /\ TimerPhase(n)
  /\ Peers(n) # {}
  /\ node[n].sync \notin {"synchronizing", "in_sync"}
  /\ \E loaded \in LoadResults : \E o \in start_downstream_db_sync(n, loaded) :
       Become(n, o, chan)

\* A proposal or a vote for a block beyond the next one arrives.
on_future_block(m, n) ==
  /\ ~ node[n].spinning
  /\ m \in Reachable(n) /\ node[m].block > node[n].block
  /\ node[n].sync # "synchronizing"
  /\ \E o \in request_state_update(n, node[n]) : Become(n, o, chan)

\* (mutant) The next peer is not asked.
on_uptodate_message_last(m, n) ==
  /\ Arrives(m, n, "uptodate")
  /\ IF m # node[n].contacted_node_id THEN Ignore(m, n)
     ELSE Become(n, Outcome([node[n] EXCEPT !.timer = FALSE], NoNode), Received(m, n))

on_uptodate_message(m, n) ==
  /\ Arrives(m, n, "uptodate")
  /\ IF m # node[n].contacted_node_id THEN Ignore(m, n)
     ELSE \E o \in request_state_update_next(n, [node[n] EXCEPT !.timer = FALSE]) :
            Become(n, o, Received(m, n))

on_node_is_busy(m, n) ==
  /\ Arrives(m, n, "busy")
  /\ IF m # node[n].contacted_node_id THEN Ignore(m, n)
     ELSE \E o \in request_state_update_next(
                     n, fail_node([node[n] EXCEPT !.timer = FALSE], m)) :
            Become(n, o, Received(m, n))

\* (mutant) The update that was begun is not cancelled.
node_timeout_keeping_update(n) ==
  /\ TimerPhase(n) /\ node[n].timer
  /\ LET s == [node[n] EXCEPT !.timer = FALSE]
     IN \E o \in request_state_update_next(n, fail_node(s, s.contacted_node_id)) :
          Become(n, o, chan)

\* Unless answers are late, the timer fires when none is on its way.
on_state_update_node_timeout(n) ==
  LET s == [node[n] EXCEPT !.timer = FALSE]
      t == IF s.updating THEN aergolite_cancel_state_update(s) ELSE s
      pending == {c \in Node \X Node : n \in {c[1], c[2]} /\ chan[c] # <<>>}
      inFlight == UNION {{c} \X DOMAIN chan[c] : c \in Node \X Node}
  IN /\ TimerPhase(n) /\ node[n].timer
     /\ IF "late" \in Faults THEN Cardinality(inFlight) <= MaxInFlight ELSE pending = {}
     /\ \E o \in request_state_update_next(n, fail_node(t, s.contacted_node_id)) :
          Become(n, o, chan)

\* (mutant) The pages that were written are not rolled back.
update_failed_written(m, n, s) ==
  \E o \in request_state_update_next(
              n, fail_node([s EXCEPT !.updating = FALSE, !.received = NoPages,
                                     !.db = Overlay(s.received, s.db), !.timer = FALSE], m)) :
    Become(n, o, Received(m, n))

\* The update fails on node n: the next peer is asked.
update_failed(m, n, s) ==
  \E o \in request_state_update_next(
              n, fail_node([s EXCEPT !.updating = FALSE, !.received = NoPages,
                                     !.timer = FALSE], m)) :
    Become(n, o, Received(m, n))

\* Is the update in message msg from m not for node n, or not any more?
Outdated(m, n, msg) ==
  \/ m # node[n].contacted_node_id
  \/ msg.height <= node[n].block
  \/ node[n].sync # "synchronizing"

\* The first page begins the transaction.
on_update_db_page(m, n) ==
  LET s == node[n]
      msg == Head(chan[<<m, n>>])
      page == [p \in {msg.pgno} |-> msg.data]
      t == [s EXCEPT !.updating = TRUE, !.timer = TRUE,
                     !.received = [p \in DOMAIN @ \cup {msg.pgno} |->
                                     IF p = msg.pgno THEN msg.data ELSE s.received[p]]]
  IN /\ Arrives(m, n, "page")
     /\ IF Outdated(m, n, msg) THEN Ignore(m, n)
        ELSE \/ Become(n, Outcome(t, NoNode), Received(m, n))
             \/ "begin" \in Faults /\ update_failed(m, n, s)

\* The pages of the transaction are those of the list, and with them the hashes
\* of all the pages are those of the state in the block header.
PagesMatch(s, msg) ==
  s.received = msg.mod_pages /\ Overlay(s.received, s.hashes) = State(msg.height)

\* The hashes after a failure: reloaded from the database, unless that fails too.
HashesAfterFailure(s) ==
  {State(s.height)} \cup
    IF "load" \in Faults THEN {s.hashes, Overlay(s.received, s.hashes)} ELSE {}

on_apply_state_update(m, n) ==
  LET s == node[n]
      msg == Head(chan[<<m, n>>])
      t == [s EXCEPT !.db = Overlay(s.received, s.db), !.height = msg.height,
                     !.hashes = Overlay(s.received, s.hashes),
                     !.updating = FALSE, !.received = NoPages, !.timer = FALSE]
  IN /\ Arrives(m, n, "apply")
     /\ IF Outdated(m, n, msg) \/ ~ s.updating THEN Ignore(m, n)
        ELSE \/ /\ PagesMatch(s, msg)
                /\ \E o \in request_state_update_next(n, [t EXCEPT !.block = msg.height]) :
                     Become(n, o, Received(m, n))
             \/ /\ ~ PagesMatch(s, msg) \/ "commit" \in Faults
                /\ \E hashes \in HashesAfterFailure(s) :
                     update_failed(m, n, [s EXCEPT !.hashes = hashes])
             \/ /\ PagesMatch(s, msg) /\ "nomem" \in Faults
                /\ \E o \in request_state_update_next(
                              n, [fail_node(t, m) EXCEPT !.block = 0, !.sync = "unknown"]) :
                     Become(n, o, Received(m, n))

-----------------------------------------------------------------------------
(* The serving side *)

\* The pages in the order they are sent.
PageOrder(S) == SetToSeq(S)

\* The answer of a node in state s to a request from height h.
Answer(s, h) ==
  LET mod == Modified(h, s.height)
      pages == [i \in 1 .. Cardinality(mod) |->
                  DbPage(s.block, PageOrder(mod)[i], s.db[PageOrder(mod)[i]])]
  IN IF h >= s.block THEN <<UpToDate>>
     ELSE IF s.sync = "synchronizing" \/ s.updating THEN <<Busy>>
     ELSE Append(pages, Apply(s.block, [p \in mod |-> Version(p, s.height)]))

\* Node n answers m.  What it sent before a failure is not taken back.
on_request_state_update(m, n) ==
  LET answer == Answer(node[n], Head(chan[<<m, n>>]).height)
      sent == IF "read" \in Faults /\ Len(answer) > 1 THEN 0 .. Len(answer)
              ELSE {Len(answer)}
  IN /\ Arrives(m, n, "request")
     /\ \E k \in sent :
          chan' = [Received(m, n) EXCEPT ![<<n, m>>] = @ \o SubSeq(answer, 1, k)]
     /\ UNCHANGED <<node, peers, closing>>

-----------------------------------------------------------------------------
(* What else happens to a node *)

\* The consensus commits the next block; a state update in progress prevents it.
commit_block(n) ==
  LET s == node[n]
      written == [p \in Writes(s.height + 1) |-> s.height + 1]
      t == [s EXCEPT !.block = s.height + 1, !.height = s.height + 1,
                     !.hashes = Overlay(written, s.hashes), !.db = Overlay(written, s.db)]
  IN
  /\ "block" \in Faults
  /\ ~ s.spinning /\ ~ s.updating
  /\ s.block = s.height /\ s.height < MaxHeight
  /\ Overlay(written, s.hashes) = State(s.height + 1)
  /\ node' = [node EXCEPT ![n] = t]
  /\ UNCHANGED <<chan, peers, closing>>

\* A proposal cannot be verified: it may be downloaded later.
verify_failed(n) ==
  /\ "verify" \in Faults
  /\ ~ node[n].spinning /\ node[n].sync # "synchronizing"
  /\ node' = [node EXCEPT ![n].sync = "outdated"]
  /\ UNCHANGED <<chan, peers, closing>>

\* The connection of two nodes drops: each closes its socket, and messages that
\* were not read are lost.
connection_dropped(m, n) ==
  /\ "disconnect" \in Faults
  /\ <<n, m>> \in peers \ closing
  /\ closing' = closing \cup ({<<m, n>>, <<n, m>>} \cap peers)
  /\ chan' = [chan EXCEPT ![<<m, n>>] = <<>>, ![<<n, m>>] = <<>>]
  /\ UNCHANGED <<node, peers>>

\* (mutant) The socket is closed a second time.
worker_thread_on_close_again(n, m) ==
  /\ ~ node[n].spinning
  /\ <<n, m>> \in closing
  /\ peers' = peers \ {<<n, m>>}
  /\ UNCHANGED <<node, chan, closing>>

\* At the end of the iteration of the event loop the peer leaves the list.
worker_thread_on_close(n, m) ==
  /\ ~ node[n].spinning
  /\ <<n, m>> \in closing
  /\ closing' = closing \ {<<n, m>>}
  /\ peers' = peers \ {<<n, m>>}
  /\ UNCHANGED <<node, chan>>

connected_again(m, n) ==
  /\ m # n /\ {<<m, n>>, <<n, m>>} \cap peers = {}
  /\ ~ node[m].spinning /\ ~ node[n].spinning
  /\ peers' = peers \cup {<<m, n>>, <<n, m>>}
  /\ UNCHANGED <<node, chan, closing>>

\* A node that starts, with database state db of height h.  When the state
\* cannot be loaded the node goes on without a block.
Started(h, db, loaded) ==
  LET s == [sync |-> IF loaded THEN "unknown" ELSE "error", block |-> 0, height |-> h,
            db |-> db, hashes |-> State(0), received |-> NoPages, updating |-> FALSE,
            contacted |-> {}, failed |-> {}, contacted_node_id |-> NoNode,
            timer |-> FALSE, spinning |-> FALSE]
  IN IF loaded THEN load_current_state(s) ELSE s

\* (mutant) The pages of the open transaction are in the database after a crash.
plugin_init_dirty(n) ==
  LET s == node[n] IN
  /\ "crash" \in Faults
  /\ \E loaded \in LoadResults :
       node' = [node EXCEPT ![n] = Started(s.height, Overlay(s.received, s.db), loaded)]
  /\ chan' = [c \in Node \X Node |-> IF n \in {c[1], c[2]} THEN <<>> ELSE chan[c]]
  /\ peers' = {c \in peers : c[1] # n}
  /\ closing' = {c \in peers : c[1] # n /\ (c \in closing \/ c[2] = n)}

\* Node n crashes and starts again; its peers see the connections drop.
plugin_init(n) ==
  LET s == node[n] IN
  /\ "crash" \in Faults
  /\ \E loaded \in LoadResults :
       node' = [node EXCEPT ![n] = Started(s.height, s.db, loaded)]
  /\ chan' = [c \in Node \X Node |-> IF n \in {c[1], c[2]} THEN <<>> ELSE chan[c]]
  /\ peers' = {c \in peers : c[1] # n}
  /\ closing' = {c \in peers : c[1] # n /\ (c \in closing \/ c[2] = n)}

Init ==
  /\ \E h \in StartHeights : \E loaded \in [Node -> LoadResults] :
       node = [n \in Node |-> Started(h[n], State(h[n]), loaded[n])]
  /\ chan = [c \in Node \X Node |-> <<>>]
  /\ peers = {c \in Node \X Node : c[1] # c[2]}
  /\ closing = {}

Deliver(m, n) ==
  \/ on_request_state_update(m, n)
  \/ on_update_db_page(m, n)
  \/ on_apply_state_update(m, n)
  \/ on_uptodate_message(m, n)
  \/ on_node_is_busy(m, n)

Next ==
  \/ \E m, n \in Node :
       \/ Deliver(m, n)
       \/ on_future_block(m, n)
       \/ connection_dropped(m, n)
       \/ worker_thread_on_close(n, m)
       \/ connected_again(m, n)
  \/ \E n \in Node :
       \/ process_transactions_timer_cb(n)
       \/ on_state_update_node_timeout(n)
       \/ commit_block(n)
       \/ verify_failed(n)
       \/ plugin_init(n)

Spec == Init /\ [][Next]_vars

(***************************************************************************)
(* The event loop of a node handles what has arrived on each connection    *)
(* and the timers that expire.                                             *)
(***************************************************************************)
FairSpec ==
  /\ Spec
  /\ \A m, n \in Node : WF_vars(Deliver(m, n))
  /\ \A n \in Node : WF_vars(process_transactions_timer_cb(n))
                     /\ WF_vars(on_state_update_node_timeout(n))

-----------------------------------------------------------------------------
(* Properties *)

DbState == {"unknown", "synchronizing", "in_sync", "outdated", "error"}

NodeState ==
  [sync : DbState, block : Height, height : Height, db : [Page -> Height],
   hashes : [Page -> Height], received : PageSet, updating : BOOLEAN,
   contacted : SUBSET Node, failed : SUBSET Node, contacted_node_id : Node \cup {NoNode},
   timer : BOOLEAN, spinning : BOOLEAN]

Message ==
  {UpToDate, Busy} \cup [cmd : {"request"}, height : Height]
    \cup [cmd : {"page"}, height : Height, pgno : Page, data : Height]
    \cup [cmd : {"apply"}, height : Height, mod_pages : PageSet]

\* The variables of the state update keep their types.
TypeOK ==
  /\ node \in [Node -> NodeState]
  /\ chan \in [Node \X Node -> Seq(Message)]
  /\ peers \subseteq Node \X Node /\ closing \subseteq peers

\* The database of a node is at every moment the one its last block leads to:
\* no update that mixes the answers of two peers, or two answers of the same
\* peer, is ever committed, nor is one that a crash interrupts.
DatabaseMatchesBlock ==
  \A n \in Node : node[n].db = State(node[n].height)
                  /\ node[n].block \in {0, node[n].height}

\* While the pages of an update are being written a timer that cancels it is
\* running: is_updating_state keeps the consensus from committing any block.
UpdateSupervised ==
  \A n \in Node : node[n].updating =>
    node[n].timer /\ node[n].contacted_node_id # NoNode

\* A node waits for its peers, with the timer on, exactly as long as it is
\* synchronizing (the assertions of request_state_update_next and of
\* on_state_update_node_timeout).
SynchronizingIsTimed ==
  \A n \in Node : ~ node[n].spinning =>
    (node[n].timer <=> node[n].sync = "synchronizing")

\* An update that has begun comes to an end on a node that has a block.
UpdateEnds ==
  \A n \in Node : (node[n].sync = "synchronizing" /\ node[n].block > 0)
                    ~> (node[n].sync = "in_sync")

\* A node that starts behind its peers reaches their block.
CatchesUp ==
  \A n \in Node : <>(node[n].block = MaxHeight)

-----------------------------------------------------------------------------
(* Together the nodes implement replicas that move from one block to a later *)
(* one, each with all of its pages at once.                                  *)

R == INSTANCE Replica WITH state <- [n \in Node |-> node[n].db],
                           height <- [n \in Node |-> node[n].height]

ImplementsReplica == R!Spec
=============================================================================
