------------------------- MODULE StateUpdateProofs -------------------------
(***************************************************************************)
(* For any nodes, pages and blocks: the state update keeps its types; the  *)
(* database of a node always is the one of its last block; a node is       *)
(* synchronizing exactly as long as its timer runs, and writes pages only  *)
(* under that timer; and the nodes implement replicas that only move       *)
(* forward.                                                                *)
(*                                                                         *)
(* Every handler computes an outcome from the state of one node, so the    *)
(* lemmas are about a state s and the state t a handler leads to.  What    *)
(* happens to the database is said once for all the handlers, by DataStep; *)
(* what happens to the timer by TimedStep.                                 *)
(***************************************************************************)
EXTENDS StateUpdate, TLAPS, FiniteSetTheorems, SequenceTheorems,
        WellFoundedInduction

\* The handlers that only ask another peer leave the database alone.
SameData(s, t) ==
  /\ t.block = s.block /\ t.height = s.height /\ t.db = s.db /\ t.hashes = s.hashes
  /\ t.received = s.received /\ t.updating = s.updating

\* What one step of a node may do to its blocks and pages, if its state can
\* always be loaded.
DataStep(s, t) ==
  \/ /\ t.height = s.height /\ t.db = s.db
     /\ t.block \in {s.block, s.height} /\ t.hashes \in {s.hashes, State(s.height)}
  \/ \E x \in PageSet : \E h \in Height :
       /\ h > s.block
       /\ t.height = h
       /\ t.block = h \/ ("nomem" \in Faults /\ t.block = 0)
       /\ t.db = Overlay(x, s.db) /\ t.hashes = Overlay(x, s.hashes)
       /\ t.hashes = State(h)

\* The timer runs while the node is synchronizing, and only then is a peer
\* taken for the contacted one.
Timed(s) ==
  /\ s.spinning \/ (s.timer <=> s.sync = "synchronizing")
  /\ s.contacted_node_id # NoNode => s.sync = "synchronizing"

NodeOrNone == Node \cup {NoNode}

-----------------------------------------------------------------------------
(* Pages and heights *)

\* A non-empty set of heights has a greatest element: the least distance from
\* the bound belongs to it.
LEMMA Greatest ==
  ASSUME NEW m \in Nat, NEW W \in SUBSET (0 .. m), W # {}
  PROVE  \E k \in W : \A j \in W : j <= k
<1> DEFINE T == {x \in Nat : \E k \in W : k + x = m}
<1>1. T \subseteq Nat
  OBVIOUS
<1>2. T # {}
  <2>1. PICK k \in W : TRUE
    OBVIOUS
  <2>2. k \in Nat /\ m - k \in Nat /\ k + (m - k) = m
    BY <2>1
  <2> QED BY <2>1, <2>2
<1>3. \E x \in T : \A y \in T : ~ (<<y, x>> \in OpToRel(<, Nat))
  BY <1>1, <1>2, NatLessThanWellFounded, WFMin
<1>4. PICK x \in T : \A y \in T : ~ (y < x)
  BY <1>1, <1>3 DEF OpToRel
<1>5. PICK k \in W : k + x = m
  BY <1>4
<1>6. ASSUME NEW j \in W
      PROVE  j <= k
  <2>1. j \in Nat /\ j <= m /\ k \in Nat /\ x \in Nat
    BY <1>4
  <2>2. m - j \in Nat /\ j + (m - j) = m
    BY <2>1
  <2>3. m - j \in T
    BY <2>2
  <2>4. ~ (m - j < x)
    BY <1>4, <2>3
  <2> QED BY <1>5, <2>1, <2>4
<1> QED BY <1>6

\* The version of a page up to a height is a height.
LEMMA VersionType ==
  ASSUME NEW p, NEW h \in Height
  PROVE  Version(p, h) \in Height
<1> DEFINE W == {k \in 1 .. h : p \in Writes(k)}
<1>1. h \in Nat /\ MaxHeight \in Nat /\ 1 .. h \subseteq Height /\ W \in SUBSET (0 .. h)
  BY HeightAssumption DEF Height
<1>2. CASE W = {}
  BY <1>1, <1>2 DEF Version, Height
<1>3. CASE W # {}
  <2>1. \E k \in W : \A j \in W : j <= k
    BY <1>1, <1>3, Greatest
  <2>2. Version(p, h) \in W
    BY <1>3, <2>1 DEF Version
  <2> QED BY <1>1, <2>2
<1> QED BY <1>2, <1>3

\* The state of a block is a database.
LEMMA StateType ==
  ASSUME NEW h \in Height
  PROVE  State(h) \in [Page -> Height]
BY VersionType DEF State

\* Pages that were received are pages with their versions.
LEMMA PageSetType ==
  /\ NoPages \in PageSet
  /\ \A x \in PageSet : DOMAIN x \subseteq Page /\ x \in [DOMAIN x -> Height]
  /\ \A S \in SUBSET Page : \A x \in [S -> Height] : x \in PageSet
<1>1. NoPages \in PageSet
  <2>1. NoPages \in [{} -> Height]
    BY DEF NoPages
  <2> QED BY <2>1 DEF PageSet
<1>2. ASSUME NEW x \in PageSet
      PROVE  DOMAIN x \subseteq Page /\ x \in [DOMAIN x -> Height]
  BY DEF PageSet
<1>3. ASSUME NEW S \in SUBSET Page, NEW x \in [S -> Height]
      PROVE  x \in PageSet
  BY DEF PageSet
<1> QED BY <1>1, <1>2, <1>3

\* Pages written over a database make a database.
LEMMA OverlayType ==
  ASSUME NEW x \in PageSet, NEW y \in [Page -> Height]
  PROVE  Overlay(x, y) \in [Page -> Height]
BY PageSetType DEF Overlay

\* The page hashes after a failure are hashes of pages.
LEMMA HashesType ==
  ASSUME NEW s \in NodeState
  PROVE  HashesAfterFailure(s) \subseteq [Page -> Height]
<1>1. s.received \in PageSet /\ s.hashes \in [Page -> Height] /\ s.height \in Height
  BY DEF NodeState
<1>2. Overlay(s.received, s.hashes) \in [Page -> Height] /\ State(s.height) \in [Page -> Height]
  BY <1>1, OverlayType, StateType
<1> QED BY <1>1, <1>2 DEF HashesAfterFailure

-----------------------------------------------------------------------------
(* The requesting side *)

\* The helpers of request_state_update_next keep the type of a node state and
\* leave its database alone.
LEMMA HelperTypes ==
  ASSUME NEW s \in NodeState
  PROVE  /\ state_update_finished(s) \in NodeState
         /\ SameData(s, state_update_finished(s))
         /\ state_update_finished(s).timer = FALSE
         /\ state_update_finished(s).contacted_node_id = NoNode
         /\ state_update_finished(s).sync # "synchronizing"
         /\ \A D \in SUBSET Node : /\ Skip(s, D) \in NodeState
                                   /\ SameData(s, Skip(s, D))
                                   /\ Skip(s, D).sync = s.sync
                                   /\ Skip(s, D).timer = s.timer
                                   /\ Skip(s, D).contacted_node_id = s.contacted_node_id
         /\ \A m \in NodeOrNone : /\ fail_node(s, m) \in NodeState
                                  /\ SameData(s, fail_node(s, m))
                                  /\ fail_node(s, m).sync = s.sync
                                  /\ fail_node(s, m).timer = s.timer
                                  /\ fail_node(s, m).contacted_node_id = s.contacted_node_id
<1>1. /\ state_update_finished(s) \in NodeState
      /\ SameData(s, state_update_finished(s))
      /\ state_update_finished(s).timer = FALSE
      /\ state_update_finished(s).contacted_node_id = NoNode
      /\ state_update_finished(s).sync # "synchronizing"
  BY DEF state_update_finished, NodeState, SameData, DbState
<1>2. ASSUME NEW D \in SUBSET Node
      PROVE  /\ Skip(s, D) \in NodeState
             /\ SameData(s, Skip(s, D))
             /\ Skip(s, D).sync = s.sync
             /\ Skip(s, D).timer = s.timer
             /\ Skip(s, D).contacted_node_id = s.contacted_node_id
  BY DEF Skip, NodeState, SameData
<1>3. ASSUME NEW m \in NodeOrNone
      PROVE  /\ fail_node(s, m) \in NodeState
             /\ SameData(s, fail_node(s, m))
             /\ fail_node(s, m).sync = s.sync
             /\ fail_node(s, m).timer = s.timer
             /\ fail_node(s, m).contacted_node_id = s.contacted_node_id
  <2>1. CASE m = NoNode
    BY <2>1 DEF fail_node, SameData
  <2>2. CASE m \in Node /\ m # NoNode
    BY <2>2 DEF fail_node, NodeState, SameData
  <2> QED BY <2>1, <2>2 DEF NodeOrNone
<1> QED BY <1>1, <1>2, <1>3

\* An outcome of a node in state s that is synchronizing: another peer is asked,
\* or the update ends, or the node waits.
Proper(s, o) ==
  /\ o.state \in NodeState /\ o.to \in NodeOrNone
  /\ SameData(s, o.state)
  /\ s.sync = "synchronizing" => Timed(o.state)

\* state_update_finished stops the timer and ends the synchronization.
LEMMA FinishedProper ==
  ASSUME NEW s \in NodeState, NEW t \in NodeState, SameData(s, t)
  PROVE  Proper(s, Outcome(state_update_finished(t), NoNode))
BY HelperTypes DEF Proper, Outcome, Timed, SameData, NodeOrNone

\* A peer that is asked is waited for with the timer on.
LEMMA AskOneProper ==
  ASSUME NEW n \in Node, NEW s \in NodeState, NEW t \in NodeState, SameData(s, t),
         s.sync = t.sync, NEW o \in AskOne(n, t)
  PROVE  Proper(s, o)
<1>1. PICK m \in Node, D \in SUBSET Node : o = Ask(t, m, D)
  <2>1. PICK m \in Reachable(n) \ t.contacted,
             D \in SUBSET (Peers(n) \ (Reachable(n) \cup t.contacted)) : o = Ask(t, m, D)
    BY DEF AskOne
  <2>2. m \in Node /\ D \in SUBSET Node
    BY DEF Reachable, Peers
  <2> QED BY <2>1, <2>2
<1> DEFINE u == Skip(t, D)
<1>3. u \in NodeState /\ SameData(s, u) /\ u.sync = s.sync
  BY HelperTypes DEF SameData
<1>4. CASE MajorityContacted(u)
  BY <1>1, <1>3, <1>4, FinishedProper DEF Ask
<1>5. CASE ~ MajorityContacted(u)
  <2> DEFINE v == [u EXCEPT !.contacted = @ \cup {m}, !.contacted_node_id = m, !.timer = TRUE]
  <2>1. v \in NodeState /\ SameData(s, v) /\ v.sync = u.sync /\ v.timer = TRUE
    BY <1>3 DEF NodeState, SameData
  <2>2. o.state = v /\ o.to = m
    BY <1>1, <1>5 DEF Outcome, Ask
  <2> QED BY <1>3, <2>1, <2>2 DEF Proper, Timed, NodeOrNone
<1> QED BY <1>4, <1>5

\* request_state_update_next asks a peer, waits, or ends the update.
LEMMA NextProper ==
  ASSUME NEW n \in Node, NEW s \in NodeState, NEW o \in request_state_update_next(n, s)
  PROVE  Proper(s, o)
<1> DEFINE all == Skip(s, Peers(n) \ (Reachable(n) \cup s.contacted))
           again == [all EXCEPT !.contacted = @ \ all.failed, !.failed = {}]
           waiting == [again EXCEPT !.contacted_node_id = NoNode, !.timer = TRUE]
           spin == [again EXCEPT !.spinning = TRUE]
<1>1. all \in NodeState /\ SameData(s, all) /\ all.sync = s.sync
  BY HelperTypes DEF Peers
<1>2. again \in NodeState /\ SameData(s, again) /\ again.sync = s.sync
  BY <1>1 DEF NodeState, SameData
<1>3. waiting \in NodeState /\ SameData(s, waiting) /\ waiting.sync = s.sync
      /\ waiting.timer = TRUE /\ waiting.contacted_node_id = NoNode
  BY <1>2 DEF NodeState, SameData
<1>4. spin \in NodeState /\ SameData(s, spin) /\ spin.sync = s.sync /\ spin.spinning = TRUE
  BY <1>2 DEF NodeState, SameData
<1>5. \/ o = Outcome(state_update_finished(s), NoNode)
      \/ o \in AskOne(n, s)
      \/ o = Outcome(state_update_finished(all), NoNode)
      \/ o \in AskOne(n, again)
      \/ o = Outcome(waiting, NoNode)
      \/ o = Outcome(spin, NoNode)
  BY DEF request_state_update_next
<1>6. SameData(s, s)
  BY DEF SameData
<1>7. CASE o = Outcome(waiting, NoNode)
  BY <1>3, <1>7 DEF Proper, Outcome, Timed, NodeOrNone
<1>8. CASE o = Outcome(spin, NoNode)
  BY <1>4, <1>8 DEF Proper, Outcome, Timed, NodeOrNone
<1> QED BY <1>1, <1>2, <1>5, <1>6, <1>7, <1>8, FinishedProper, AskOneProper

\* An update is requested of a node in any state: the timer of one that is
\* synchronizing is not touched.
LEMMA RequestProper ==
  ASSUME NEW n \in Node, NEW s \in NodeState, NEW o \in request_state_update(n, s)
  PROVE  /\ o.state \in NodeState /\ o.to \in NodeOrNone
         /\ SameData(s, o.state)
         /\ Timed(s) => Timed(o.state)
<1>1. CASE s.sync = "synchronizing"
  BY <1>1 DEF request_state_update, Outcome, SameData, NodeOrNone
<1>2. CASE s.sync # "synchronizing" /\ Peers(n) = {}
  <2> DEFINE t == [s EXCEPT !.sync = "unknown"]
  <2>1. t \in NodeState /\ SameData(s, t) /\ t.sync = "unknown" /\ t.timer = s.timer
        /\ t.contacted_node_id = s.contacted_node_id /\ t.spinning = s.spinning
    BY DEF NodeState, SameData, DbState
  <2>2. o = Outcome(t, NoNode)
    BY <1>2 DEF request_state_update
  <2> QED BY <1>2, <2>1, <2>2 DEF Outcome, Timed, NodeOrNone
<1>3. CASE s.sync # "synchronizing" /\ Peers(n) # {}
  <2> DEFINE t == [s EXCEPT !.sync = "synchronizing"]
  <2>1. t \in NodeState /\ SameData(s, t) /\ t.sync = "synchronizing"
    BY DEF NodeState, SameData, DbState
  <2>2. o \in request_state_update_next(n, t)
    BY <1>3 DEF request_state_update
  <2>3. Proper(t, o)
    BY <2>1, <2>2, NextProper
  <2> QED BY <2>1, <2>3 DEF Proper, SameData
<1> QED BY <1>1, <1>2, <1>3

-----------------------------------------------------------------------------
(* Steps of a node *)

Channels == [Node \X Node -> Seq(Message)]

\* Node n moves from its state to t.
Step(n, t) ==
  /\ t \in NodeState
  /\ node' = [node EXCEPT ![n] = t]
  /\ "load" \notin Faults => DataStep(node[n], t)
  /\ "nomem" \notin Faults /\ Timed(node[n]) => Timed(t)

NodeSteps(n) == node' = node \/ \E t : Step(n, t)

\* A step that leaves block and database alone is a step of the data.
LEMMA SameDataStep ==
  ASSUME NEW s \in NodeState, NEW t, SameData(s, t)
  PROVE  DataStep(s, t)
BY DEF DataStep, SameData

\* A message that is taken from a channel is a message.
LEMMA ReceivedType ==
  ASSUME TypeOK, NEW m \in Node, NEW n \in Node, chan[<<m, n>>] # <<>>
  PROVE  Received(m, n) \in Channels /\ Head(chan[<<m, n>>]) \in Message
<1>1. chan[<<m, n>>] \in Seq(Message)
  BY DEF TypeOK
<1>2. Tail(chan[<<m, n>>]) \in Seq(Message) /\ Head(chan[<<m, n>>]) \in Message
  BY <1>1
<1> QED BY <1>2 DEF Received, TypeOK, Channels

\* A node that becomes a typed state, and sends a request, keeps the types.
LEMMA BecomeType ==
  ASSUME TypeOK, NEW n \in Node, NEW o, o.state \in NodeState, o.to \in NodeOrNone,
         NEW c \in Channels, Become(n, o, c)
  PROVE  TypeOK' /\ node' = [node EXCEPT ![n] = o.state]
<1>1. node' = [node EXCEPT ![n] = o.state] /\ node' \in [Node -> NodeState]
  BY DEF Become, TypeOK
<1>2. chan' \in Channels
  <2>1. CASE o.to = NoNode
    BY <2>1 DEF Become
  <2>2. CASE o.to # NoNode
    <3>1. o.to \in Node /\ c[<<n, o.to>>] \in Seq(Message)
      BY <2>2 DEF NodeOrNone, Channels
    <3>2. Request(o.state.block) \in Message
      BY DEF Request, Message, NodeState
    <3>3. Append(c[<<n, o.to>>], Request(o.state.block)) \in Seq(Message)
      BY <3>1, <3>2
    <3> QED BY <2>2, <3>1, <3>3 DEF Become, Channels
  <2> QED BY <2>1, <2>2
<1> QED BY <1>1, <1>2 DEF Become, TypeOK, Channels

\* Node n, synchronizing, goes on to the next peer from state s.
LEMMA NextStep ==
  ASSUME TypeOK, NEW n \in Node, NEW s \in NodeState, NEW c \in Channels,
         "load" \notin Faults => DataStep(node[n], s),
         "nomem" \notin Faults /\ Timed(node[n]) => s.sync = "synchronizing",
         \E o \in request_state_update_next(n, s) : Become(n, o, c)
  PROVE  TypeOK' /\ NodeSteps(n)
<1>1. PICK o \in request_state_update_next(n, s) : Become(n, o, c)
  OBVIOUS
<1>2. Proper(s, o)
  BY NextProper
<1>3. TypeOK' /\ node' = [node EXCEPT ![n] = o.state]
  BY <1>1, <1>2, BecomeType DEF Proper
<1>4. "load" \notin Faults => DataStep(node[n], o.state)
  BY <1>2 DEF Proper, DataStep, SameData
<1> QED BY <1>2, <1>3, <1>4 DEF Proper, Step, NodeSteps

\* A step that begins a request is one of its node.
LEMMA RequestStep ==
  ASSUME TypeOK, NEW n \in Node,
         \E o \in request_state_update(n, node[n]) : Become(n, o, chan)
  PROVE  TypeOK' /\ NodeSteps(n)
<1>1. PICK o \in request_state_update(n, node[n]) : Become(n, o, chan)
  OBVIOUS
<1>2. node[n] \in NodeState /\ chan \in Channels
  BY DEF TypeOK, Channels
<1>3. o.state \in NodeState /\ o.to \in NodeOrNone /\ SameData(node[n], o.state)
      /\ (Timed(node[n]) => Timed(o.state))
  BY <1>2, RequestProper
<1>4. TypeOK' /\ node' = [node EXCEPT ![n] = o.state]
  BY <1>1, <1>2, <1>3, BecomeType
<1> QED BY <1>2, <1>3, <1>4, SameDataStep DEF Step, NodeSteps

\* A message that is ignored changes no node.
LEMMA IgnoreStep ==
  ASSUME TypeOK, NEW m \in Node, NEW n \in Node, chan[<<m, n>>] # <<>>, Ignore(m, n)
  PROVE  TypeOK' /\ NodeSteps(n)
BY ReceivedType DEF Ignore, TypeOK, Channels, NodeSteps

\* The step of the action on_uptodate_message.
LEMMA UptodateStep ==
  ASSUME TypeOK, NEW m \in Node, NEW n \in Node, on_uptodate_message(m, n)
  PROVE  TypeOK' /\ NodeSteps(n)
<1> DEFINE s == [node[n] EXCEPT !.timer = FALSE]
<1>1. chan[<<m, n>>] # <<>> /\ node[n] \in NodeState
  BY DEF on_uptodate_message, Arrives, TypeOK
<1>2. s \in NodeState /\ SameData(node[n], s) /\ s.sync = node[n].sync
  BY <1>1 DEF NodeState, SameData
<1>3. CASE m # node[n].contacted_node_id
  BY <1>1, <1>3, IgnoreStep DEF on_uptodate_message
<1>4. CASE m = node[n].contacted_node_id
  <2>1. \E o \in request_state_update_next(n, s) : Become(n, o, Received(m, n))
    BY <1>4 DEF on_uptodate_message
  <2>2. Timed(node[n]) => s.sync = "synchronizing"
    BY <1>2, <1>4, NodeAssumption DEF Timed
  <2> QED BY <1>1, <1>2, <2>1, <2>2, ReceivedType, SameDataStep, NextStep
<1> QED BY <1>3, <1>4

\* The step of the action on_node_is_busy.
LEMMA BusyStep ==
  ASSUME TypeOK, NEW m \in Node, NEW n \in Node, on_node_is_busy(m, n)
  PROVE  TypeOK' /\ NodeSteps(n)
<1> DEFINE s == [node[n] EXCEPT !.timer = FALSE]
           t == fail_node(s, m)
<1>1. chan[<<m, n>>] # <<>> /\ node[n] \in NodeState
  BY DEF on_node_is_busy, Arrives, TypeOK
<1>2. s \in NodeState /\ SameData(node[n], s) /\ s.sync = node[n].sync
  BY <1>1 DEF NodeState, SameData
<1>3. t \in NodeState /\ SameData(node[n], t) /\ t.sync = node[n].sync
  <2> HIDE DEF s
  <2>1. t \in NodeState /\ SameData(s, t) /\ t.sync = s.sync
    BY <1>2, HelperTypes DEF NodeOrNone
  <2> QED BY <1>2, <2>1 DEF SameData
<1>4. CASE m # node[n].contacted_node_id
  BY <1>1, <1>4, IgnoreStep DEF on_node_is_busy
<1>5. CASE m = node[n].contacted_node_id
  <2>1. \E o \in request_state_update_next(n, t) : Become(n, o, Received(m, n))
    BY <1>5 DEF on_node_is_busy
  <2>2. Timed(node[n]) => t.sync = "synchronizing"
    BY <1>3, <1>5, NodeAssumption DEF Timed
  <2> QED BY <1>1, <1>3, <2>1, <2>2, ReceivedType, SameDataStep, NextStep
<1> QED BY <1>4, <1>5

\* The step of the action on_state_update_node_timeout.
LEMMA TimeoutStep ==
  ASSUME TypeOK, NEW n \in Node, on_state_update_node_timeout(n)
  PROVE  TypeOK' /\ NodeSteps(n)
<1> DEFINE s == [node[n] EXCEPT !.timer = FALSE]
           t == IF s.updating THEN aergolite_cancel_state_update(s) ELSE s
           u == fail_node(t, s.contacted_node_id)
<1>1. node[n] \in NodeState /\ chan \in Channels
  BY DEF TypeOK, Channels
<1>2. s \in NodeState /\ SameData(node[n], s) /\ s.sync = node[n].sync
  BY <1>1 DEF NodeState, SameData
<1>3. t \in NodeState /\ DataStep(node[n], t) /\ t.sync = node[n].sync
  <2>1. aergolite_cancel_state_update(s) \in NodeState
    BY <1>2, PageSetType DEF aergolite_cancel_state_update, NodeState
  <2>2. DataStep(node[n], aergolite_cancel_state_update(s))
        /\ aergolite_cancel_state_update(s).sync = node[n].sync
    BY <1>2 DEF aergolite_cancel_state_update, NodeState, DataStep, SameData
  <2> QED BY <1>1, <1>2, <2>1, <2>2, SameDataStep
<1>4. u \in NodeState /\ SameData(t, u) /\ u.sync = node[n].sync
  <2>1. s.contacted_node_id \in NodeOrNone
    BY <1>2 DEF NodeState, NodeOrNone
  <2> QED BY <1>3, <2>1, HelperTypes
<1>5. DataStep(node[n], u)
  BY <1>3, <1>4 DEF DataStep, SameData
<1>6. \E o \in request_state_update_next(n, u) : Become(n, o, chan)
  BY DEF on_state_update_node_timeout
<1>7. Timed(node[n]) => u.sync = "synchronizing"
  BY <1>4 DEF on_state_update_node_timeout, Timed, TimerPhase
<1> QED BY <1>1, <1>4, <1>5, <1>6, <1>7, NextStep

\* An update that fails rolls its pages back and goes on to the next peer.
LEMMA FailedStep ==
  ASSUME TypeOK, NEW m \in Node, NEW n \in Node, chan[<<m, n>>] # <<>>,
         NEW hashes \in [Page -> Height],
         "load" \notin Faults => hashes \in {node[n].hashes, State(node[n].height)},
         node[n].sync = "synchronizing",
         update_failed(m, n, [node[n] EXCEPT !.hashes = hashes])
  PROVE  TypeOK' /\ NodeSteps(n)
<1> DEFINE s == [node[n] EXCEPT !.hashes = hashes]
           t == [s EXCEPT !.updating = FALSE, !.received = NoPages, !.timer = FALSE]
           u == fail_node(t, m)
<1>1. node[n] \in NodeState
  BY DEF TypeOK
<1>2. /\ t \in NodeState /\ t.sync = node[n].sync /\ t.height = node[n].height
      /\ t.db = node[n].db /\ t.block = node[n].block /\ t.hashes = hashes
  BY <1>1, PageSetType DEF NodeState
<1>3. u \in NodeState /\ SameData(t, u) /\ u.sync = t.sync
  BY <1>2, HelperTypes DEF NodeOrNone
<1>4. "load" \notin Faults => DataStep(node[n], u)
  BY <1>2, <1>3 DEF DataStep, SameData
<1>5. \E o \in request_state_update_next(n, u) : Become(n, o, Received(m, n))
  BY DEF update_failed
<1> QED BY <1>2, <1>3, <1>4, <1>5, ReceivedType, NextStep

\* The step of the action on_update_db_page.
LEMMA PageStep ==
  ASSUME TypeOK, NEW m \in Node, NEW n \in Node, on_update_db_page(m, n)
  PROVE  TypeOK' /\ NodeSteps(n)
<1> DEFINE s == node[n]
           msg == Head(chan[<<m, n>>])
           pages == [p \in DOMAIN s.received \cup {msg.pgno} |->
                       IF p = msg.pgno THEN msg.data ELSE s.received[p]]
           t == [s EXCEPT !.updating = TRUE, !.timer = TRUE, !.received = pages]
<1>1. chan[<<m, n>>] # <<>> /\ s \in NodeState /\ msg \in Message /\ msg.cmd = "page"
  BY ReceivedType DEF on_update_db_page, Arrives, TypeOK
<1>2. msg.pgno \in Page /\ msg.data \in Height
  BY <1>1 DEF Message, UpToDate, Busy
<1>3. pages \in PageSet
  <2>1. s.received \in PageSet
    BY <1>1 DEF NodeState
  <2>2. DOMAIN s.received \in SUBSET Page /\ s.received \in [DOMAIN s.received -> Height]
    BY <2>1, PageSetType
  <2>3. pages \in [DOMAIN s.received \cup {msg.pgno} -> Height]
    BY <1>2, <2>2
  <2>4. DOMAIN s.received \cup {msg.pgno} \in SUBSET Page
    BY <1>2, <2>2
  <2> QED BY <2>3, <2>4, PageSetType
<1>4. t \in NodeState /\ DataStep(s, t) /\ t.sync = s.sync /\ t.timer
      /\ t.contacted_node_id = s.contacted_node_id
  <2> HIDE DEF pages
  <2> QED BY <1>1, <1>3 DEF NodeState, DataStep
<1>5. CASE Outdated(m, n, msg)
  BY <1>1, <1>5, IgnoreStep DEF on_update_db_page
<1>6. CASE ~ Outdated(m, n, msg) /\ Become(n, Outcome(t, NoNode), Received(m, n))
  <2>1. Timed(t)
    BY <1>4, <1>6 DEF Timed, Outdated
  <2>2. TypeOK' /\ node' = [node EXCEPT ![n] = t]
    <3> HIDE DEF t
    <3>1. Outcome(t, NoNode).state = t /\ Outcome(t, NoNode).to = NoNode
      BY DEF Outcome
    <3> QED BY <1>1, <1>4, <1>6, <3>1, ReceivedType, BecomeType DEF NodeOrNone
  <2> QED BY <1>4, <2>1, <2>2 DEF Step, NodeSteps
<1>7. CASE ~ Outdated(m, n, msg) /\ update_failed(m, n, s)
  <2>1. s = [s EXCEPT !.hashes = s.hashes] /\ s.hashes \in [Page -> Height]
    BY <1>1 DEF NodeState
  <2>2. s.sync = "synchronizing"
    BY <1>7 DEF Outdated
  <2> QED BY <1>1, <1>7, <2>1, <2>2, FailedStep
<1>8. \/ Outdated(m, n, msg)
      \/ Become(n, Outcome(t, NoNode), Received(m, n))
      \/ update_failed(m, n, s)
  BY DEF on_update_db_page
<1> QED BY <1>5, <1>6, <1>7, <1>8

\* The step of the action on_apply_state_update: the only one that moves the
\* database of a node to a later block of the network.
LEMMA ApplyStep ==
  ASSUME TypeOK, NEW m \in Node, NEW n \in Node, on_apply_state_update(m, n)
  PROVE  TypeOK' /\ NodeSteps(n)
<1> DEFINE s == node[n]
           msg == Head(chan[<<m, n>>])
           t == [s EXCEPT !.db = Overlay(s.received, s.db), !.height = msg.height,
                          !.hashes = Overlay(s.received, s.hashes),
                          !.updating = FALSE, !.received = NoPages, !.timer = FALSE]
           done == [t EXCEPT !.block = msg.height]
           lost == [fail_node(t, m) EXCEPT !.block = 0, !.sync = "unknown"]
<1>1. chan[<<m, n>>] # <<>> /\ s \in NodeState /\ msg \in Message /\ msg.cmd = "apply"
  BY ReceivedType DEF on_apply_state_update, Arrives, TypeOK
<1>2. msg.height \in Height
  BY <1>1 DEF Message, UpToDate, Busy
<1>3. s.received \in PageSet /\ Overlay(s.received, s.db) \in [Page -> Height]
      /\ Overlay(s.received, s.hashes) \in [Page -> Height]
  BY <1>1, OverlayType DEF NodeState
<1> HIDE DEF msg
<1>4. CASE Outdated(m, n, msg) \/ ~ s.updating
  BY <1>1, <1>4, IgnoreStep DEF on_apply_state_update, msg
<1>5. CASE ~ Outdated(m, n, msg) /\ PagesMatch(s, msg)
           /\ \E o \in request_state_update_next(n, done) : Become(n, o, Received(m, n))
  <2>1. done \in NodeState /\ done.sync = s.sync
    BY <1>1, <1>2, <1>3, PageSetType DEF NodeState
  <2>2. s.sync = "synchronizing" /\ msg.height > s.block
    BY <1>1, <1>2, <1>5, HeightAssumption DEF Outdated, NodeState, Height
  <2>3. DataStep(s, done)
    <3>1. /\ done.height = msg.height /\ done.block = msg.height
          /\ done.db = Overlay(s.received, s.db) /\ done.hashes = Overlay(s.received, s.hashes)
      BY <1>1 DEF NodeState
    <3>2. done.hashes = State(msg.height)
      BY <1>5, <3>1 DEF PagesMatch
    <3> QED BY <1>2, <1>3, <2>2, <3>1, <3>2 DEF DataStep
  <2> HIDE DEF done
  <2> QED BY <1>1, <1>5, <2>1, <2>2, <2>3, ReceivedType, NextStep
<1>6. CASE ~ Outdated(m, n, msg)
           /\ \E hashes \in HashesAfterFailure(s) :
                update_failed(m, n, [s EXCEPT !.hashes = hashes])
  <2>1. PICK hashes \in HashesAfterFailure(s) : update_failed(m, n, [s EXCEPT !.hashes = hashes])
    BY <1>6
  <2>2. hashes \in [Page -> Height]
    BY <1>1, HashesType
  <2>3. "load" \notin Faults => hashes \in {s.hashes, State(s.height)}
    BY DEF HashesAfterFailure
  <2>4. s.sync = "synchronizing"
    BY <1>6 DEF Outdated
  <2> QED BY <1>1, <2>1, <2>2, <2>3, <2>4, FailedStep
<1>7. CASE ~ Outdated(m, n, msg) /\ PagesMatch(s, msg) /\ "nomem" \in Faults
           /\ \E o \in request_state_update_next(n, lost) : Become(n, o, Received(m, n))
  <2>1. /\ t \in NodeState /\ t.height = msg.height
        /\ t.db = Overlay(s.received, s.db) /\ t.hashes = Overlay(s.received, s.hashes)
    BY <1>1, <1>2, <1>3, PageSetType DEF NodeState
  <2>2. fail_node(t, m) \in NodeState /\ SameData(t, fail_node(t, m))
    <3> HIDE DEF t
    <3> QED BY <2>1, HelperTypes DEF NodeOrNone
  <2>3. /\ lost \in NodeState /\ lost.height = fail_node(t, m).height /\ lost.block = 0
        /\ lost.db = fail_node(t, m).db /\ lost.hashes = fail_node(t, m).hashes
    <3> DEFINE f == fail_node(t, m)
    <3> HIDE DEF f
    <3>1. /\ [f EXCEPT !.block = 0, !.sync = "unknown"].height = f.height
          /\ [f EXCEPT !.block = 0, !.sync = "unknown"].block = 0
          /\ [f EXCEPT !.block = 0, !.sync = "unknown"].db = f.db
          /\ [f EXCEPT !.block = 0, !.sync = "unknown"].hashes = f.hashes
          /\ [f EXCEPT !.block = 0, !.sync = "unknown"] \in NodeState
      <4>1. f \in NodeState
        BY <2>2 DEF f
      <4>2. 0 \in Height
        BY HeightAssumption DEF Height
      <4> QED BY <4>1, <4>2 DEF NodeState, DbState
    <3> QED BY <3>1 DEF f
  <2>4. msg.height > s.block
    BY <1>1, <1>2, <1>7, HeightAssumption DEF Outdated, NodeState, Height
  <2>5. t.hashes = State(msg.height)
    BY <1>7, <2>1 DEF PagesMatch
  <2> HIDE DEF t, lost
  <2>6. DataStep(s, lost)
    BY <1>2, <1>3, <1>7, <2>1, <2>2, <2>3, <2>4, <2>5 DEF DataStep, SameData
  <2> QED BY <1>1, <1>7, <2>3, <2>6, ReceivedType, NextStep
<1>8. \/ Outdated(m, n, msg) \/ ~ s.updating
      \/ PagesMatch(s, msg)
         /\ \E o \in request_state_update_next(n, done) : Become(n, o, Received(m, n))
      \/ \E hashes \in HashesAfterFailure(s) :
           update_failed(m, n, [s EXCEPT !.hashes = hashes])
      \/ PagesMatch(s, msg) /\ "nomem" \in Faults
         /\ \E o \in request_state_update_next(n, lost) : Become(n, o, Received(m, n))
  BY DEF on_apply_state_update, msg
<1> QED BY <1>4, <1>5, <1>6, <1>7, <1>8

-----------------------------------------------------------------------------
(* The serving side *)

\* The pages that are sent are the modified ones.
LEMMA PageOrderType ==
  ASSUME NEW S \in SUBSET Page
  PROVE  Cardinality(S) \in Nat /\ \A i \in 1 .. Cardinality(S) : PageOrder(S)[i] \in S
<1>1. IsFiniteSet(S)
  BY WritesAssumption, FS_Subset
<1>2. Cardinality(S) \in Nat /\ ExistsBijection(1 .. Cardinality(S), S)
  BY <1>1, FS_CardinalityType
<1>3. \E f \in [1 .. Cardinality(S) -> S] : IsInjective(f)
  BY <1>2 DEF ExistsBijection, Bijection, Injection
<1>4. PageOrder(S) \in [1 .. Cardinality(S) -> S]
  BY <1>3 DEF PageOrder, SetToSeq
<1> QED BY <1>2, <1>4

\* A node answers with messages.
LEMMA AnswerType ==
  ASSUME NEW s \in NodeState, NEW h
  PROVE  Answer(s, h) \in Seq(Message)
<1> DEFINE mod == Modified(h, s.height)
           pages == [i \in 1 .. Cardinality(mod) |->
                       DbPage(s.block, PageOrder(mod)[i], s.db[PageOrder(mod)[i]])]
           versions == [p \in mod |-> Version(p, s.height)]
<1>1. mod \in SUBSET Page /\ s.block \in Height /\ s.height \in Height
      /\ s.db \in [Page -> Height]
  BY DEF Modified, NodeState
<1> HIDE DEF mod
<1>2. Cardinality(mod) \in Nat /\ \A i \in 1 .. Cardinality(mod) : PageOrder(mod)[i] \in Page
  BY <1>1, PageOrderType
<1>3. \A i \in 1 .. Cardinality(mod) : pages[i] \in Message
  BY <1>1, <1>2 DEF DbPage, Message
<1>4. pages \in Seq(Message)
  BY <1>2, <1>3
<1>5. versions \in PageSet
  <2>1. versions \in [mod -> Height]
    BY <1>1, VersionType
  <2> QED BY <1>1, <2>1, PageSetType
<1>6. Apply(s.block, versions) \in Message
  BY <1>1, <1>5 DEF Apply, Message
<1>7. <<UpToDate>> \in Seq(Message) /\ <<Busy>> \in Seq(Message)
  BY DEF Message
<1>8. Append(pages, Apply(s.block, versions)) \in Seq(Message)
  BY <1>4, <1>6
<1> QED BY <1>7, <1>8 DEF Answer, mod

\* The step of the action on_request_state_update of the peer that serves.
LEMMA ServeStep ==
  ASSUME TypeOK, NEW m \in Node, NEW n \in Node, on_request_state_update(m, n)
  PROVE  TypeOK' /\ NodeSteps(n)
<1> DEFINE answer == Answer(node[n], Head(chan[<<m, n>>]).height)
<1>1. node[n] \in NodeState /\ chan[<<m, n>>] # <<>>
  BY DEF TypeOK, on_request_state_update, Arrives
<1>2. answer \in Seq(Message)
  BY <1>1, AnswerType
<1> DEFINE sent == IF "read" \in Faults /\ Len(answer) > 1 THEN 0 .. Len(answer)
                   ELSE {Len(answer)}
<1>0. \E k \in sent :
        chan' = [Received(m, n) EXCEPT ![<<n, m>>] = @ \o SubSeq(answer, 1, k)]
  BY DEF on_request_state_update
<1> HIDE DEF answer
<1>3. PICK k \in 0 .. Len(answer) :
        chan' = [Received(m, n) EXCEPT ![<<n, m>>] = @ \o SubSeq(answer, 1, k)]
  <2>1. Len(answer) \in Nat
    BY <1>2
  <2>2. sent \subseteq 0 .. Len(answer)
    BY <2>1
  <2> QED BY <1>0, <2>2
<1>4. SubSeq(answer, 1, k) \in Seq(Message)
  BY <1>2, SubSeqProperties
<1>5. Received(m, n) \in Channels
  BY <1>1, ReceivedType
<1>6. chan' \in Channels
  BY <1>3, <1>4, <1>5 DEF Channels
<1> QED BY <1>6 DEF TypeOK, Channels, NodeSteps, on_request_state_update

-----------------------------------------------------------------------------
(* What else happens to a node *)

\* A node that starts has its database, and no timer.
LEMMA StartedType ==
  ASSUME NEW h \in Height, NEW db \in [Page -> Height], NEW loaded \in BOOLEAN
  PROVE  LET s == Started(h, db, loaded)
         IN /\ s \in NodeState /\ Timed(s) /\ s.height = h /\ s.db = db
            /\ loaded => (s.block = h /\ s.hashes = State(h))
<1> DEFINE s == [sync |-> IF loaded THEN "unknown" ELSE "error", block |-> 0, height |-> h,
                 db |-> db, hashes |-> State(0), received |-> NoPages, updating |-> FALSE,
                 contacted |-> {}, failed |-> {}, contacted_node_id |-> NoNode,
                 timer |-> FALSE, spinning |-> FALSE]
<1>1. 0 \in Height
  BY HeightAssumption DEF Height
<1>2. s \in NodeState
  BY <1>1, StateType, PageSetType DEF NodeState, DbState
<1>3. load_current_state(s) \in NodeState
  <2>1. s.height \in Height /\ State(s.height) \in [Page -> Height] /\ "error" \in DbState
    BY <1>2, StateType DEF NodeState, DbState
  <2> HIDE DEF s
  <2>2. [s EXCEPT !.sync = "error"] \in NodeState
    BY <1>2, <2>1 DEF NodeState
  <2>3. [s EXCEPT !.block = s.height, !.hashes = State(s.height)] \in NodeState
    BY <1>2, <2>1 DEF NodeState
  <2> QED BY <2>2, <2>3 DEF load_current_state
<1>4. Started(h, db, loaded) = IF loaded THEN load_current_state(s) ELSE s
  BY DEF Started
<1>5. Timed(s) /\ Timed(load_current_state(s))
  BY DEF Timed, load_current_state
<1>6. s.height = h /\ s.db = db /\ load_current_state(s).height = h
      /\ load_current_state(s).db = db
  BY DEF load_current_state
<1>7. load_current_state(s).block = h /\ load_current_state(s).hashes = State(h)
  BY DEF load_current_state
<1> QED BY <1>2, <1>3, <1>4, <1>5, <1>6, <1>7

\* The step of the action plugin_init, a crash and a restart.
LEMMA RestartStep ==
  ASSUME TypeOK, NEW n \in Node, plugin_init(n)
  PROVE  TypeOK' /\ NodeSteps(n)
<1>1. PICK loaded \in LoadResults :
        node' = [node EXCEPT ![n] = Started(node[n].height, node[n].db, loaded)]
  BY DEF plugin_init
<1> DEFINE t == Started(node[n].height, node[n].db, loaded)
<1>2. node[n].height \in Height /\ node[n].db \in [Page -> Height] /\ loaded \in BOOLEAN
      /\ ("load" \notin Faults => loaded)
  BY DEF TypeOK, NodeState, LoadResults
<1>3. /\ t \in NodeState /\ Timed(t) /\ t.height = node[n].height /\ t.db = node[n].db
      /\ loaded => (t.block = node[n].height /\ t.hashes = State(node[n].height))
  BY <1>2, StartedType
<1>4. "load" \notin Faults => DataStep(node[n], t)
  BY <1>2, <1>3 DEF DataStep
<1>5. chan' \in Channels
  <2>1. \A c \in Node \X Node : chan[c] \in Seq(Message) /\ <<>> \in Seq(Message)
    BY DEF TypeOK
  <2> QED BY <2>1 DEF plugin_init, Channels
<1>6. peers' \subseteq Node \X Node /\ closing' \subseteq peers'
  BY DEF plugin_init, TypeOK
<1> HIDE DEF t
<1>7. node' = [node EXCEPT ![n] = t]
  BY <1>1 DEF t
<1> QED BY <1>3, <1>4, <1>5, <1>6, <1>7 DEF TypeOK, Channels, NodeSteps, Step

\* The step of the action process_transactions_timer_cb.
LEMMA TimerStep ==
  ASSUME TypeOK, NEW n \in Node, process_transactions_timer_cb(n)
  PROVE  TypeOK' /\ NodeSteps(n)
<1> DEFINE s == node[n]
<1>0. PICK loaded \in LoadResults :
        \E o \in start_downstream_db_sync(n, loaded) : Become(n, o, chan)
  BY DEF process_transactions_timer_cb
<1>1. PICK o \in start_downstream_db_sync(n, loaded) : Become(n, o, chan)
  BY <1>0
<1>2. s \in NodeState /\ chan \in Channels /\ s.sync # "synchronizing" /\ ~ s.spinning
  BY DEF TypeOK, Channels, process_transactions_timer_cb, TimerPhase
<1>3. loaded \in BOOLEAN
  BY DEF LoadResults
<1>4. CASE s.block = 0 /\ (s.height > 0 \/ ~ loaded)
  <2> DEFINE t == IF loaded THEN load_current_state(s) ELSE s
             u == [t EXCEPT !.sync = "error"]
  <2>1. load_current_state(s) \in NodeState
    BY <1>2, StateType DEF load_current_state, NodeState, DbState
  <2>2. /\ t.height = s.height /\ t.db = s.db /\ t.block \in {s.block, s.height}
        /\ t.hashes \in {s.hashes, State(s.height)} /\ t.timer = s.timer
        /\ t.contacted_node_id = s.contacted_node_id /\ t.spinning = s.spinning
    BY <1>2 DEF load_current_state, NodeState
  <2>3. t \in NodeState
    BY <1>2, <2>1
  <2> HIDE DEF t
  <2>4. /\ u \in NodeState /\ u.sync = "error"
        /\ u.height = t.height /\ u.db = t.db /\ u.block = t.block /\ u.hashes = t.hashes
        /\ u.timer = t.timer /\ u.contacted_node_id = t.contacted_node_id
        /\ u.spinning = t.spinning
    BY <2>3 DEF NodeState, DbState
  <2>5. o = Outcome(u, NoNode)
    BY <1>4, <1>1 DEF start_downstream_db_sync, t
  <2> HIDE DEF u
  <2>6. o.state = u /\ o.to = NoNode
    BY <2>5 DEF Outcome
  <2>7. DataStep(s, u)
    BY <2>2, <2>4 DEF DataStep
  <2>8. Timed(s) => Timed(u)
    BY <1>2, <2>2, <2>4 DEF Timed
  <2>9. TypeOK' /\ node' = [node EXCEPT ![n] = u]
    BY <1>1, <1>2, <2>4, <2>6, BecomeType DEF NodeOrNone
  <2> QED BY <2>4, <2>7, <2>8, <2>9 DEF Step, NodeSteps
<1>5. CASE ~ (s.block = 0 /\ (s.height > 0 \/ ~ loaded))
  <2>1. o \in request_state_update(n, s)
    BY <1>5 DEF start_downstream_db_sync
  <2> QED BY <1>1, <2>1, RequestStep
<1> QED BY <1>4, <1>5

\* The step of the action commit_block of the consensus.
LEMMA CommitStep ==
  ASSUME TypeOK, NEW n \in Node, commit_block(n)
  PROVE  TypeOK' /\ NodeSteps(n)
<1> DEFINE s == node[n]
           h == s.height + 1
           written == [p \in Writes(h) |-> h]
           t == [s EXCEPT !.block = h, !.height = h,
                          !.hashes = Overlay(written, s.hashes),
                          !.db = Overlay(written, s.db)]
<1>1. s \in NodeState
  BY DEF TypeOK
<1>2. h \in Height /\ h > s.block
  BY <1>1, HeightAssumption DEF commit_block, NodeState, Height
<1> HIDE DEF h
<1>3. written \in PageSet
  <2>1. Writes(h) \in SUBSET Page /\ written \in [Writes(h) -> Height]
    BY <1>2, WritesAssumption
  <2> QED BY <2>1, PageSetType
<1>4. Overlay(written, s.hashes) = State(h) /\ node' = [node EXCEPT ![n] = t]
      /\ UNCHANGED <<chan, peers, closing>>
  BY DEF commit_block, h
<1> HIDE DEF written
<1>5. Overlay(written, s.hashes) \in [Page -> Height] /\ Overlay(written, s.db) \in [Page -> Height]
  BY <1>1, <1>3, OverlayType DEF NodeState
<1>6. /\ t \in NodeState /\ t.height = h /\ t.block = h
      /\ t.db = Overlay(written, s.db) /\ t.hashes = Overlay(written, s.hashes)
      /\ t.timer = s.timer /\ t.sync = s.sync /\ t.spinning = s.spinning
      /\ t.contacted_node_id = s.contacted_node_id
  BY <1>1, <1>2, <1>5 DEF NodeState
<1> HIDE DEF t
<1>7. DataStep(s, t)
  BY <1>2, <1>3, <1>4, <1>6 DEF DataStep
<1>8. Timed(s) => Timed(t)
  BY <1>6 DEF Timed
<1> QED BY <1>4, <1>6, <1>7, <1>8 DEF TypeOK, Step, NodeSteps

\* The step of a block that could not be verified.
LEMMA VerifyStep ==
  ASSUME TypeOK, NEW n \in Node, verify_failed(n)
  PROVE  TypeOK' /\ NodeSteps(n)
<1> DEFINE s == node[n]
           t == [s EXCEPT !.sync = "outdated"]
<1>1. s \in NodeState /\ s.sync # "synchronizing" /\ node' = [node EXCEPT ![n] = t]
      /\ UNCHANGED <<chan, peers, closing>>
  BY DEF TypeOK, verify_failed
<1>2. /\ t \in NodeState /\ SameData(s, t) /\ t.sync = "outdated" /\ t.timer = s.timer
      /\ t.spinning = s.spinning /\ t.contacted_node_id = s.contacted_node_id
  BY <1>1 DEF NodeState, DbState, SameData
<1> HIDE DEF t
<1>3. Timed(s) => Timed(t)
  BY <1>1, <1>2 DEF Timed
<1> QED BY <1>1, <1>2, <1>3, SameDataStep DEF TypeOK, Step, NodeSteps

\* The steps of the connections change no node.
LEMMA ConnectionStep ==
  ASSUME TypeOK, NEW m \in Node, NEW n \in Node,
         connection_dropped(m, n) \/ worker_thread_on_close(n, m) \/ connected_again(m, n)
  PROVE  TypeOK' /\ node' = node
<1>1. CASE connection_dropped(m, n)
  <2>1. <<>> \in Seq(Message)
    OBVIOUS
  <2>2. chan' \in Channels
    BY <1>1, <2>1 DEF connection_dropped, TypeOK, Channels
  <2> QED BY <1>1, <2>2 DEF connection_dropped, TypeOK, Channels
<1>2. CASE worker_thread_on_close(n, m)
  BY <1>2 DEF worker_thread_on_close, TypeOK
<1>3. CASE connected_again(m, n)
  BY <1>3 DEF connected_again, TypeOK
<1> QED BY <1>1, <1>2, <1>3

\* Every step is a step of one node.
LEMMA SystemStep ==
  ASSUME TypeOK, Next
  PROVE  TypeOK' /\ \E n \in Node : NodeSteps(n)
<1>1. ASSUME NEW m \in Node, NEW n \in Node, Deliver(m, n)
      PROVE  TypeOK' /\ NodeSteps(n)
  BY <1>1, ServeStep, PageStep, ApplyStep, UptodateStep, BusyStep DEF Deliver
<1>2. ASSUME NEW m \in Node, NEW n \in Node, on_future_block(m, n)
      PROVE  TypeOK' /\ NodeSteps(n)
  BY <1>2, RequestStep DEF on_future_block
<1>3. ASSUME NEW m \in Node, NEW n \in Node,
             connection_dropped(m, n) \/ worker_thread_on_close(n, m) \/ connected_again(m, n)
      PROVE  TypeOK' /\ NodeSteps(n)
  BY <1>3, ConnectionStep DEF NodeSteps
<1> QED BY <1>1, <1>2, <1>3, TimerStep, TimeoutStep, CommitStep, VerifyStep, RestartStep
        DEF Next

-----------------------------------------------------------------------------
(* The answers on their way *)

\* Message x neither ends an update nor takes a peer for done.
Passing(x) == x.cmd \in {"page", "request"}

\* The pages of an answer are followed by the apply message of their block.
Answered(q) ==
  \A i \in 1 .. Len(q) : q[i].cmd = "page" =>
    \E j \in i + 1 .. Len(q) : /\ q[j].cmd = "apply" /\ q[j].height = q[i].height
                               /\ \A k \in i + 1 .. j - 1 : Passing(q[k])

\* The end of an answer to height h, or the rest of one, comes next in q.
Due(q, h) ==
  \E j \in 1 .. Len(q) : /\ q[j].cmd = "apply" /\ q[j].height = h
                         /\ \A k \in 1 .. j - 1 : Passing(q[k])

OnlyRequests(q) == \A i \in 1 .. Len(q) : q[i].cmd = "request"
NoRequest(q) == \A i \in 1 .. Len(q) : q[i].cmd # "request"

\* What a node at block b that is writing pages has to expect in the messages q
\* from the peer, when r are its messages to the peer: the end of the update, or,
\* after the connection dropped, nothing.
Expected(b, q, r) ==
  \/ \E h \in Height : h > b /\ Due(q, h)
  \/ OnlyRequests(q) /\ NoRequest(r)

\* Node n in state s, with the messages in flight ch, that is writing pages has a
\* timer and waits for a peer that will end the update or say nothing.
Supervised(s, ch, n) ==
  s.updating =>
    /\ s.timer /\ s.contacted_node_id \in Node
    /\ Expected(s.block, ch[<<s.contacted_node_id, n>>], ch[<<n, s.contacted_node_id>>])

QueuesInv ==
  /\ \A i, j \in Node : Answered(chan[<<i, j>>])
  /\ \A n \in Node : Supervised(node[n], chan, n)

\* The elements of a queue after its head is removed.
LEMMA TailElements ==
  ASSUME NEW q \in Seq(Message), q # <<>>
  PROVE  /\ Tail(q) \in Seq(Message) /\ Len(q) \in Nat /\ Len(q) > 0
         /\ Len(Tail(q)) = Len(q) - 1 /\ Head(q) = q[1]
         /\ \A i \in 1 .. Len(Tail(q)) : Tail(q)[i] = q[i + 1]
BY HeadTailProperties

\* The elements of a queue that is extended.
LEMMA ConcatElements ==
  ASSUME NEW q \in Seq(Message), NEW a \in Seq(Message)
  PROVE  /\ q \o a \in Seq(Message) /\ Len(q) \in Nat /\ Len(a) \in Nat
         /\ Len(q \o a) = Len(q) + Len(a)
         /\ \A i \in 1 .. Len(q) : (q \o a)[i] = q[i]
         /\ \A i \in 1 .. Len(a) : (q \o a)[Len(q) + i] = a[i]
BY ConcatProperties

\* A message that passes leaves the end of the answer due.
LEMMA DueTail ==
  ASSUME NEW q \in Seq(Message), q # <<>>, NEW h, Due(q, h)
  PROVE  \/ Passing(Head(q)) /\ Due(Tail(q), h)
         \/ Head(q).cmd = "apply" /\ Head(q).height = h
<1>1. PICK j \in 1 .. Len(q) : /\ q[j].cmd = "apply" /\ q[j].height = h
                               /\ \A k \in 1 .. j - 1 : Passing(q[k])
  BY DEF Due
<1>2. CASE j = 1
  BY <1>1, <1>2, TailElements
<1>3. CASE j # 1
  <2>1. Passing(q[1]) /\ j - 1 \in 1 .. Len(Tail(q)) /\ Tail(q)[j - 1] = q[j]
    BY <1>1, <1>3, TailElements
  <2>2. ASSUME NEW k \in 1 .. (j - 1) - 1
        PROVE  Passing(Tail(q)[k])
    <3>1. k \in 1 .. Len(Tail(q)) /\ k + 1 \in 1 .. j - 1
      BY <2>1
    <3> QED BY <1>1, <3>1, TailElements
  <2> QED BY <1>1, <2>1, <2>2, TailElements DEF Due
<1> QED BY <1>2, <1>3

\* What comes later leaves the end of an answer due.
LEMMA DueConcat ==
  ASSUME NEW q \in Seq(Message), NEW a \in Seq(Message), NEW h, Due(q, h)
  PROVE  Due(q \o a, h)
<1>1. PICK j \in 1 .. Len(q) : /\ q[j].cmd = "apply" /\ q[j].height = h
                               /\ \A k \in 1 .. j - 1 : Passing(q[k])
  BY DEF Due
<1>2. j \in 1 .. Len(q \o a) /\ (q \o a)[j] = q[j]
  BY ConcatElements
<1>3. \A k \in 1 .. j - 1 : (q \o a)[k] = q[k]
  BY ConcatElements
<1> QED BY <1>1, <1>2, <1>3 DEF Due

\* A queue of whole answers stays one when its head is read; after a page the
\* apply message is due.
LEMMA AnsweredTail ==
  ASSUME NEW q \in Seq(Message), q # <<>>, Answered(q)
  PROVE  /\ Answered(Tail(q))
         /\ Head(q).cmd = "page" => Due(Tail(q), Head(q).height)
<1>1. ASSUME NEW i \in 1 .. Len(q), q[i].cmd = "page"
      PROVE  \E j \in i .. Len(Tail(q)) :
               /\ Tail(q)[j].cmd = "apply" /\ Tail(q)[j].height = q[i].height
               /\ \A k \in i .. j - 1 : Passing(Tail(q)[k])
  <2>1. PICK j \in i + 1 .. Len(q) : /\ q[j].cmd = "apply" /\ q[j].height = q[i].height
                                     /\ \A k \in i + 1 .. j - 1 : Passing(q[k])
    BY <1>1 DEF Answered
  <2>2. j - 1 \in i .. Len(Tail(q)) /\ Tail(q)[j - 1] = q[j]
    BY TailElements
  <2>3. ASSUME NEW k \in i .. (j - 1) - 1
        PROVE  Passing(Tail(q)[k])
    <3>1. k + 1 \in i + 1 .. j - 1 /\ Tail(q)[k] = q[k + 1]
      BY TailElements
    <3> QED BY <2>1, <3>1
  <2> QED BY <2>1, <2>2, <2>3
<1>2. Answered(Tail(q))
  <2>1. ASSUME NEW i \in 1 .. Len(Tail(q)), Tail(q)[i].cmd = "page"
        PROVE  \E j \in i + 1 .. Len(Tail(q)) :
                 /\ Tail(q)[j].cmd = "apply" /\ Tail(q)[j].height = Tail(q)[i].height
                 /\ \A k \in i + 1 .. j - 1 : Passing(Tail(q)[k])
    <3>1. i + 1 \in 1 .. Len(q) /\ Tail(q)[i] = q[i + 1]
      BY TailElements
    <3> QED BY <1>1, <2>1, <3>1
  <2> QED BY <2>1 DEF Answered
<1>3. ASSUME Head(q).cmd = "page"
      PROVE  Due(Tail(q), Head(q).height)
  <2>1. 1 \in 1 .. Len(q) /\ q[1] = Head(q)
    BY TailElements
  <2>2. \E j \in 1 .. Len(Tail(q)) :
          /\ Tail(q)[j].cmd = "apply" /\ Tail(q)[j].height = Head(q).height
          /\ \A k \in 1 .. j - 1 : Passing(Tail(q)[k])
    BY <1>1, <1>3, <2>1
  <2> QED BY <2>2 DEF Due
<1> QED BY <1>2, <1>3

\* Whole answers after each other.
LEMMA AnsweredConcat ==
  ASSUME NEW q \in Seq(Message), NEW a \in Seq(Message), Answered(q), Answered(a)
  PROVE  Answered(q \o a)
<1> DEFINE w == q \o a
           End(i) == \E j \in i + 1 .. Len(w) :
                       /\ w[j].cmd = "apply" /\ w[j].height = w[i].height
                       /\ \A k \in i + 1 .. j - 1 : Passing(w[k])
<1>1. ASSUME NEW i \in 1 .. Len(q), w[i].cmd = "page"
      PROVE  End(i)
  <2>0. w[i] = q[i]
    BY ConcatElements
  <2>1. PICK j \in i + 1 .. Len(q) : /\ q[j].cmd = "apply" /\ q[j].height = q[i].height
                                     /\ \A k \in i + 1 .. j - 1 : Passing(q[k])
    BY <1>1, <2>0 DEF Answered
  <2>2. j \in i + 1 .. Len(w) /\ w[j] = q[j]
    BY ConcatElements
  <2>3. \A k \in i + 1 .. j - 1 : w[k] = q[k]
    BY ConcatElements
  <2> QED BY <2>0, <2>1, <2>2, <2>3
<1>2. ASSUME NEW i \in 1 .. Len(a), w[Len(q) + i].cmd = "page"
      PROVE  End(Len(q) + i)
  <2>0. w[Len(q) + i] = a[i]
    BY ConcatElements
  <2>1. PICK j \in i + 1 .. Len(a) : /\ a[j].cmd = "apply" /\ a[j].height = a[i].height
                                     /\ \A k \in i + 1 .. j - 1 : Passing(a[k])
    BY <1>2, <2>0 DEF Answered
  <2>2. Len(q) + j \in (Len(q) + i) + 1 .. Len(w) /\ w[Len(q) + j] = a[j]
    BY ConcatElements
  <2>3. ASSUME NEW k \in (Len(q) + i) + 1 .. (Len(q) + j) - 1
        PROVE  Passing(w[k])
    <3>1. k - Len(q) \in i + 1 .. j - 1 /\ k - Len(q) \in 1 .. Len(a)
          /\ Len(q) + (k - Len(q)) = k
      BY ConcatElements
    <3> QED BY <2>1, <3>1, ConcatElements
  <2> QED BY <2>0, <2>1, <2>2, <2>3
<1>3. ASSUME NEW i \in 1 .. Len(w)
      PROVE  \/ i \in 1 .. Len(q)
             \/ i - Len(q) \in 1 .. Len(a) /\ Len(q) + (i - Len(q)) = i
  <2>1. Len(q) \in Nat /\ Len(a) \in Nat /\ Len(w) = Len(q) + Len(a)
    BY ConcatElements
  <2> HIDE DEF w
  <2> QED BY <2>1
<1>4. \A i \in 1 .. Len(w) : w[i].cmd = "page" => End(i)
  BY <1>1, <1>2, <1>3
<1> QED BY <1>4 DEF Answered

\* A request and an empty queue are whole answers.
LEMMA AnsweredRequest ==
  ASSUME NEW h \in Height
  PROVE  /\ <<Request(h)>> \in Seq(Message) /\ Answered(<<Request(h)>>)
         /\ OnlyRequests(<<Request(h)>>)
         /\ Answered(<<>>)
BY DEF Request, Message, Answered, OnlyRequests

\* A node answers with a whole answer, in which there is no request.
LEMMA AnswerAnswered ==
  ASSUME NEW s \in NodeState, NEW h
  PROVE  Answered(Answer(s, h)) /\ NoRequest(Answer(s, h))
<1> DEFINE mod == Modified(h, s.height)
           pages == [i \in 1 .. Cardinality(mod) |->
                       DbPage(s.block, PageOrder(mod)[i], s.db[PageOrder(mod)[i]])]
           last == Apply(s.block, [p \in mod |-> Version(p, s.height)])
           w == Append(pages, last)
<1>1. Cardinality(mod) \in Nat
  <2>1. mod \in SUBSET Page
    BY DEF Modified
  <2> QED BY <2>1, PageOrderType
<1> HIDE DEF mod
<1>2. /\ Len(w) = Cardinality(mod) + 1 /\ w[Cardinality(mod) + 1] = last
      /\ \A i \in 1 .. Cardinality(mod) : w[i] = pages[i]
  BY <1>1
<1>3. \A i \in 1 .. Cardinality(mod) : pages[i].cmd = "page" /\ pages[i].height = s.block
  BY DEF DbPage
<1>4. last.cmd = "apply" /\ last.height = s.block
  BY DEF Apply
<1> HIDE DEF pages, last, w
<1>5. Answered(w)
  <2>1. ASSUME NEW i \in 1 .. Len(w), w[i].cmd = "page"
        PROVE  \E j \in i + 1 .. Len(w) :
                 /\ w[j].cmd = "apply" /\ w[j].height = w[i].height
                 /\ \A k \in i + 1 .. j - 1 : Passing(w[k])
    <3>1. i \in 1 .. Cardinality(mod)
      BY <1>1, <1>2, <1>4, <2>1
    <3>2. w[i].height = s.block
      BY <1>2, <1>3, <3>1
    <3>3. Len(w) \in i + 1 .. Len(w)
      BY <1>1, <1>2, <3>1
    <3>4. \A k \in i + 1 .. Len(w) - 1 : Passing(w[k])
      BY <1>1, <1>2, <1>3, <3>1 DEF Passing
    <3> QED BY <1>2, <1>4, <3>2, <3>3, <3>4
  <2> QED BY <2>1 DEF Answered
<1>6. NoRequest(w)
  BY <1>1, <1>2, <1>3, <1>4 DEF NoRequest
<1>7. /\ Answered(<<UpToDate>>) /\ NoRequest(<<UpToDate>>)
      /\ Answered(<<Busy>>) /\ NoRequest(<<Busy>>)
  BY DEF Answered, NoRequest, UpToDate, Busy
<1>8. Answer(s, h) \in {<<UpToDate>>, <<Busy>>, w}
  BY DEF Answer, w, pages, last, mod
<1> QED BY <1>5, <1>6, <1>7, <1>8

\* What the node expects when it reads the next message of the peer.
LEMMA ExpectedHead ==
  ASSUME NEW b \in Height, NEW q \in Seq(Message), NEW r, q # <<>>, Expected(b, q, r)
  PROVE  \/ Passing(Head(q)) /\ Expected(b, Tail(q), r)
         \/ Head(q).cmd = "apply" /\ Head(q).height > b
<1>1. CASE \E h \in Height : h > b /\ Due(q, h)
  BY <1>1, DueTail DEF Expected
<1>2. CASE OnlyRequests(q) /\ NoRequest(r)
  <2>1. OnlyRequests(Tail(q))
    <3>1. \A i \in 1 .. Len(Tail(q)) : i + 1 \in 1 .. Len(q) /\ Tail(q)[i] = q[i + 1]
      BY TailElements
    <3> QED BY <1>2, <3>1 DEF OnlyRequests
  <2>2. Head(q).cmd = "request"
    <3>1. 1 \in 1 .. Len(q) /\ q[1] = Head(q)
      BY TailElements
    <3> QED BY <1>2, <3>1 DEF OnlyRequests
  <2> QED BY <1>2, <2>1, <2>2 DEF Expected, Passing
<1> QED BY <1>1, <1>2 DEF Expected

\* A request of the peer disappoints no expectation.
LEMMA ExpectedRequest ==
  ASSUME NEW b, NEW q \in Seq(Message), NEW r, NEW h \in Height, Expected(b, q, r)
  PROVE  Expected(b, Append(q, Request(h)), r)
<1> DEFINE a == <<Request(h)>>
<1>1. a \in Seq(Message) /\ OnlyRequests(a) /\ Append(q, Request(h)) = q \o a
  <2>1. Request(h) \in Message
    BY DEF Request, Message
  <2> QED BY <2>1, AnsweredRequest
<1> HIDE DEF a
<1>2. CASE \E k \in Height : k > b /\ Due(q, k)
  BY <1>1, <1>2, DueConcat DEF Expected
<1>3. CASE OnlyRequests(q) /\ NoRequest(r)
  <2>1. OnlyRequests(q \o a)
    <3>1. \A i \in 1 .. Len(q \o a) :
            i \in 1 .. Len(q) \/ (i - Len(q) \in 1 .. Len(a) /\ Len(q) + (i - Len(q)) = i)
      BY <1>1, ConcatElements
    <3> QED BY <1>1, <1>3, <3>1, ConcatElements DEF OnlyRequests
  <2> QED BY <1>1, <1>3, <2>1 DEF Expected
<1> QED BY <1>2, <1>3 DEF Expected

\* Nor what the peer reads, or what the node answers it.
LEMMA ExpectedOther ==
  ASSUME NEW b, NEW q, NEW r \in Seq(Message), Expected(b, q, r)
  PROVE  /\ r # <<>> => Expected(b, q, Tail(r))
         /\ \A a \in Seq(Message) : NoRequest(a) => Expected(b, q, r \o a)
<1>1. CASE \E h \in Height : h > b /\ Due(q, h)
  BY <1>1 DEF Expected
<1>2. CASE OnlyRequests(q) /\ NoRequest(r)
  <2>1. r # <<>> => NoRequest(Tail(r))
    <3>1. r # <<>> => \A i \in 1 .. Len(Tail(r)) : i + 1 \in 1 .. Len(r) /\ Tail(r)[i] = r[i + 1]
      BY TailElements
    <3> QED BY <1>2, <3>1 DEF NoRequest
  <2>2. ASSUME NEW a \in Seq(Message), NoRequest(a)
        PROVE  NoRequest(r \o a)
    <3>1. \A i \in 1 .. Len(r \o a) :
            i \in 1 .. Len(r) \/ (i - Len(r) \in 1 .. Len(a) /\ Len(r) + (i - Len(r)) = i)
      BY ConcatElements
    <3> QED BY <1>2, <2>2, <3>1, ConcatElements DEF NoRequest
  <2> QED BY <1>2, <2>1, <2>2 DEF Expected
<1> QED BY <1>1, <1>2 DEF Expected

\* When the peer still has a request to answer, its answer comes after the end of
\* the one that is expected.
LEMMA ExpectedAnswer ==
  ASSUME NEW b, NEW q \in Seq(Message), NEW r \in Seq(Message), r # <<>>,
         Head(r).cmd = "request", Expected(b, q, r), NEW a \in Seq(Message), NEW x
  PROVE  /\ Expected(b, q \o a, x)
         /\ q = r => Expected(b, Tail(q) \o a, x)
<1>1. ~ NoRequest(r)
  <2>1. 1 \in 1 .. Len(r) /\ r[1] = Head(r)
    BY TailElements
  <2> QED BY <2>1 DEF NoRequest
<1>2. PICK h \in Height : h > b /\ Due(q, h)
  BY <1>1 DEF Expected
<1>3. Expected(b, q \o a, x)
  BY <1>2, DueConcat DEF Expected
<1>4. ASSUME q = r
      PROVE  Expected(b, Tail(q) \o a, x)
  <2>1. Tail(q) \in Seq(Message) /\ Due(Tail(q), h)
    BY <1>2, <1>4, DueTail, TailElements
  <2> QED BY <1>2, <2>1, DueConcat DEF Expected
<1> QED BY <1>3, <1>4

-----------------------------------------------------------------------------
(* The steps and the answers on their way *)

\* The messages in flight are queues of messages.
LEMMA QueueType ==
  ASSUME TypeOK, NEW i \in Node, NEW j \in Node
  PROVE  chan[<<i, j>>] \in Seq(Message)
BY DEF TypeOK

\* The channels after the message at the head of one was read.
LEMMA ReceivedQueues ==
  ASSUME TypeOK, NEW m \in Node, NEW n \in Node, NEW i \in Node, NEW j \in Node
  PROVE  Received(m, n)[<<i, j>>] = IF i = m /\ j = n THEN Tail(chan[<<m, n>>])
                                    ELSE chan[<<i, j>>]
BY DEF Received, TypeOK

\* The channels when node n takes an outcome.
LEMMA BecomeQueues ==
  ASSUME NEW n \in Node, NEW o, o.to \in NodeOrNone, NEW c \in Channels, Become(n, o, c),
         NEW i \in Node, NEW j \in Node
  PROVE  chan'[<<i, j>>] = IF o.to # NoNode /\ i = n /\ j = o.to
                           THEN Append(c[<<i, j>>], Request(o.state.block))
                           ELSE c[<<i, j>>]
BY DEF Become, Channels, NodeOrNone

\* The channels when node n handles a message of m, or none.
Handles(m, n, c) == c = chan \/ (c = Received(m, n) /\ chan[<<m, n>>] # <<>>)

\* Reading a message keeps whole answers whole, and what a node expects that reads
\* nothing itself.
LEMMA HandledQueues ==
  ASSUME TypeOK, QueuesInv, NEW m \in Node, NEW n \in Node, NEW c, Handles(m, n, c)
  PROVE  /\ c \in Channels
         /\ \A i, j \in Node : Answered(c[<<i, j>>])
         /\ \A k \in Node \ {n} : Supervised(node[k], c, k)
<1>1. CASE c = chan
  BY <1>1 DEF QueuesInv, TypeOK, Channels
<1>2. CASE c = Received(m, n) /\ chan[<<m, n>>] # <<>>
  <2>1. c \in Channels
    BY <1>2, ReceivedType
  <2>2. ASSUME NEW i \in Node, NEW j \in Node
        PROVE  Answered(c[<<i, j>>])
    <3>1. c[<<i, j>>] = IF i = m /\ j = n THEN Tail(chan[<<m, n>>]) ELSE chan[<<i, j>>]
      BY <1>2, ReceivedQueues
    <3>2. Answered(chan[<<i, j>>]) /\ Answered(chan[<<m, n>>])
      BY DEF QueuesInv
    <3>3. Answered(Tail(chan[<<m, n>>]))
      BY <1>2, <3>2, QueueType, AnsweredTail
    <3> QED BY <3>1, <3>2, <3>3
  <2>3. ASSUME NEW k \in Node \ {n}, node[k].updating
        PROVE  /\ node[k].timer /\ node[k].contacted_node_id \in Node
               /\ Expected(node[k].block, c[<<node[k].contacted_node_id, k>>],
                           c[<<k, node[k].contacted_node_id>>])
    <3> DEFINE p == node[k].contacted_node_id
               q == chan[<<p, k>>]
               r == chan[<<k, p>>]
    <3>1. node[k].timer /\ p \in Node /\ Expected(node[k].block, q, r)
      BY <2>3 DEF QueuesInv, Supervised
    <3>2. c[<<p, k>>] = q /\ c[<<k, p>>] = IF k = m /\ p = n THEN Tail(r) ELSE r
      BY <1>2, <3>1, ReceivedQueues
    <3>3. r \in Seq(Message) /\ (k = m /\ p = n => r # <<>>)
      BY <1>2, <3>1, QueueType
    <3> HIDE DEF q, r
    <3> QED BY <3>1, <3>2, <3>3, ExpectedOther
  <2> QED BY <2>1, <2>2, <2>3 DEF Supervised
<1> QED BY <1>1, <1>2 DEF Handles

\* When node n takes an outcome, the answers stay whole, and the other nodes
\* expect what they did.
LEMMA BecomeSupervised ==
  ASSUME TypeOK, QueuesInv, NEW m \in Node, NEW n \in Node, NEW c, Handles(m, n, c),
         NEW o, o.state \in NodeState, o.to \in NodeOrNone, Become(n, o, c),
         Supervised(o.state, chan', n)
  PROVE  QueuesInv'
<1>1. /\ c \in Channels
      /\ \A i, j \in Node : Answered(c[<<i, j>>])
      /\ \A k \in Node \ {n} : Supervised(node[k], c, k)
  BY HandledQueues
<1>2. \A k \in Node : node'[k] = IF k = n THEN o.state ELSE node[k]
  BY DEF Become, TypeOK
<1>3. o.state.block \in Height
  BY DEF NodeState
<1> DEFINE h == o.state.block
<1>4. \A i, j \in Node : c[<<i, j>>] \in Seq(Message)
  BY <1>1 DEF Channels
<1>7. ASSUME NEW i \in Node, NEW j \in Node
      PROVE  chan'[<<i, j>>] = IF o.to # NoNode /\ i = n /\ j = o.to
                               THEN Append(c[<<i, j>>], Request(h)) ELSE c[<<i, j>>]
  BY <1>1, BecomeQueues
<1>5. ASSUME NEW i \in Node, NEW j \in Node
      PROVE  Answered(chan'[<<i, j>>])
  <2>1. chan'[<<i, j>>] \in {c[<<i, j>>], Append(c[<<i, j>>], Request(h))}
    BY <1>7
  <2>2. Append(c[<<i, j>>], Request(h)) = c[<<i, j>>] \o <<Request(h)>>
    <3>1. Request(h) \in Message
      BY <1>3 DEF Request, Message
    <3> QED BY <1>4, <3>1
  <2>3. Answered(c[<<i, j>>] \o <<Request(h)>>)
    BY <1>1, <1>3, <1>4, AnsweredRequest, AnsweredConcat
  <2> QED BY <1>1, <2>1, <2>2, <2>3
<1>6. ASSUME NEW k \in Node \ {n}, node[k].updating
      PROVE  /\ node[k].timer /\ node[k].contacted_node_id \in Node
             /\ Expected(node[k].block, chan'[<<node[k].contacted_node_id, k>>],
                         chan'[<<k, node[k].contacted_node_id>>])
  <2> DEFINE p == node[k].contacted_node_id
             q == c[<<p, k>>]
             r == c[<<k, p>>]
  <2>1. node[k].timer /\ p \in Node /\ Expected(node[k].block, q, r)
    BY <1>1, <1>6 DEF Supervised
  <2>2. chan'[<<p, k>>] \in {q, Append(q, Request(h))} /\ chan'[<<k, p>>] = r
    BY <1>7, <2>1
  <2>3. q \in Seq(Message)
    BY <1>4, <2>1
  <2> HIDE DEF q, r
  <2> QED BY <1>3, <2>1, <2>2, <2>3, ExpectedRequest
<1>8. \A k \in Node : Supervised(node'[k], chan', k)
  BY <1>2, <1>6 DEF Supervised
<1> QED BY <1>5, <1>8 DEF QueuesInv

\* A node that asks another peer writes no pages.
LEMMA NextSupervised ==
  ASSUME TypeOK, QueuesInv, NEW m \in Node, NEW n \in Node, NEW c, Handles(m, n, c),
         NEW s \in NodeState, s.updating = FALSE,
         \E o \in request_state_update_next(n, s) : Become(n, o, c)
  PROVE  QueuesInv'
<1>1. PICK o \in request_state_update_next(n, s) : Become(n, o, c)
  OBVIOUS
<1>2. o.state \in NodeState /\ o.to \in NodeOrNone /\ o.state.updating = FALSE
  BY NextProper DEF Proper, SameData
<1> QED BY <1>1, <1>2, BecomeSupervised DEF Supervised

\* A node that is not synchronizing writes no pages.
LEMMA IdleWritesNothing ==
  ASSUME TypeOK, QueuesInv, NEW n \in Node, Timed(node[n]), node[n].sync # "synchronizing"
  PROVE  node[n].updating = FALSE
<1>1. node[n].contacted_node_id = NoNode /\ node[n].updating \in BOOLEAN
  BY DEF Timed, TypeOK, NodeState
<1> QED BY <1>1, NodeAssumption DEF QueuesInv, Supervised

\* A request of a node that is not synchronizing, from its own handler.
LEMMA RequestSupervised ==
  ASSUME TypeOK, QueuesInv, NEW n \in Node, Timed(node[n]), node[n].sync # "synchronizing",
         \E o \in request_state_update(n, node[n]) : Become(n, o, chan)
  PROVE  QueuesInv'
<1>1. PICK o \in request_state_update(n, node[n]) : Become(n, o, chan)
  OBVIOUS
<1>2. node[n] \in NodeState /\ node[n].updating = FALSE
  BY IdleWritesNothing DEF TypeOK
<1>3. o.state \in NodeState /\ o.to \in NodeOrNone /\ o.state.updating = FALSE
  BY <1>2, RequestProper DEF SameData
<1> QED BY <1>1, <1>3, BecomeSupervised DEF Supervised, Handles

\* What a node that writes pages reads next from its peer.
LEMMA SupervisedHead ==
  ASSUME TypeOK, QueuesInv, NEW m \in Node, NEW n \in Node, chan[<<m, n>>] # <<>>,
         node[n].updating, m = node[n].contacted_node_id
  PROVE  LET q == chan[<<m, n>>]
         IN \/ Passing(Head(q)) /\ Expected(node[n].block, Tail(q), chan[<<n, m>>])
            \/ Head(q).cmd = "apply" /\ Head(q).height > node[n].block
<1>1. chan[<<m, n>>] \in Seq(Message) /\ node[n].block \in Height
  BY DEF TypeOK, NodeState
<1>2. Expected(node[n].block, chan[<<m, n>>], chan[<<n, m>>])
  BY DEF QueuesInv, Supervised
<1> QED BY <1>1, <1>2, ExpectedHead

\* A message that is ignored: not the apply message that is expected.
LEMMA IgnoreSupervised ==
  ASSUME TypeOK, QueuesInv, NEW m \in Node, NEW n \in Node, chan[<<m, n>>] # <<>>,
         Ignore(m, n),
         node[n].updating /\ m = node[n].contacted_node_id => Passing(Head(chan[<<m, n>>]))
  PROVE  QueuesInv'
<1> DEFINE c == Received(m, n)
<1>1. chan' = c /\ node' = node /\ Handles(m, n, c)
  BY DEF Ignore, Handles
<1>2. /\ \A i, j \in Node : Answered(c[<<i, j>>])
      /\ \A k \in Node \ {n} : Supervised(node[k], c, k)
  BY <1>1, HandledQueues
<1>3. ASSUME node[n].updating
      PROVE  /\ node[n].timer /\ node[n].contacted_node_id \in Node
             /\ Expected(node[n].block, c[<<node[n].contacted_node_id, n>>],
                         c[<<n, node[n].contacted_node_id>>])
  <2> DEFINE p == node[n].contacted_node_id
             q == chan[<<p, n>>]
             r == chan[<<n, p>>]
  <2>1. node[n].timer /\ p \in Node /\ Expected(node[n].block, q, r)
    BY <1>3 DEF QueuesInv, Supervised
  <2>2. c[<<p, n>>] = IF p = m THEN Tail(q) ELSE q
    BY <2>1, ReceivedQueues
  <2>3. c[<<n, p>>] = IF p = m /\ n = m THEN Tail(r) ELSE r
    BY <2>1, ReceivedQueues
  <2>4. p = m => Expected(node[n].block, Tail(q), r)
    BY <1>3, <2>1, SupervisedHead DEF Passing
  <2>5. r \in Seq(Message) /\ (p = m /\ n = m => r # <<>>)
    BY <2>1, QueueType
  <2> HIDE DEF q, r, c
  <2> QED BY <2>1, <2>2, <2>3, <2>4, <2>5, ExpectedOther
<1>4. \A k \in Node : Supervised(node[k], c, k)
  BY <1>2, <1>3 DEF Supervised
<1> HIDE DEF c
<1> QED BY <1>1, <1>2, <1>4 DEF QueuesInv

\* A step that sends nothing: nodes may end their updates, and connections drop.
LEMMA QuietSupervised ==
  ASSUME QueuesInv,
         \A k \in Node : node'[k] = node[k] \/ node'[k].updating = FALSE,
         \A i, j \in Node :
           \/ chan'[<<i, j>>] = chan[<<i, j>>] /\ chan'[<<j, i>>] = chan[<<j, i>>]
           \/ chan'[<<i, j>>] = <<>> /\ chan'[<<j, i>>] = <<>>
  PROVE  QueuesInv'
<1>1. ASSUME NEW i \in Node, NEW j \in Node
      PROVE  Answered(chan'[<<i, j>>])
  <2>1. Answered(<<>>)
    BY DEF Answered
  <2>2. chan'[<<i, j>>] = chan[<<i, j>>] \/ chan'[<<i, j>>] = <<>>
    OBVIOUS
  <2> QED BY <2>1, <2>2 DEF QueuesInv
<1>2. ASSUME NEW k \in Node, node'[k].updating
      PROVE  /\ node'[k].timer /\ node'[k].contacted_node_id \in Node
             /\ Expected(node'[k].block, chan'[<<node'[k].contacted_node_id, k>>],
                         chan'[<<k, node'[k].contacted_node_id>>])
  <2> DEFINE p == node[k].contacted_node_id
  <2>1. node'[k] = node[k]
    BY <1>2
  <2>2. node[k].timer /\ p \in Node
        /\ Expected(node[k].block, chan[<<p, k>>], chan[<<k, p>>])
    BY <1>2, <2>1 DEF QueuesInv, Supervised
  <2>3. Expected(node[k].block, <<>>, <<>>)
    BY DEF Expected, OnlyRequests, NoRequest
  <2>4. \/ chan'[<<p, k>>] = chan[<<p, k>>] /\ chan'[<<k, p>>] = chan[<<k, p>>]
        \/ chan'[<<p, k>>] = <<>> /\ chan'[<<k, p>>] = <<>>
    BY <2>2
  <2> QED BY <2>1, <2>2, <2>3, <2>4
<1>3. \A k \in Node : Supervised(node'[k], chan', k)
  BY <1>2 DEF Supervised
<1> QED BY <1>1, <1>3 DEF QueuesInv

\* A peer that reads what it sends answers a request as a whole.
LEMMA ServeSupervised ==
  ASSUME TypeOK, QueuesInv, "read" \notin Faults, NEW m \in Node, NEW n \in Node,
         on_request_state_update(m, n)
  PROVE  QueuesInv'
<1> DEFINE a == Answer(node[n], Head(chan[<<m, n>>]).height)
           c == Received(m, n)
<1>1. /\ node[n] \in NodeState /\ chan[<<m, n>>] # <<>>
      /\ Head(chan[<<m, n>>]).cmd = "request" /\ node' = node
  BY DEF TypeOK, on_request_state_update, Arrives
<1>2. a \in Seq(Message) /\ Answered(a) /\ NoRequest(a)
  BY <1>1, AnswerType, AnswerAnswered
<1>3. chan' = [c EXCEPT ![<<n, m>>] = @ \o SubSeq(a, 1, Len(a))]
  BY DEF on_request_state_update
<1> HIDE DEF a
<1>4. SubSeq(a, 1, Len(a)) = a
  BY <1>2
<1>5. c \in Channels /\ Handles(m, n, c)
  BY <1>1, ReceivedType DEF Handles
<1> HIDE DEF c
<1>6. ASSUME NEW i \in Node, NEW j \in Node
      PROVE  chan'[<<i, j>>] = IF i = n /\ j = m THEN c[<<i, j>>] \o a ELSE c[<<i, j>>]
  BY <1>3, <1>4, <1>5 DEF Channels
<1>7. ASSUME NEW i \in Node, NEW j \in Node
      PROVE  Answered(chan'[<<i, j>>])
  <2>1. Answered(c[<<i, j>>]) /\ c[<<i, j>>] \in Seq(Message)
    BY <1>5, HandledQueues DEF Channels
  <2> QED BY <1>2, <1>6, <2>1, AnsweredConcat
<1>8. ASSUME NEW i \in Node, NEW j \in Node
      PROVE  c[<<i, j>>] = IF i = m /\ j = n THEN Tail(chan[<<i, j>>]) ELSE chan[<<i, j>>]
  <2>1. c[<<i, j>>] = IF i = m /\ j = n THEN Tail(chan[<<m, n>>]) ELSE chan[<<i, j>>]
    BY ReceivedQueues DEF c
  <2> QED BY <2>1
<1>9. ASSUME NEW k \in Node, node[k].updating
      PROVE  /\ node[k].timer /\ node[k].contacted_node_id \in Node
             /\ Expected(node[k].block, chan'[<<node[k].contacted_node_id, k>>],
                         chan'[<<k, node[k].contacted_node_id>>])
  <2> DEFINE p == node[k].contacted_node_id
             b == node[k].block
             q == chan[<<p, k>>]
             r == chan[<<k, p>>]
  <2>1. node[k].timer /\ p \in Node /\ Expected(b, q, r)
    BY <1>9 DEF QueuesInv, Supervised
  <2>2. q \in Seq(Message) /\ r \in Seq(Message)
    BY <2>1, QueueType
  <2>3. c[<<p, k>>] = (IF p = m /\ k = n THEN Tail(q) ELSE q)
        /\ c[<<k, p>>] = IF k = m /\ p = n THEN Tail(r) ELSE r
    BY <1>8, <2>1
  <2>4. chan'[<<p, k>>] = (IF p = n /\ k = m THEN c[<<p, k>>] \o a ELSE c[<<p, k>>])
        /\ chan'[<<k, p>>] = IF k = n /\ p = m THEN c[<<k, p>>] \o a ELSE c[<<k, p>>]
    BY <1>6, <2>1
  <2>5. CASE k = n /\ p = m /\ m # n
    <3>1. Expected(b, Tail(q), r)
      BY <1>1, <1>9, <2>5, SupervisedHead
    <3>2. Expected(b, Tail(q), r \o a)
      BY <1>2, <2>2, <3>1, ExpectedOther
    <3>3. chan'[<<p, k>>] = Tail(q) /\ chan'[<<k, p>>] = r \o a
      BY <2>3, <2>4, <2>5
    <3> QED BY <2>1, <3>2, <3>3
  <2>6. CASE k = m /\ p = n /\ m # n
    <3>1. r # <<>> /\ Head(r).cmd = "request"
      BY <1>1, <2>6
    <3>2. Expected(b, q \o a, Tail(r))
      BY <1>2, <2>1, <2>2, <3>1, ExpectedAnswer
    <3> QED BY <2>1, <2>3, <2>4, <2>6, <3>2
  <2>7. CASE k = n /\ p = m /\ m = n
    <3>1. q # <<>> /\ Head(q).cmd = "request" /\ q = r
      BY <1>1, <2>7
    <3>2. Expected(b, Tail(q) \o a, Tail(q) \o a)
      BY <1>2, <2>1, <2>2, <3>1, ExpectedAnswer
    <3> QED BY <2>1, <2>3, <2>4, <2>7, <3>1, <3>2
  <2>8. CASE ~ (k = n /\ p = m) /\ ~ (k = m /\ p = n)
    <3>1. chan'[<<p, k>>] = q /\ chan'[<<k, p>>] = r
      BY <2>3, <2>4, <2>8
    <3> QED BY <2>1, <3>1
  <2> QED BY <2>5, <2>6, <2>7, <2>8
<1>10. \A k \in Node : Supervised(node'[k], chan', k)
  BY <1>1, <1>9 DEF Supervised
<1> QED BY <1>7, <1>10 DEF QueuesInv

\* An update that fails is over.
LEMMA FailedSupervised ==
  ASSUME TypeOK, QueuesInv, NEW m \in Node, NEW n \in Node, chan[<<m, n>>] # <<>>,
         NEW hashes \in [Page -> Height],
         update_failed(m, n, [node[n] EXCEPT !.hashes = hashes])
  PROVE  QueuesInv'
<1> DEFINE s == [node[n] EXCEPT !.hashes = hashes]
           t == [s EXCEPT !.updating = FALSE, !.received = NoPages, !.timer = FALSE]
           u == fail_node(t, m)
<1>1. node[n] \in NodeState
  BY DEF TypeOK
<1>2. t \in NodeState /\ t.updating = FALSE
  BY <1>1, PageSetType DEF NodeState
<1>3. u \in NodeState /\ SameData(t, u)
  <2> HIDE DEF t
  <2> QED BY <1>2, HelperTypes DEF NodeOrNone
<1>4. \E o \in request_state_update_next(n, u) : Become(n, o, Received(m, n))
  BY DEF update_failed
<1> HIDE DEF t, u
<1>5. u.updating = FALSE
  BY <1>2, <1>3 DEF SameData
<1> QED BY <1>3, <1>4, <1>5, NextSupervised DEF Handles

\* A page that is written: the rest of the answer is on its way.
LEMMA PageSupervised ==
  ASSUME TypeOK, QueuesInv, NEW m \in Node, NEW n \in Node, on_update_db_page(m, n)
  PROVE  QueuesInv'
<1> DEFINE s == node[n]
           q == chan[<<m, n>>]
           msg == Head(q)
           pages == [p \in DOMAIN s.received \cup {msg.pgno} |->
                       IF p = msg.pgno THEN msg.data ELSE s.received[p]]
           t == [s EXCEPT !.updating = TRUE, !.timer = TRUE, !.received = pages]
<1>1. /\ q # <<>> /\ q \in Seq(Message) /\ s \in NodeState /\ msg \in Message
      /\ msg.cmd = "page"
  BY ReceivedType DEF on_update_db_page, Arrives, TypeOK
<1>2. CASE Outdated(m, n, msg)
  <2>1. Ignore(m, n) /\ Passing(msg)
    BY <1>1, <1>2 DEF on_update_db_page, Passing
  <2> QED BY <1>1, <2>1, IgnoreSupervised
<1>3. CASE ~ Outdated(m, n, msg) /\ Become(n, Outcome(t, NoNode), Received(m, n))
  <2>1. Handles(m, n, Received(m, n))
    BY <1>1 DEF Handles
  <2>2. /\ t.updating /\ t.timer /\ t.contacted_node_id = s.contacted_node_id
        /\ t.block = s.block
    <3> HIDE DEF pages
    <3> QED BY <1>1 DEF NodeState
  <2>3. t \in NodeState
    <3>1. TypeOK'
      BY PageStep
    <3>2. node' = [node EXCEPT ![n] = t] /\ node \in [Node -> NodeState]
      BY <1>3 DEF Become, Outcome, TypeOK
    <3> HIDE DEF t
    <3>3. node'[n] = t
      BY <3>2
    <3> QED BY <3>1, <3>3 DEF TypeOK
  <2>4. Outcome(t, NoNode).state = t /\ Outcome(t, NoNode).to = NoNode
    BY DEF Outcome
  <2>5. chan' = Received(m, n)
    BY <1>3, <2>4 DEF Become
  <2>6. s.contacted_node_id = m /\ msg.height > s.block /\ msg.height \in Height
    <3>1. msg.height \in Height /\ s.block \in Height
      BY <1>1 DEF Message, UpToDate, Busy, NodeState
    <3> QED BY <1>3, <3>1, HeightAssumption DEF Outdated, Height
  <2>7. Due(Tail(q), msg.height)
    BY <1>1, AnsweredTail DEF QueuesInv
  <2>8. chan'[<<m, n>>] = Tail(q)
    BY <2>5, ReceivedQueues
  <2> HIDE DEF t
  <2>9. Supervised(t, chan', n)
    BY <2>2, <2>6, <2>7, <2>8 DEF Supervised, Expected
  <2> QED BY <1>3, <2>1, <2>3, <2>4, <2>9, BecomeSupervised DEF NodeOrNone
<1>4. CASE ~ Outdated(m, n, msg) /\ update_failed(m, n, s)
  <2>1. s = [s EXCEPT !.hashes = s.hashes] /\ s.hashes \in [Page -> Height]
    BY <1>1 DEF NodeState
  <2> QED BY <1>1, <1>4, <2>1, FailedSupervised
<1>5. \/ Outdated(m, n, msg)
      \/ Become(n, Outcome(t, NoNode), Received(m, n))
      \/ update_failed(m, n, s)
  BY DEF on_update_db_page
<1> QED BY <1>2, <1>3, <1>4, <1>5

\* The apply message that is due is not ignored, and ends the update.
LEMMA ApplySupervised ==
  ASSUME TypeOK, QueuesInv, "nomem" \notin Faults, NEW m \in Node, NEW n \in Node,
         Timed(node[n]), on_apply_state_update(m, n)
  PROVE  QueuesInv'
<1> DEFINE s == node[n]
           msg == Head(chan[<<m, n>>])
           t == [s EXCEPT !.db = Overlay(s.received, s.db), !.height = msg.height,
                          !.hashes = Overlay(s.received, s.hashes),
                          !.updating = FALSE, !.received = NoPages, !.timer = FALSE]
           done == [t EXCEPT !.block = msg.height]
<1>1. /\ chan[<<m, n>>] # <<>> /\ s \in NodeState /\ msg \in Message
      /\ msg.cmd = "apply"
  BY ReceivedType DEF on_apply_state_update, Arrives, TypeOK
<1>2. msg.height \in Height
  BY <1>1 DEF Message, UpToDate, Busy
<1>3. CASE Outdated(m, n, msg) \/ ~ s.updating
  <2>1. ASSUME s.updating, m = s.contacted_node_id
        PROVE  FALSE
    <3>1. s.sync = "synchronizing"
      BY <2>1, NodeAssumption DEF Timed
    <3>2. msg.height > s.block
      BY <1>1, <2>1, SupervisedHead DEF Passing
    <3>3. s.block \in Height
      BY <1>1 DEF NodeState
    <3> QED BY <1>2, <1>3, <2>1, <3>1, <3>2, <3>3, HeightAssumption DEF Outdated, Height
  <2>2. Ignore(m, n)
    BY <1>3 DEF on_apply_state_update
  <2> QED BY <1>1, <2>1, <2>2, IgnoreSupervised
<1>4. CASE \E o \in request_state_update_next(n, done) : Become(n, o, Received(m, n))
  <2>1. done \in NodeState /\ done.updating = FALSE
    <3>1. Overlay(s.received, s.db) \in [Page -> Height]
          /\ Overlay(s.received, s.hashes) \in [Page -> Height]
      BY <1>1, OverlayType DEF NodeState
    <3> HIDE DEF msg
    <3> QED BY <1>1, <1>2, <3>1, PageSetType DEF NodeState
  <2> HIDE DEF done
  <2> QED BY <1>1, <1>4, <2>1, NextSupervised DEF Handles
<1>5. CASE \E hashes \in HashesAfterFailure(s) :
             update_failed(m, n, [s EXCEPT !.hashes = hashes])
  BY <1>1, <1>5, HashesType, FailedSupervised
<1>6. \/ Outdated(m, n, msg) \/ ~ s.updating
      \/ \E o \in request_state_update_next(n, done) : Become(n, o, Received(m, n))
      \/ \E hashes \in HashesAfterFailure(s) :
           update_failed(m, n, [s EXCEPT !.hashes = hashes])
  BY DEF on_apply_state_update
<1> QED BY <1>3, <1>4, <1>5, <1>6

\* A node that writes pages is told neither uptodate nor busy by the peer that
\* sends them.
LEMMA OtherAnswerSupervised ==
  ASSUME TypeOK, QueuesInv, NEW m \in Node, NEW n \in Node,
         on_uptodate_message(m, n) \/ on_node_is_busy(m, n)
  PROVE  QueuesInv'
<1> DEFINE s == [node[n] EXCEPT !.timer = FALSE]
<1>1. /\ chan[<<m, n>>] # <<>> /\ node[n] \in NodeState
      /\ Head(chan[<<m, n>>]).cmd \in {"uptodate", "busy"}
  BY DEF on_uptodate_message, on_node_is_busy, Arrives, TypeOK
<1>2. CASE m # node[n].contacted_node_id
  <2>1. Ignore(m, n)
    BY <1>2 DEF on_uptodate_message, on_node_is_busy
  <2> QED BY <1>1, <1>2, <2>1, IgnoreSupervised
<1>3. CASE m = node[n].contacted_node_id
  <2>1. node[n].updating = FALSE
    <3>1. ~ node[n].updating
      BY <1>1, <1>3, SupervisedHead DEF Passing
    <3> QED BY <1>1, <3>1 DEF NodeState
  <2>2. s \in NodeState /\ s.updating = FALSE
    BY <1>1, <2>1 DEF NodeState
  <2>3. PICK t \in {s, fail_node(s, m)} :
          \E o \in request_state_update_next(n, t) : Become(n, o, Received(m, n))
    BY <1>3 DEF on_uptodate_message, on_node_is_busy
  <2> HIDE DEF s
  <2>4. t \in NodeState /\ t.updating = FALSE
    <3>1. fail_node(s, m) \in NodeState /\ SameData(s, fail_node(s, m))
      BY <2>2, HelperTypes DEF NodeOrNone
    <3>2. fail_node(s, m).updating = FALSE
      BY <2>2, <3>1 DEF SameData
    <3> QED BY <2>2, <3>1, <3>2
  <2> QED BY <1>1, <2>3, <2>4, NextSupervised DEF Handles
<1> QED BY <1>2, <1>3

\* The timer cancels the update.
LEMMA TimeoutSupervised ==
  ASSUME TypeOK, QueuesInv, NEW n \in Node, on_state_update_node_timeout(n)
  PROVE  QueuesInv'
<1> DEFINE s == [node[n] EXCEPT !.timer = FALSE]
           t == IF s.updating THEN aergolite_cancel_state_update(s) ELSE s
           u == fail_node(t, s.contacted_node_id)
<1>1. node[n] \in NodeState
  BY DEF TypeOK
<1>2. s \in NodeState /\ s.contacted_node_id \in NodeOrNone
  BY <1>1 DEF NodeState, NodeOrNone
<1>3. \E o \in request_state_update_next(n, u) : Become(n, o, chan)
  BY DEF on_state_update_node_timeout
<1> HIDE DEF s
<1>4. t \in NodeState /\ t.updating = FALSE
  <2>1. aergolite_cancel_state_update(s) \in NodeState
        /\ aergolite_cancel_state_update(s).updating = FALSE
    BY <1>2, PageSetType DEF aergolite_cancel_state_update, NodeState
  <2>2. s.updating \in BOOLEAN
    BY <1>2 DEF NodeState
  <2> QED BY <1>2, <2>1, <2>2
<1> HIDE DEF t
<1>5. u \in NodeState /\ u.updating = FALSE
  BY <1>2, <1>4, HelperTypes DEF SameData
<1> HIDE DEF u
<1> QED BY <1>3, <1>5, NextSupervised DEF Handles

\* The periodic timer starts no update while one runs.
LEMMA TimerSupervised ==
  ASSUME TypeOK, QueuesInv, NEW n \in Node, Timed(node[n]), process_transactions_timer_cb(n)
  PROVE  QueuesInv'
<1> DEFINE s == node[n]
<1>1. PICK loaded \in LoadResults :
        \E o \in start_downstream_db_sync(n, loaded) : Become(n, o, chan)
  BY DEF process_transactions_timer_cb
<1>2. PICK o \in start_downstream_db_sync(n, loaded) : Become(n, o, chan)
  BY <1>1
<1>3. s \in NodeState /\ s.sync # "synchronizing"
  BY DEF TypeOK, process_transactions_timer_cb
<1>4. s.updating = FALSE
  BY <1>3, IdleWritesNothing
<1>5. CASE s.block = 0 /\ (s.height > 0 \/ ~ loaded)
  <2> DEFINE t == IF loaded THEN load_current_state(s) ELSE s
             u == [t EXCEPT !.sync = "error"]
  <2>1. t \in NodeState /\ t.updating = FALSE
    <3> DEFINE l == load_current_state(s)
    <3>1. State(s.height) \in [Page -> Height] /\ s.height \in Height
      BY <1>3, StateType DEF NodeState
    <3>2. l \in NodeState /\ l.updating = s.updating
      BY <1>3, <3>1 DEF load_current_state, NodeState, DbState
    <3>3. t = l \/ t = s
      OBVIOUS
    <3> HIDE DEF l, t
    <3> QED BY <1>3, <1>4, <3>2, <3>3
  <2>2. o = Outcome(u, NoNode)
    BY <1>2, <1>5 DEF start_downstream_db_sync
  <2> HIDE DEF t
  <2>3. u \in NodeState /\ u.updating = FALSE
    BY <2>1 DEF NodeState, DbState
  <2> HIDE DEF u
  <2>4. o.state = u /\ o.to = NoNode
    BY <2>2 DEF Outcome
  <2> QED BY <1>2, <2>3, <2>4, BecomeSupervised DEF Supervised, Handles, NodeOrNone
<1>6. CASE ~ (s.block = 0 /\ (s.height > 0 \/ ~ loaded))
  <2>1. o \in request_state_update(n, s)
    BY <1>2, <1>6 DEF start_downstream_db_sync
  <2> QED BY <1>2, <1>3, <2>1, RequestSupervised
<1> QED BY <1>5, <1>6

\* Blocks that are committed or cannot be verified, restarts and connections.
LEMMA OthersSupervised ==
  ASSUME TypeOK, QueuesInv, NEW m \in Node, NEW n \in Node, Timed(node[n]),
         \/ commit_block(n) \/ verify_failed(n) \/ plugin_init(n)
         \/ connection_dropped(m, n) \/ worker_thread_on_close(n, m) \/ connected_again(m, n)
  PROVE  QueuesInv'
<1>1. /\ node \in [Node -> NodeState] /\ node[n].updating \in BOOLEAN
      /\ chan \in [Node \X Node -> Seq(Message)]
  BY DEF TypeOK, NodeState
<1>2. CASE commit_block(n)
  <2>1. node[n].updating = FALSE /\ chan' = chan
    BY <1>1, <1>2 DEF commit_block
  <2>2. \E h, x, y : node' = [node EXCEPT ![n] = [node[n] EXCEPT
                                !.block = h, !.height = h, !.hashes = x, !.db = y]]
    BY <1>2 DEF commit_block
  <2>3. \A k \in Node : node'[k] = node[k] \/ node'[k].updating = FALSE
    BY <1>1, <2>1, <2>2 DEF NodeState
  <2> QED BY <2>1, <2>3, QuietSupervised
<1>3. CASE verify_failed(n)
  <2>1. node[n].updating = FALSE /\ chan' = chan
    BY <1>3, IdleWritesNothing DEF verify_failed
  <2>2. node' = [node EXCEPT ![n].sync = "outdated"]
    BY <1>3 DEF verify_failed
  <2>3. \A k \in Node : node'[k] = node[k] \/ node'[k].updating = FALSE
    BY <1>1, <2>1, <2>2 DEF NodeState
  <2> QED BY <2>1, <2>3, QuietSupervised
<1>4. CASE plugin_init(n)
  <2>1. PICK loaded \in LoadResults :
          node' = [node EXCEPT ![n] = Started(node[n].height, node[n].db, loaded)]
    BY <1>4 DEF plugin_init
  <2>2. Started(node[n].height, node[n].db, loaded).updating = FALSE
    BY DEF Started, load_current_state
  <2>3. \A k \in Node : node'[k] = node[k] \/ node'[k].updating = FALSE
    BY <1>1, <2>1, <2>2
  <2>4. chan' = [c \in Node \X Node |-> IF n \in {c[1], c[2]} THEN <<>> ELSE chan[c]]
    BY <1>4 DEF plugin_init
  <2>5. ASSUME NEW i \in Node, NEW j \in Node
        PROVE  \/ chan'[<<i, j>>] = chan[<<i, j>>] /\ chan'[<<j, i>>] = chan[<<j, i>>]
               \/ chan'[<<i, j>>] = <<>> /\ chan'[<<j, i>>] = <<>>
    BY <2>4
  <2> QED BY <2>3, <2>5, QuietSupervised
<1>5. CASE connection_dropped(m, n)
  <2>1. node' = node /\ chan' = [chan EXCEPT ![<<m, n>>] = <<>>, ![<<n, m>>] = <<>>]
    BY <1>5 DEF connection_dropped
  <2>2. ASSUME NEW i \in Node, NEW j \in Node
        PROVE  \/ chan'[<<i, j>>] = chan[<<i, j>>] /\ chan'[<<j, i>>] = chan[<<j, i>>]
               \/ chan'[<<i, j>>] = <<>> /\ chan'[<<j, i>>] = <<>>
    BY <1>1, <2>1
  <2> QED BY <2>1, <2>2, QuietSupervised
<1>6. CASE worker_thread_on_close(n, m) \/ connected_again(m, n)
  <2>1. node' = node /\ chan' = chan
    BY <1>6 DEF worker_thread_on_close, connected_again
  <2> QED BY <2>1, QuietSupervised
<1> QED BY <1>2, <1>3, <1>4, <1>5, <1>6

-----------------------------------------------------------------------------
(* Theorems *)

\* The initial states have their types, and a database of one block.
LEMMA InitNodes ==
  ASSUME Init
  PROVE  /\ TypeOK
         /\ \E h \in StartHeights :
              \A n \in Node : /\ Timed(node[n])
                              /\ node[n].height = h[n] /\ node[n].db = State(h[n])
                              /\ "load" \notin Faults =>
                                   (node[n].block = h[n] /\ node[n].hashes = State(h[n]))
<1>1. PICK h \in StartHeights, loaded \in [Node -> LoadResults] :
        node = [n \in Node |-> Started(h[n], State(h[n]), loaded[n])]
  BY DEF Init
<1>2. ASSUME NEW n \in Node
      PROVE  /\ node[n] \in NodeState /\ Timed(node[n])
             /\ node[n].height = h[n] /\ node[n].db = State(h[n])
             /\ "load" \notin Faults =>
                  (node[n].block = h[n] /\ node[n].hashes = State(h[n]))
  <2>1. h[n] \in Height /\ loaded[n] \in BOOLEAN /\ ("load" \notin Faults => loaded[n])
    BY HeightAssumption DEF LoadResults
  <2>2. node[n] = Started(h[n], State(h[n]), loaded[n])
    BY <1>1
  <2> QED BY <2>1, <2>2, StartedType, StateType
<1>3. chan \in Channels
  <2>1. <<>> \in Seq(Message)
    OBVIOUS
  <2> QED BY <2>1 DEF Init, Channels
<1>4. node \in [Node -> NodeState]
  <2>1. node = [n \in Node |-> node[n]]
    BY <1>1
  <2> QED BY <1>2, <2>1
<1> QED BY <1>2, <1>3, <1>4 DEF Init, TypeOK, Channels

\* The variables of the state update keep their types under every handler
\* (state_update.c), for any nodes, pages and blocks.
THEOREM UpdateTypeCorrect == Spec => []TypeOK
<1>1. Init => TypeOK
  BY InitNodes
<1>2. TypeOK /\ [Next]_vars => TypeOK'
  <2>1. TypeOK /\ Next => TypeOK'
    BY SystemStep
  <2>2. TypeOK /\ UNCHANGED vars => TypeOK'
    BY DEF TypeOK, vars
  <2> QED BY <2>1, <2>2
<1> QED BY <1>1, <1>2, PTL DEF Spec

TimedInv == TypeOK /\ \A n \in Node : Timed(node[n])

\* As long as memory is not exhausted the timer runs exactly while the node is
\* synchronizing, and only then is a peer contacted.
LEMMA TimedInvariant ==
  ASSUME "nomem" \notin Faults
  PROVE  Spec => []TimedInv
<1>1. Init => TimedInv
  BY InitNodes DEF TimedInv
<1>2. TimedInv /\ [Next]_vars => TimedInv'
  <2>1. ASSUME TimedInv, Next
        PROVE  TimedInv'
    <3>1. TypeOK' /\ \E n \in Node : NodeSteps(n)
      BY <2>1, SystemStep DEF TimedInv
    <3>2. PICK n \in Node : NodeSteps(n)
      BY <3>1
    <3>3. CASE node' = node
      BY <2>1, <3>1, <3>3 DEF TimedInv
    <3>4. ASSUME NEW t, Step(n, t)
          PROVE  \A k \in Node : Timed(node'[k])
      <4>1. node' = [node EXCEPT ![n] = t] /\ Timed(t) /\ node \in [Node -> NodeState]
        BY <2>1, <3>4 DEF Step, TimedInv, TypeOK
      <4>2. \A k \in Node : node'[k] = IF k = n THEN t ELSE node[k]
        BY <4>1
      <4> QED BY <2>1, <4>1, <4>2 DEF TimedInv
    <3>5. \A k \in Node : Timed(node'[k])
      BY <2>1, <3>2, <3>3, <3>4 DEF NodeSteps, TimedInv
    <3> QED BY <3>1, <3>5 DEF TimedInv, Timed
  <2>2. TimedInv /\ UNCHANGED vars => TimedInv'
    BY DEF TimedInv, TypeOK, Timed, vars
  <2> QED BY <2>1, <2>2
<1> QED BY <1>1, <1>2, PTL DEF Spec

\* As long as memory is not exhausted, the assertions of
\* request_state_update_next and on_state_update_node_timeout hold: the timer
\* runs exactly while the node is synchronizing.
THEOREM UpdateIsTimed ==
  ASSUME "nomem" \notin Faults
  PROVE  Spec => []SynchronizingIsTimed
<1>1. TimedInv => SynchronizingIsTimed
  BY DEF TimedInv, Timed, SynchronizingIsTimed
<1> QED BY <1>1, TimedInvariant, PTL

\* As long as a peer that answers reads and sends all of its pages, and memory is
\* not exhausted, pages are only being written while a timer runs that cancels the
\* update (on_update_db_page and on_state_update_node_timeout).  Late answers,
\* dropped connections, restarts, failed writes and failed commits are allowed;
\* without the first assumption a timer that overtakes the answer leads to an
\* update that nobody ends.
THEOREM UpdateIsSupervised ==
  ASSUME "read" \notin Faults, "nomem" \notin Faults
  PROVE  Spec => []UpdateSupervised
<1>1. Init => QueuesInv
  <2>1. ASSUME Init
        PROVE  QueuesInv
    <3>1. \A i, j \in Node : Answered(chan[<<i, j>>])
      BY <2>1 DEF Init, Answered
    <3>2. ASSUME NEW n \in Node
          PROVE  node[n].updating = FALSE
      <4>1. PICK h \in StartHeights, loaded \in [Node -> LoadResults] :
              node = [k \in Node |-> Started(h[k], State(h[k]), loaded[k])]
        BY <2>1 DEF Init
      <4>2. node[n] = Started(h[n], State(h[n]), loaded[n])
        BY <4>1
      <4> QED BY <4>2 DEF Started, load_current_state
    <3> QED BY <3>1, <3>2 DEF QueuesInv, Supervised
  <2> QED BY <2>1
<1>2. TimedInv /\ QueuesInv /\ [Next]_vars => QueuesInv'
  <2>1. ASSUME TimedInv, QueuesInv, Next
        PROVE  QueuesInv'
    <3>1. TypeOK /\ \A n \in Node : Timed(node[n])
      BY <2>1 DEF TimedInv
    <3>2. ASSUME NEW m \in Node, NEW n \in Node, Deliver(m, n)
          PROVE  QueuesInv'
      BY <2>1, <3>1, <3>2, ServeSupervised, PageSupervised, ApplySupervised,
         OtherAnswerSupervised DEF Deliver
    <3>3. ASSUME NEW m \in Node, NEW n \in Node, on_future_block(m, n)
          PROVE  QueuesInv'
      BY <2>1, <3>1, <3>3, RequestSupervised DEF on_future_block
    <3> QED BY <2>1, <3>1, <3>2, <3>3, TimerSupervised, TimeoutSupervised,
               OthersSupervised DEF Next
  <2>2. ASSUME QueuesInv, UNCHANGED vars
        PROVE  QueuesInv'
    BY <2>2 DEF QueuesInv, vars
  <2> QED BY <2>1, <2>2
<1>3. QueuesInv => UpdateSupervised
  BY NodeAssumption DEF QueuesInv, Supervised, UpdateSupervised
<1> QED BY <1>1, <1>2, <1>3, TimedInvariant, PTL DEF Spec

\* The pages, and the hashes of the pages that the next update is checked with,
\* are those of the last block.
Matches(s) ==
  /\ s.db = State(s.height) /\ s.hashes = State(s.height)
  /\ s.block \in {0, s.height}

DatabaseInv == TypeOK /\ \A n \in Node : Matches(node[n])

\* As long as the state can be loaded, the database of every node is at every
\* moment the one its last block leads to, whatever pages late answers, crashes
\* and failed commits leave behind.
THEOREM DatabaseIsConsistent ==
  ASSUME "load" \notin Faults
  PROVE  Spec => []DatabaseMatchesBlock
<1>1. Init => DatabaseInv
  BY InitNodes DEF DatabaseInv, Matches
<1>2. DatabaseInv /\ [Next]_vars => DatabaseInv'
  <2>1. ASSUME DatabaseInv, Next
        PROVE  DatabaseInv'
    <3>1. TypeOK' /\ \E n \in Node : NodeSteps(n)
      BY <2>1, SystemStep DEF DatabaseInv
    <3>2. PICK n \in Node : NodeSteps(n)
      BY <3>1
    <3>3. ASSUME NEW t, Step(n, t)
          PROVE  \A k \in Node : Matches(node'[k])
      <4>1. node' = [node EXCEPT ![n] = t] /\ node \in [Node -> NodeState]
            /\ DataStep(node[n], t)
        BY <2>1, <3>3 DEF Step, DatabaseInv, TypeOK
      <4>2. Matches(t)
        BY <2>1, <4>1 DEF DataStep, Matches, DatabaseInv
      <4>3. \A k \in Node : node'[k] = IF k = n THEN t ELSE node[k]
        BY <4>1
      <4> QED BY <2>1, <4>2, <4>3 DEF DatabaseInv
    <3>4. \A k \in Node : Matches(node'[k])
      BY <2>1, <3>2, <3>3 DEF NodeSteps, DatabaseInv
    <3> QED BY <3>1, <3>4 DEF DatabaseInv, Matches
  <2>2. DatabaseInv /\ UNCHANGED vars => DatabaseInv'
    BY DEF DatabaseInv, TypeOK, Matches, vars
  <2> QED BY <2>1, <2>2
<1>3. DatabaseInv => DatabaseMatchesBlock
  BY DEF DatabaseInv, Matches, DatabaseMatchesBlock
<1> QED BY <1>1, <1>2, <1>3, PTL DEF Spec

\* Then each node also knows the height of its database.
ReplicaInv == DatabaseInv /\ \A n \in Node : node[n].block = node[n].height

\* As long as the state can be loaded and memory is not exhausted, the nodes
\* implement replicas: a database moves to the state of a later block in one
\* step, and never back.
THEOREM UpdateImplementsReplica ==
  ASSUME "load" \notin Faults, "nomem" \notin Faults
  PROVE  Spec => ImplementsReplica
<1>1. Init => ReplicaInv /\ R!Init
  <2>1. ASSUME Init
        PROVE  ReplicaInv /\ R!Init
    <3>1. PICK h \in StartHeights :
            \A n \in Node : /\ node[n].height = h[n] /\ node[n].db = State(h[n])
                            /\ node[n].block = h[n] /\ node[n].hashes = State(h[n])
      BY <2>1, InitNodes
    <3>2. h = [n \in Node |-> h[n]]
      BY HeightAssumption
    <3>3. [n \in Node |-> node[n].height] = h
          /\ [n \in Node |-> node[n].db] = [n \in Node |-> State(h[n])]
      BY <3>1, <3>2
    <3>4. TypeOK
      BY <2>1, InitNodes
    <3> QED BY <3>1, <3>3, <3>4 DEF ReplicaInv, DatabaseInv, Matches, R!Init
  <2> QED BY <2>1
<1>2. ReplicaInv /\ [Next]_vars => ReplicaInv' /\ [R!Next]_(R!vars)
  <2>1. ASSUME ReplicaInv, Next
        PROVE  ReplicaInv' /\ [R!Next]_(R!vars)
    <3> DEFINE db == [k \in Node |-> node[k].db]
               height == [k \in Node |-> node[k].height]
    <3>1. TypeOK' /\ \E n \in Node : NodeSteps(n)
      BY <2>1, SystemStep DEF ReplicaInv, DatabaseInv
    <3>2. PICK n \in Node : NodeSteps(n)
      BY <3>1
    <3>3. CASE node' = node
      BY <2>1, <3>1, <3>3 DEF ReplicaInv, DatabaseInv, Matches, R!vars
    <3>4. ASSUME NEW t, Step(n, t)
          PROVE  ReplicaInv' /\ [R!Next]_(R!vars)
      <4>1. node' = [node EXCEPT ![n] = t] /\ node \in [Node -> NodeState]
            /\ DataStep(node[n], t)
        BY <2>1, <3>4 DEF Step, ReplicaInv, DatabaseInv, TypeOK
      <4>2. Matches(node[n]) /\ node[n].block = node[n].height
        BY <2>1 DEF ReplicaInv, DatabaseInv
      <4>3. Matches(t) /\ t.block = t.height
        BY <4>1, <4>2 DEF DataStep, Matches
      <4>4. \A k \in Node : node'[k] = IF k = n THEN t ELSE node[k]
        BY <4>1
      <4>5. ReplicaInv'
        BY <2>1, <3>1, <4>3, <4>4 DEF ReplicaInv, DatabaseInv, Matches
      <4>6. height' = [height EXCEPT ![n] = t.height] /\ db' = [db EXCEPT ![n] = t.db]
        BY <4>4
      <4>7. CASE t.height = node[n].height /\ t.db = node[n].db
        <5>1. height' = height /\ db' = db
          BY <4>6, <4>7
        <5> QED BY <4>5, <5>1 DEF R!vars
      <4>8. ASSUME NEW h \in Height, h > node[n].block, t.height = h
            PROVE  R!Advance(n)
        <5>1. h \in height[n] + 1 .. MaxHeight
          <6>1. node[n].height \in Height
            BY <4>1 DEF NodeState
          <6> QED BY <4>2, <4>8, <6>1, HeightAssumption DEF Height
        <5>2. t.db = State(h)
          BY <4>3, <4>8 DEF Matches
        <5> QED BY <4>6, <4>8, <5>1, <5>2 DEF R!Advance
      <4>9. (t.height = node[n].height /\ t.db = node[n].db) \/ R!Advance(n)
        BY <4>1, <4>8 DEF DataStep
      <4> QED BY <4>5, <4>7, <4>9 DEF R!Next
    <3> QED BY <3>2, <3>3, <3>4 DEF NodeSteps
  <2>2. ASSUME ReplicaInv, UNCHANGED vars
        PROVE  ReplicaInv' /\ [R!Next]_(R!vars)
    BY <2>2 DEF ReplicaInv, DatabaseInv, TypeOK, Matches, vars, R!vars
  <2> QED BY <2>1, <2>2
<1> QED BY <1>1, <1>2, PTL DEF Spec, ImplementsReplica, R!Spec
=============================================================================
