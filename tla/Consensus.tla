----------------------------- MODULE Consensus -----------------------------
(***************************************************************************)
(* The leaderless block consensus of AergoLite (plugins/no-leader).  Every *)
(* authorized node may propose a block for the next height; the nodes vote *)
(* on the known proposals in one round, and in a second one when no        *)
(* proposal can win the first; a proposal with the votes of a majority is  *)
(* committed.                                                              *)
(*                                                                         *)
(* Each node runs one worker thread (a libuv loop), so a message, timer or *)
(* transaction handler is atomic with respect to the node and is one       *)
(* action here.  The handlers call one another (choose_block_to_vote,      *)
(* check_for_winner_block, commit_block...); those functions are operators *)
(* from a node state to a node state.                                      *)
(*                                                                         *)
(* A block holds the hash of its predecessor, so it is identified with the *)
(* chain it ends: a block of height h is a sequence of h bodies and <<>>   *)
(* stands for a NULL block pointer.  The set of authorized nodes is fixed. *)
(***************************************************************************)
EXTENDS Integers, Sequences, FiniteSets

CONSTANTS
  Node,            \* the authorized nodes (all of them connected)
  Txn,             \* the transactions the applications submit
  WaitTime(_, _),  \* WaitTime(n, h): the VRF wait interval of node n at height h
  MaxHeight,       \* bound: no block above this height is created
  MaxRestarts,     \* bound: MaxRestarts[n] times node n crashes and restarts
  Late,            \* <<n, t>>: t may reach node n after a block that names it
  Faults           \* which of the faults below may happen

(***************************************************************************)
(* The faults.  "busy": the application holds the database lock when a     *)
(* block begins.  "commit": the commit of a block or of an update fails.   *)
(***************************************************************************)
FaultKinds == {"busy", "commit"}

ASSUME NodeAssumption == IsFiniteSet(Node) /\ Node # {}
ASSUME BoundAssumption == MaxHeight \in Nat /\ MaxRestarts \in [Node -> Nat]
ASSUME WaitAssumption ==
  \A n \in Node : \A h \in 1 .. MaxHeight : WaitTime(n, h) \in Nat \ {0}
ASSUME FaultAssumption == Faults \subseteq FaultKinds /\ Late \subseteq Node \X Txn

VARIABLE node   \* node[n]: the plugin structure of node n and what it has sent

-----------------------------------------------------------------------------
(* Blocks and votes *)

Run == UNION {0 .. MaxRestarts[n] : n \in Node}
Body == [creator : Node, txns : SUBSET Txn, run : Run]
Round == {0, 1}

\* The first block, which authorizes the nodes: all of them start from it.
Genesis == <<[creator |-> CHOOSE n \in Node : TRUE, txns |-> {}, run |-> 0]>>

NoBlock == <<>>
Head1(b) == b[Len(b)]                      \* the body the block b adds
Parent(b) == SubSeq(b, 1, Len(b) - 1)      \* the block whose hash b holds
Wait(b) == WaitTime(Head1(b).creator, Len(b))

Vote(b, r, n) == [block |-> b, round |-> r, voter |-> n]

SyncState == {"in_sync", "synchronizing", "outdated"}

\* (mutant) Half of the nodes is enough.
HalfOfNodes == Cardinality(Node) \div 2

\* majority(X) of the code.
Majority == Cardinality(Node) \div 2 + 1

-----------------------------------------------------------------------------
(* What a handler reads from the state s of its node *)

Height(s) == Len(s.chain)
Proposals(s) == {b \in s.new_blocks : Len(b) = Height(s) + 1}
\* (mutant) The votes of both rounds are counted together.
VotersOfAnyRound(s, b, r) == {n \in Node : \E q \in Round : Vote(b, q, n) \in s.votes}

Voters(s, b, r) == {n \in Node : Vote(b, r, n) \in s.votes}
NumVotes(s, b, r) == Cardinality(Voters(s, b, r))
Executed(chain) == UNION {chain[i].txns : i \in DOMAIN chain}
Unused(s) == s.mempool \ s.used
TxnsPresent(s, b) == Head1(b).txns \subseteq s.mempool
MinWait(S) == {b \in S : \A c \in S : Wait(b) <= Wait(c)}

\* The proposals that reached the majority of the votes of round r.
Winners(s, r) == {b \in Proposals(s) : NumVotes(s, b, r) >= Majority}

\* Blocks of which one handler could find two equally good: their order in
\* the list, which is the order of arrival, decides.
Contested(s) ==
  {b \in Proposals(s) : \E c \in Proposals(s) \ {b} :
     \/ Wait(b) = Wait(c)
     \/ \E r \in Round : NumVotes(s, b, r) + NumVotes(s, c, r) + 1 >= 2 * Majority}

\* What happens outside of the plugin while a handler runs: for which blocks
\* begin_block finds the database locked, how a commit ends, and which of
\* several equally good blocks comes first in the list.
Environment(s) ==
  [locked : IF "busy" \in Faults THEN SUBSET Proposals(s) ELSE {{}},
   commit : IF "commit" \in Faults THEN {"ok", "busy", "error"} ELSE {"ok"},
   first  : Contested(s) \cup {NoBlock}]

\* Does a BEGIN that concerns no proposal find the database free?
BeginResults == IF "busy" \in Faults THEN BOOLEAN ELSE {TRUE}

PickFirst(S, env) ==
  IF env.first \in S THEN env.first ELSE CHOOSE b \in S : TRUE

\* The order in which the proposals are tried.
Before(b, c, env) == Wait(b) < Wait(c) \/ (Wait(b) = Wait(c) /\ b = env.first)

-----------------------------------------------------------------------------
(* Timers and synchronization state *)

\* can_create_block holds here: every authorized node is connected.
start_new_block_timer(s) ==
  IF /\ s.sync = "in_sync"
     /\ s.last_created # Height(s) + 1
     /\ Unused(s) # {}
  THEN [s EXCEPT !.new_block_timer = TRUE]
  ELSE s

start_block_wait_timer(s) ==
  IF s.last_vote[1] # Height(s) + 1
  THEN [s EXCEPT !.block_wait_timer = TRUE]
  ELSE s

request_state_update(s) == [s EXCEPT !.sync = "synchronizing"]

\* A block that cannot be verified or committed may be downloaded later.
mark_outdated(s) ==
  IF s.sync = "synchronizing" THEN s ELSE [s EXCEPT !.sync = "outdated"]

-----------------------------------------------------------------------------
(* Opening and committing a block.  open_block is the plugin's pointer;    *)
(* verified tells whether the core still has that block's transaction open *)

\* (mutant) The pointer to the open block is not cleared.
rollback_core_only(s) == [s EXCEPT !.verified = FALSE]

rollback_block(s) == [s EXCEPT !.open_block = NoBlock, !.verified = FALSE]

\* Would verify_block(b) succeed?  It runs the block on top of the chain.
Verifies(s, b, env) == b \notin env.locked /\ Parent(b) = s.chain

\* (mutant) Transactions that came with the blocks of a peer stay.
check_mempool_nothing(s) == s

\* Transactions that are in a block but were not used by commit_block leave the
\* mempool.  (Those it used stay: the code drops them two blocks later.)
check_mempool_transactions(s) ==
  [s EXCEPT !.mempool = @ \ (Executed(s.chain) \ s.used)]

verify_failed(s, b, env) == IF b \in env.locked THEN s ELSE mark_outdated(s)

commit_block(s, b, env) ==
  IF ~ s.verified THEN mark_outdated(s)      \* the core answers MISUSE
  ELSE CASE env.commit = "busy"  -> [s EXCEPT !.verified = FALSE]
         [] env.commit = "error" -> mark_outdated([s EXCEPT !.verified = FALSE])
         [] env.commit = "ok" ->
              start_new_block_timer(check_mempool_transactions(
                [s EXCEPT !.chain = b,
                          !.used = @ \cup (s.mempool \cap Head1(b).txns),
                          !.new_blocks = {c \in @ : Len(c) > Len(b)},
                          !.votes = {v \in @ : Len(v.block) > Len(b)},
                          !.open_block = NoBlock,
                          !.verified = FALSE]))

\* The winning block is committed, after it was verified if it is not open.
commit_winner(s, b, env) ==
  IF b = s.open_block THEN commit_block(s, b, env)
  ELSE LET t == rollback_block(s)
       IN IF ~ TxnsPresent(t, b) THEN t
          ELSE IF ~ Verifies(t, b, env) THEN verify_failed(t, b, env)
          ELSE commit_block([t EXCEPT !.open_block = b, !.verified = TRUE], b, env)

-----------------------------------------------------------------------------
(* Voting *)

\* (mutant) The vote is not recorded as the last one.
vote_on_block_unrecorded(n, s, r, b) ==
  IF Vote(b, r, n) \in s.votes THEN s
  ELSE [s EXCEPT !.votes = @ \cup {Vote(b, r, n)},
                 !.cast = @ \cup {Vote(b, r, n)}]

vote_on_block(n, s, r, b) ==
  IF Vote(b, r, n) \in s.votes THEN s        \* already voted
  ELSE [s EXCEPT !.votes = @ \cup {Vote(b, r, n)},
                 !.cast = @ \cup {Vote(b, r, n)},
                 !.last_vote = <<Len(b), r>>]

\* The loop over the proposals, by increasing wait time: the open block needs
\* no verification unless another one was tried first; what cannot be verified
\* is put aside, and the first that can is opened and voted on.
open_and_vote(n, s, r, env) ==
  LET best == MinWait(Proposals(s))
      present == {b \in Proposals(s) : TxnsPresent(s, b)}
      good == MinWait({b \in present : Verifies(s, b, env)})
      winner == PickFirst(good, env)
      failed == {b \in present : ~ Verifies(s, b, env) /\
                                   (good = {} \/ Before(b, winner, env))}
      t == IF failed \subseteq env.locked THEN rollback_block(s)
           ELSE mark_outdated(rollback_block(s))
  IN IF best = {} THEN s
     ELSE IF PickFirst(best, env) = s.open_block THEN vote_on_block(n, s, r, s.open_block)
     ELSE IF good = {} THEN t
     ELSE vote_on_block(n, [t EXCEPT !.open_block = winner, !.verified = TRUE],
                        r, winner)

\* check_for_winner_block and choose_block_to_vote call each other, from round
\* 0 to round 1 and never back.
check_for_winner_block_1(s, env) ==
  IF ~ s.is_updating_state /\ Winners(s, 1) # {}
  THEN commit_winner(s, PickFirst(Winners(s, 1), env), env)
  ELSE s

\* (mutant) The rounds are numbered from 1.
choose_block_to_vote_2(n, s, env) ==
  IF s.last_vote = <<Height(s) + 1, 2>> \/ s.is_updating_state THEN s
  ELSE check_for_winner_block_1(open_and_vote(n, s, 2, env), env)

choose_block_to_vote_1(n, s, env) ==
  IF s.last_vote = <<Height(s) + 1, 1>> \/ s.is_updating_state THEN s
  ELSE check_for_winner_block_1(open_and_vote(n, s, 1, env), env)

\* (mutant) The votes already received are not subtracted.
AllVotes(s) == Cardinality(Node)

\* Can some known proposal still reach the majority in round 0?
RemainingVotes(s) ==
  Cardinality(Node) -
    Cardinality({v \in s.votes : v.round = 0 /\ v.block \in Proposals(s)})

\* (mutant) The comparison is strict.
CanExceedMajority(s) ==
  \E b \in Proposals(s) : NumVotes(s, b, 0) + RemainingVotes(s) > Majority

CanStillWin(s) ==
  \E b \in Proposals(s) : NumVotes(s, b, 0) + RemainingVotes(s) >= Majority

check_for_winner_block_0(n, s, env) ==
  IF s.new_blocks = {} \/ s.is_updating_state THEN s
  ELSE IF Winners(s, 0) # {}
  THEN commit_winner(s, PickFirst(Winners(s, 0), env), env)
  ELSE IF \/ s.last_vote = <<Height(s) + 1, 1>>
          \/ CanStillWin(s)
          \/ s.block_wait_timer
  THEN s
  ELSE choose_block_to_vote_1(n, s, env)

choose_block_to_vote_0(n, s, env) ==
  IF s.last_vote = <<Height(s) + 1, 0>> \/ s.is_updating_state THEN s
  ELSE check_for_winner_block_0(n, open_and_vote(n, s, 0, env), env)

-----------------------------------------------------------------------------
(* The network.  A block or a vote that was sent may reach a node at any   *)
(* later time, in any order, more than once (peers send their blocks and   *)
(* votes again to a node that connects or asks for an update) or never.    *)

SentBlocks == UNION {node[n].created : n \in Node}
SentVotes == UNION {node[n].cast : n \in Node}
SentTxns == UNION {node[n].submitted : n \in Node}

Become(n, s) == node' = [node EXCEPT ![n] = s]

Start(run) ==
  [chain |-> Genesis, new_blocks |-> {}, votes |-> {}, open_block |-> NoBlock,
   verified |-> FALSE, last_vote |-> <<0, 0>>, last_created |-> 0,
   new_block_timer |-> FALSE, block_wait_timer |-> FALSE,
   mempool |-> {}, used |-> {}, requested |-> {}, sync |-> "in_sync",
   is_updating_state |-> FALSE, update |-> NoBlock,
   created |-> {}, cast |-> {}, submitted |-> {}, run |-> run]

Init == node = [n \in Node |-> Start(0)]

-----------------------------------------------------------------------------
(* Transactions *)

\* A transaction enters the mempool when it is not there and its nonce was not
\* consumed by a block.
IsNew(s, t) == t \notin s.mempool \cup Executed(s.chain)

\* A transaction that enters the mempool.  One that was requested for a block makes the node look at
\* the blocks again, any other one may start the creation of a block.
process_new_transaction(n, s, t, env) ==
  LET m == [s EXCEPT !.mempool = @ \cup {t}, !.requested = @ \ {t}]
  IN IF t \notin s.requested THEN start_new_block_timer(m)
     ELSE IF s.new_blocks # {} /\ ~ s.block_wait_timer
     THEN choose_block_to_vote_0(n, m, env)
     ELSE m

\* The application of node n commits the transaction t, which the node sends
\* to its peers once it is in sync.
send_local_transactions(n, t) ==
  /\ t \notin SentTxns /\ IsNew(node[n], t)
  /\ node[n].sync = "in_sync"
  /\ \E env \in Environment(node[n]) :
       Become(n, process_new_transaction(
                   n, [node[n] EXCEPT !.submitted = @ \cup {t}], t, env))

\* Also how a node that restarted finds its own transactions again, in the
\* database of the application.
on_new_remote_transaction(n, t) ==
  /\ t \in SentTxns /\ IsNew(node[n], t)
  /\ \E env \in Environment(node[n]) :
       Become(n, process_new_transaction(n, node[n], t, env))

\* All the peers were asked for the transaction and none has sent it.
request_transaction_finished(n, t) ==
  /\ t \in node[n].requested
  /\ Become(n, [node[n] EXCEPT !.requested = @ \ {t}])

-----------------------------------------------------------------------------
(* Blocks and votes *)

new_block_timer_cb(n) ==
  LET s == rollback_block([node[n] EXCEPT !.new_block_timer = FALSE])
      b == Append(s.chain, [creator |-> n, txns |-> Unused(s), run |-> s.run])
  IN /\ node[n].new_block_timer
     /\ Height(s) < MaxHeight
     /\ \E begun \in BeginResults :
          Become(n,
            IF Unused(s) = {} THEN s
            ELSE IF s.is_updating_state \/ ~ begun
            THEN [s EXCEPT !.new_block_timer = TRUE]
            ELSE start_block_wait_timer(
                   [s EXCEPT !.new_blocks = @ \cup {b}, !.created = @ \cup {b},
                             !.open_block = b, !.verified = TRUE,
                             !.last_created = Len(b)]))

on_block_wait_timeout(n) ==
  /\ node[n].block_wait_timer
  /\ \E env \in Environment(node[n]) :
       Become(n, choose_block_to_vote_0(
                   n, [node[n] EXCEPT !.block_wait_timer = FALSE,
                                      !.new_block_timer = FALSE], env))

on_new_block(n, b) ==
  LET s == node[n]
      missing == Head1(b).txns \ s.mempool
      t == [s EXCEPT !.new_blocks = @ \cup {b}, !.requested = @ \cup missing]
  IN /\ b \in SentBlocks \ s.new_blocks
     /\ Len(b) > Height(s)
     /\ {n} \X missing \subseteq Late
     /\ \E env \in Environment(t) :
          Become(n,
            IF Len(b) > Height(s) + 1 THEN request_state_update(t)
            ELSE IF missing # {} THEN start_block_wait_timer(t)
            ELSE check_for_winner_block_0(n, start_block_wait_timer(t), env))

on_block_vote(n, v) ==
  LET s == node[n]
      t == [s EXCEPT !.votes = @ \cup {v}]
  IN /\ v \in SentVotes \ s.votes
     /\ Len(v.block) > Height(s)
     /\ \E env \in Environment(t) :
          Become(n,
            IF v.block \notin s.new_blocks
            THEN IF Len(v.block) > Height(s) + 1 THEN request_state_update(t) ELSE t
            ELSE IF v.round = 0 THEN check_for_winner_block_0(n, t, env)
            ELSE check_for_winner_block_1(t, env))

-----------------------------------------------------------------------------
(* State update, seen from the consensus: a node that is behind receives   *)
(* the pages and the last block of a peer, as they are when the peer       *)
(* serves the request.                                                     *)

\* The 500 ms timer asks for an update when the node is not in sync.
process_transactions_timer_cb(n) ==
  /\ node[n].sync = "outdated"
  /\ Become(n, request_state_update(node[n]))

\* Node m serves the request of node n, rolling its open block back.
on_request_state_update(m, n) ==
  /\ m # n
  /\ node[n].sync = "synchronizing" /\ ~ node[n].is_updating_state
  /\ node[m].sync # "synchronizing"
  /\ Height(node[m]) > Height(node[n])
  /\ node' = [node EXCEPT ![m] = rollback_block(@),
                          ![n].update = node[m].chain]

\* The next peer is contacted, or the update is finished because a majority of
\* the nodes already was.
request_state_update_next(s) ==
  {[s EXCEPT !.is_updating_state = FALSE, !.update = NoBlock, !.sync = state] :
     state \in {"synchronizing", "in_sync"}}

\* (mutant) The height of the update is not compared with that of the node.
on_update_db_page_of_any_height(n) ==
  LET s == rollback_block(node[n])
  IN /\ s.sync = "synchronizing" /\ ~ s.is_updating_state
     /\ s.update # NoBlock
     /\ Become(n, [s EXCEPT !.is_updating_state = TRUE])

\* The first page starts the update, unless the database is locked.
on_update_db_page(n) ==
  LET s == rollback_block(node[n])
  IN /\ s.sync = "synchronizing" /\ ~ s.is_updating_state
     /\ Len(s.update) > Height(s)
     /\ \E begun \in BeginResults :
          IF begun THEN Become(n, [s EXCEPT !.is_updating_state = TRUE])
          ELSE \E u \in request_state_update_next(s) : Become(n, u)

\* The pages changed since the height of the node lead to the state of the new
\* block, unless they come from another chain: then they may or may not.
UpdateResults(s) ==
  IF /\ s.chain \in {SubSeq(s.update, 1, h) : h \in DOMAIN s.update}
     /\ "commit" \notin Faults
  THEN {TRUE} ELSE BOOLEAN

on_apply_state_update(n) ==
  LET s == node[n]
      t == check_mempool_transactions(
             [s EXCEPT !.chain = s.update,
                       !.new_blocks = {b \in @ : Len(b) > Len(s.update)},
                       !.votes = {v \in @ : Len(v.block) > Len(s.update)}])
  IN /\ s.is_updating_state
     /\ \E applied \in UpdateResults(s) :
          \E u \in request_state_update_next(IF applied THEN t ELSE s) : Become(n, u)

on_state_update_node_timeout(n) ==
  /\ node[n].sync = "synchronizing"
  /\ \E u \in request_state_update_next(node[n]) : Become(n, u)

-----------------------------------------------------------------------------
(* A crash loses the whole plugin structure; the database keeps the chain. *)
(* What was sent before stays in the network.                              *)

plugin_init(n) ==
  LET s == node[n]
  IN /\ s.run < MaxRestarts[n]
     /\ Become(n, [Start(s.run + 1) EXCEPT !.chain = s.chain, !.sync = "outdated",
                                           !.created = s.created, !.cast = s.cast,
                                           !.submitted = s.submitted])

Next ==
  \E n \in Node :
    \/ \E t \in Txn : send_local_transactions(n, t)
    \/ \E t \in Txn : on_new_remote_transaction(n, t)
    \/ \E t \in Txn : request_transaction_finished(n, t)
    \/ new_block_timer_cb(n)
    \/ on_block_wait_timeout(n)
    \/ \E b \in SentBlocks : on_new_block(n, b)
    \/ \E v \in SentVotes : on_block_vote(n, v)
    \/ process_transactions_timer_cb(n)
    \/ \E m \in Node : on_request_state_update(m, n)
    \/ on_update_db_page(n)
    \/ on_apply_state_update(n)
    \/ on_state_update_node_timeout(n)
    \/ plugin_init(n)

Spec == Init /\ [][Next]_node

(***************************************************************************)
(* The event loop of a running node does not stop while a timer has        *)
(* expired or a message has arrived, and a connection delivers what is     *)
(* sent on it.  The application need not commit anything, and nothing      *)
(* makes a request expire, a state update time out or a node restart.      *)
(***************************************************************************)
EventLoop(n) ==
  \/ \E t \in Txn : on_new_remote_transaction(n, t)
  \/ new_block_timer_cb(n)
  \/ on_block_wait_timeout(n)
  \/ \E b \in SentBlocks : on_new_block(n, b)
  \/ \E v \in SentVotes : on_block_vote(n, v)

\* No timer of node n is to expire, and nothing is on its way to it.
Idle(n) ==
  LET s == node[n]
  IN /\ SentTxns \subseteq s.mempool \cup Executed(s.chain)
     /\ ~ (s.new_block_timer /\ Height(s) < MaxHeight)
     /\ ~ s.block_wait_timer
     /\ \A b \in SentBlocks \ s.new_blocks :
          Len(b) > Height(s) => ~ ({n} \X (Head1(b).txns \ s.mempool) \subseteq Late)
     /\ \A v \in SentVotes \ s.votes : Len(v.block) <= Height(s)

\* WF_node(EventLoop(n)), with ENABLED written out: EventLoop(n) is enabled
\* exactly when n is not idle.
Fairness == \A n \in Node : []<>Idle(n) \/ []<><<EventLoop(n)>>_node

FairSpec == Spec /\ Fairness

-----------------------------------------------------------------------------
(* Properties *)

Block == Seq(Body)
VoteSet == [block : Block, round : Round, voter : Node]

NodeState ==
  [chain : Block, new_blocks : SUBSET Block, votes : SUBSET VoteSet,
   open_block : Block, verified : BOOLEAN, last_vote : Nat \X Round,
   last_created : Nat, new_block_timer : BOOLEAN, block_wait_timer : BOOLEAN,
   mempool : SUBSET Txn, used : SUBSET Txn, requested : SUBSET Txn, sync : SyncState,
   is_updating_state : BOOLEAN, update : Block,
   created : SUBSET Block, cast : SUBSET VoteSet, submitted : SUBSET Txn,
   run : Run]

\* The plugin structure of every node keeps its type.
TypeOK == node \in [Node -> NodeState]

\* A node votes for at most one block of a height in each round.  The code
\* remembers only its last vote (last_vote_height, last_vote_round), so this
\* is a property of the order in which its timers and messages come.
OneVotePerRound ==
  \A n \in Node : \A v, w \in node[n].cast :
    Len(v.block) = Len(w.block) /\ v.round = w.round => v.block = w.block

\* No two nodes commit different blocks at the same height.
Agreement ==
  \A m, n \in Node :
    \A h \in DOMAIN node[m].chain \cap DOMAIN node[n].chain :
      node[m].chain[h] = node[n].chain[h]

\* The blocks n has committed after the first one.
Committed(n) ==
  {SubSeq(node[n].chain, 1, h) : h \in 2 .. Len(node[n].chain)}

\* Block b has the votes of a majority in round r.
HasQuorum(b, r) == Cardinality({n \in Node : Vote(b, r, n) \in SentVotes}) >= Majority

\* Every block of every chain, also one that came with a state update after the
\* votes on it were discarded, has the votes of a majority in one round.
CommittedByMajority ==
  \A n \in Node : \A b \in Committed(n) : \E r \in Round : HasQuorum(b, r)

\* The nodes that could still vote for b, and for nothing else, in round 0.
MayVoteFirst(b) ==
  {n \in Node : \A v \in node[n].cast :
     v.round = 0 /\ Len(v.block) = Len(b) => v.block = b}

\* A second-round vote is only cast when no block of its height that has a vote
\* can get a majority in the first round any more, whatever the other nodes
\* still do: the node decides it on the votes and blocks that have reached it.
SecondRoundSafe ==
  \A v, w \in SentVotes :
    v.round = 1 /\ Len(w.block) = Len(v.block) =>
      Cardinality(MayVoteFirst(w.block)) < Majority

\* A transaction is executed once, whichever nodes proposed it for whichever
\* heights: what a node puts in a block is only kept apart from what its chain
\* holds by the marks of commit_block (consensus.c:504), by the clearing of the
\* mempool after a block or an update, and by the check of a transaction that
\* arrives.
ExecutedOnce ==
  \A n \in Node : \A i, j \in DOMAIN node[n].chain :
    i # j => node[n].chain[i].txns \cap node[n].chain[j].txns = {}

\* open_block never points to a block that was discarded (the list of new
\* blocks owns it), nor to one that does not extend the current block.
OpenBlockOnList ==
  \A n \in Node : LET s == node[n] IN
    s.open_block # NoBlock =>
      s.open_block \in s.new_blocks /\ Parent(s.open_block) = s.chain

\* Nothing a node has committed is ever replaced: a commit or a state update,
\* which may be under way at the same time (state_update.c:366), only continues
\* the chain of the node.
Finality ==
  [][\A n \in Node :
       /\ Len(node[n].chain) <= Len(node'[n].chain)
       /\ SubSeq(node'[n].chain, 1, Len(node[n].chain)) = node[n].chain]_node

\* Every transaction an application commits is in the end executed on every
\* node.
TransactionsExecuted ==
  \A t \in Txn :
    (t \in SentTxns) ~> (\A n \in Node : t \in Executed(node[n].chain))

-----------------------------------------------------------------------------
(* What the nodes implement together: a single ledger, of which each node  *)
(* holds a prefix.                                                         *)

LongestChain ==
  CHOOSE c \in {node[n].chain : n \in Node} :
    \A n \in Node : Len(node[n].chain) <= Len(c)

L == INSTANCE Ledger WITH ledger <- LongestChain,
                          height <- [n \in Node |-> Len(node[n].chain)]

\* The chains of the nodes behave as prefixes of one ledger.
ImplementsLedger == L!Spec
=============================================================================
