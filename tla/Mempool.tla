------------------------------ MODULE Mempool ------------------------------
(***************************************************************************)
(* The way of a transaction, from the log of the node where it was made to *)
(* the block that executes it on every node (transactions.c, and the parts *)
(* of consensus.c that fill, verify and commit a block).  The vote itself  *)
(* is module Consensus: here a block is decided when a majority has voted  *)
(* for it, and there is one decided block per height.                      *)
(***************************************************************************)
EXTENDS Integers, Sequences, FiniteSets, FiniteSetsExt, Functions

CONSTANTS
  Node,        \* the nodes
  Network,     \* the networks: nodes are the authorized ones and full the full
               \* nodes among them, links their first connections, local[n] how
               \* many transactions the application of n makes, and max_faults
               \* the bound on disconnections and crashes together
  Executed,    \* the transactions the first blocks have, one in each
  Rejected,    \* the transactions whose SQL commands fail on every node
  Faults       \* what may go wrong: "busy", "error", "disconnect", "crash"

ASSUMPTION NetworkAssumption ==
  /\ IsFiniteSet(Node)
  /\ \A w \in Network :
       /\ w.nodes \subseteq Node /\ w.full \subseteq w.nodes /\ w.links \subseteq w.nodes \X w.nodes
       /\ w.local \in [Node -> Nat] /\ w.max_faults \in Nat

\* A transaction is identified by its node and its nonce.
Txn == UNION {{n} \X (1 .. w.local[n]) : n \in Node, w \in Network}

\* The applications make finitely many transactions.  The first blocks were made
\* like the others: the nonces of each node in order.
ASSUMPTION TxnAssumption ==
  /\ IsFiniteSet(Txn) /\ Rejected \subseteq Txn /\ Executed \in Seq(Txn)
  /\ \A h \in DOMAIN Executed :
       {Executed[g][2] : g \in {i \in 1 .. h - 1 : Executed[i][1] = Executed[h][1]}}
         = 1 .. Executed[h][2] - 1

VARIABLES
  network,     \* the one of Network the nodes are in
  node,        \* the plugin and the database of each node
  links,       \* the connections, as pairs in both directions
  chan,        \* chan[<<m, n>>]: the transactions on their way from m to n
  blocks,      \* the blocks proposed at the next height
  votes,       \* the votes on them
  chain,       \* the decided blocks
  faults       \* how many disconnections and crashes there were

vars == <<network, node, links, chan, blocks, votes, chain, faults>>

-----------------------------------------------------------------------------
(* Helpers *)

Majority == Cardinality(network.nodes) \div 2 + 1

\* The transactions of the blocks up to a height.
InChain(h) == UNION {chain[i].txns : i \in 1 .. h}

\* The numbers of one block at most: each block has a transaction of its own.
Height == 0 .. Cardinality(Txn)

\* A block lists its transactions, and which of them failed at its creator.
Block == [height : Height, txns : SUBSET Txn, failed : SUBSET Txn]

NoBlock == [height |-> 0, txns |-> {}, failed |-> {}]

Nonces(m, ts) == {t[2] : t \in {u \in ts : u[1] = m}}

\* The last nonce of each node once the transactions ts are executed: the
\* code writes the nonce of the transaction, whatever it was before.
NoncesAfter(last_nonce, ts) ==
  [m \in Node |-> IF Nonces(m, ts) = {} THEN last_nonce[m] ELSE Max(Nonces(m, ts))]

\* In memory the last nonces are those of the open block.
LastNonce(s) == NoncesAfter(s.last_nonce, s.open.txns)

Unused(s) == {t \in s.mempool : s.block_height[t] = 0}

Peers(n) == {m \in Node : <<n, m>> \in links}

can_create_block(n) == 1 + Cardinality(Peers(n)) >= Majority

\* What may go wrong at one node while transactions ts are executed: some
\* cannot be executed now, some fail here only.
Outcomes(ts) ==
  [busy : IF "busy" \in Faults THEN SUBSET ts ELSE {{}},
   error : IF "error" \in Faults THEN SUBSET ts ELSE {{}}]

Failing(ts, env) == ts \cap (Rejected \cup env.error)

-----------------------------------------------------------------------------
(* The functions the handlers call, on the state s of node n *)

rollback_block(s) == [s EXCEPT !.open = NoBlock]

start_new_block_timer(n, s) ==
  IF /\ s.sync_down = "in_sync" /\ ~ s.created
     /\ Unused(s) # {} /\ can_create_block(n)
  THEN [s EXCEPT !.new_block_timer = TRUE]
  ELSE s

\* (mutant) Only the mempool is looked up, not the blocks.
StorableAgain(s, ts) == ts \ s.mempool

\* The transactions of ts that are neither in the mempool nor old.
Storable(s, ts) == {t \in ts \ s.mempool : t[2] > LastNonce(s)[t[1]]}

\* A requested transaction starts a vote instead of the timer of the next block.
process_new_transactions(n, s, ts, requested) ==
  LET new == Storable(s, ts)
      stored == [s EXCEPT !.mempool = @ \cup new]
  IN IF new = {} \/ requested THEN stored ELSE start_new_block_timer(n, stored)

\* The transactions in the log of the node that no block has included yet.
Pending(n, s) == {n} \X (s.last_nonce[n] + 1 .. s.made)

\* Without peers the loop ends at the first transaction, which stays in the
\* mempool.
Sendable(n, s) ==
  IF Peers(n) = {} THEN Pending(n, s) \cap {<<n, s.last_nonce[n] + 1>>} ELSE Pending(n, s)

send_local_transactions(n, s) ==
  LET sent == process_new_transactions(n, s, Sendable(n, s), FALSE)
  IN [sent EXCEPT !.sync_up = IF Pending(n, s) = {} \/ Peers(n) # {}
                              THEN "in_sync" ELSE "local_changes"]

\* (mutant) Any transaction later than the last one.
NextNonces(s) == {t \in Unused(s) : t[2] > s.last_nonce[t[1]]}

\* The loop takes the transaction with the next nonce of its node, as long as
\* there is one.
InOrder(s) ==
  {t \in Unused(s) : \A k \in s.last_nonce[t[1]] + 1 .. t[2] : <<t[1], k>> \in Unused(s)}

\* What the core does with the transactions: those that are busy leave no trace.
create_block(s, env) ==
  LET included == InOrder(s) \ env.busy
  IN [height |-> s.height + 1, txns |-> included, failed |-> Failing(included, env)]

\* The block is verified by executing it: "ok", to be tried "later", a
\* transaction that "fails" here, or one that was to fail and does not, which
\* leaves the result of the last call, SQLITE_OK, as the result of verify_block.
Verdicts(b, env) ==
  LET early == {"later" : t \in env.busy \cap b.txns}
      here == Failing(b.txns, env)
      wrong == {"fails" : t \in here \ b.failed} \cup {"differs" : t \in b.failed \ here}
  IN IF early \cup wrong = {} THEN {"ok"} ELSE early \cup wrong

\* (mutant) The state of a node that has not looked for peers.
mark_unknown(s) == [s EXCEPT !.sync_down = "unknown"]

mark_outdated(s) == [s EXCEPT !.sync_down = "outdated"]

\* (mutant) The block is executed but open_block is not set.
verify_block_only(s, b, verdict) ==
  IF verdict = "later" THEN rollback_block(s)
  ELSE IF verdict = "ok" THEN s ELSE mark_outdated(rollback_block(s))

\* The state after verify_block, with the block open when it is correct.
verify_block(s, b, verdict) ==
  CASE verdict = "ok" -> [s EXCEPT !.open = b]
    [] verdict = "later" -> rollback_block(s)
    [] OTHER -> mark_outdated(rollback_block(s))

\* (mutant) Also those that commit_block has just marked.
check_mempool_transactions_marked(s) ==
  [s EXCEPT !.mempool = {t \in @ : t[2] > s.last_nonce[t[1]]}]

\* Transactions that were in a block and are not in the mempool's first list
\* of used ones: not marked, and of an old nonce.
check_mempool_transactions(s) ==
  [s EXCEPT !.mempool = @ \ {t \in Unused(s) : t[2] <= s.last_nonce[t[1]]}]

\* Transactions stay for two more blocks: peers may still ask for them.
LongUsed(s, h) == {t \in s.mempool : s.block_height[t] \in 1 .. h - 2}

\* For each transaction of the block one that was used long ago is removed.
Removable(s, b) ==
  kSubset(Min({Cardinality(b.txns), Cardinality(LongUsed(s, b.height))}), LongUsed(s, b.height))

\* The core's commit, and the marks in the mempool.  own_blocks is read by no
\* action: the blocks the node committed since it started.
Committed(s, b, removed) ==
  [s EXCEPT !.height = b.height, !.created = FALSE, !.own_blocks = @ \cup {b.height},
            !.last_nonce = NoncesAfter(@, b.txns),
            !.block_height = [t \in Txn |-> IF t \in b.txns /\ t \in s.mempool THEN b.height
                                            ELSE IF t \in removed THEN 0 ELSE @[t]],
            !.mempool = @ \ removed,
            !.open = NoBlock]

\* (mutant) The transactions that the block left wait for the next one.
commit_block_idle(n, s, b, removed) == check_mempool_transactions(Committed(s, b, removed))

commit_block(n, s, b, removed) ==
  start_new_block_timer(n, check_mempool_transactions(Committed(s, b, removed)))

-----------------------------------------------------------------------------
(* Transactions *)

Become(n, s) == node' = [node EXCEPT ![n] = s]

\* Messages ts from n to its peers.
Broadcast(n, ts) ==
  chan' = [c \in DOMAIN chan |-> IF c[1] = n /\ c \in links THEN chan[c] \cup ts ELSE chan[c]]

\* The application commits a transaction: it is written to the log of the node,
\* and the worker thread is notified (on the thread of the application).
on_new_local_transaction(n) ==
  /\ node[n].made < network.local[n]
  /\ Become(n, [node[n] EXCEPT !.made = @ + 1, !.notified = TRUE])
  /\ UNCHANGED <<links, chan, blocks, votes, chain, faults, network>>

on_local_transaction(n) ==
  LET s == [node[n] EXCEPT !.notified = FALSE, !.sync_up = "local_changes"]
  IN /\ node[n].notified
     /\ \/ /\ s.sync_down = "in_sync"
           /\ Become(n, send_local_transactions(n, s))
           /\ Broadcast(n, Sendable(n, s))
        \/ /\ s.sync_down # "in_sync"
           /\ Become(n, s)
           /\ UNCHANGED chan
     /\ UNCHANGED <<links, blocks, votes, chain, faults, network>>

\* Twice in a second: what was not sent is sent again.
process_transactions_timer_cb(n) ==
  /\ Peers(n) # {} /\ node[n].sync_down = "in_sync" /\ node[n].sync_up # "in_sync"
  /\ Become(n, send_local_transactions(n, node[n]))
  /\ Broadcast(n, Sendable(n, node[n]))
  /\ UNCHANGED <<links, blocks, votes, chain, faults, network>>

\* Also for a transaction that was requested, when it is not waited for any more
\* it is ignored.
on_new_remote_transaction(m, n) ==
  \E t \in chan[<<m, n>>] :
    LET requested == t \in node[n].requested
        s == [node[n] EXCEPT !.requested = @ \ {t}]
    IN /\ chan' = [chan EXCEPT ![<<m, n>>] = @ \ {t}]
       /\ Become(n, process_new_transactions(n, s, {t}, requested))
       /\ UNCHANGED <<links, blocks, votes, chain, faults, network>>

\* The block that n may verify next.
IsNext(n, b) ==
  /\ b.height = node[n].height + 1
  /\ b \in blocks \/ (b.height <= Len(chain) /\ b = chain[b.height])

NextBlocks(n) == {b \in blocks \cup {chain[h] : h \in 1 .. Len(chain)} : IsNext(n, b)}

\* The transactions that m has: a full node also finds those it has executed.
Stored(m) ==
  node[m].mempool \cup IF m \in network.full THEN InChain(node[m].height) ELSE {}

\* n asks m for a transaction of a block, and m has it.
on_get_transaction(m, n) ==
  /\ <<m, n>> \in links
  /\ \E b \in NextBlocks(n) : \E t \in (b.txns \ node[n].mempool) \cap Stored(m) :
       /\ t \notin chan[<<m, n>>]
       /\ chan' = [chan EXCEPT ![<<m, n>>] = @ \cup {t}]
       /\ Become(n, [node[n] EXCEPT !.requested = @ \cup {t}])
  /\ UNCHANGED <<links, blocks, votes, chain, faults, network>>

-----------------------------------------------------------------------------
(* Blocks *)

new_block_timer_cb(n) ==
  LET s == rollback_block([node[n] EXCEPT !.new_block_timer = FALSE])
  IN /\ node[n].new_block_timer
     /\ \/ /\ Unused(s) = {} \/ ~ can_create_block(n)
           /\ Become(n, s)
           /\ UNCHANGED blocks
        \/ /\ Unused(s) # {} /\ can_create_block(n)
           /\ \E env \in Outcomes(InOrder(s)) :
                LET b == create_block(s, env) IN
                IF b.txns = {}
                THEN /\ Become(n, [s EXCEPT !.new_block_timer = TRUE])
                     /\ UNCHANGED blocks
                ELSE /\ Become(n, [s EXCEPT !.open = b, !.created = TRUE])
                     /\ blocks' = IF b.height = Len(chain) + 1 THEN blocks \cup {b} ELSE blocks
     /\ UNCHANGED <<links, chan, votes, chain, faults, network>>

\* How the execution of block b may end at n: a block that is open was executed.
VerdictsAt(n, b) ==
  IF node[n].open = b THEN {"ok"}
  ELSE UNION {Verdicts(b, env) : env \in Outcomes(b.txns)}

\* One of the blocks is executed and gets the vote of n.  The timer of the next
\* block was stopped unless the vote follows a requested transaction.
choose_block_to_vote(n) ==
  \E b \in NextBlocks(n) \cap blocks :
    /\ <<n, b>> \notin votes
    /\ b.txns \subseteq node[n].mempool
    /\ \E verdict \in VerdictsAt(n, b), running \in {FALSE, node[n].new_block_timer} :
         /\ Become(n, verify_block([node[n] EXCEPT !.new_block_timer = running], b, verdict))
         /\ votes' = IF verdict \in {"ok", "differs"} THEN votes \cup {<<n, b>>} ELSE votes
    /\ UNCHANGED <<links, chan, blocks, chain, faults, network>>

HasMajority(b) == Cardinality({v \in votes : v[2] = b}) >= Majority

\* A block with a majority is executed, if it is not open, and committed.
\* verify_block may have failed and returned SQLITE_OK: the core then refuses to commit.
check_for_winner_block(n) ==
  \E b \in NextBlocks(n) :
    /\ b \in blocks => HasMajority(b)
    /\ b.txns \subseteq node[n].mempool
    /\ \/ /\ "ok" \in VerdictsAt(n, b)
          /\ \E removed \in Removable(node[n], b) : Become(n, commit_block(n, node[n], b, removed))
          /\ chain' = IF b \in blocks THEN Append(chain, b) ELSE chain
          /\ blocks' = IF b \in blocks THEN {} ELSE blocks
          /\ votes' = IF b \in blocks THEN {} ELSE votes
       \/ /\ \E verdict \in VerdictsAt(n, b) \ {"ok"} : Become(n, verify_block(node[n], b, verdict))
          /\ UNCHANGED <<blocks, votes, chain>>
    /\ UNCHANGED <<links, chan, faults, network>>

\* A proposal of a later height, from a peer, shows n that it is behind.
on_future_block(n) ==
  /\ Peers(n) # {}
  /\ node[n].sync_down = "in_sync"
  /\ \E b \in blocks : b.height > node[n].height + 1
  /\ Become(n, mark_outdated(node[n]))
  /\ UNCHANGED <<links, chan, blocks, votes, chain, faults, network>>

\* Node n takes over the state of its peer m (module StateUpdate), or learns
\* that it has that state; a node without a block goes on asking
\* (state_update.c:186).
on_apply_state_update(m, n) ==
  LET s == [node[n] EXCEPT !.sync_down = "in_sync"] IN
  /\ <<m, n>> \in links
  /\ node[n].sync_down # "in_sync"
  /\ \/ /\ node[m].height <= s.height /\ s.height > 0
        /\ Become(n, s)
     \/ /\ node[m].height > s.height
        /\ Become(n, check_mempool_transactions(
                       [rollback_block(s) EXCEPT !.height = node[m].height, !.created = FALSE,
                                                 !.last_nonce = node[m].last_nonce]))
  /\ UNCHANGED <<links, chan, blocks, votes, chain, faults, network>>

-----------------------------------------------------------------------------
(* Connections and crashes *)

Pair(m, n) == {<<m, n>>, <<n, m>>}

connection_dropped(m, n) ==
  /\ "disconnect" \in Faults /\ faults < network.max_faults
  /\ <<m, n>> \in links
  /\ links' = links \ Pair(m, n)
  /\ chan' = [c \in DOMAIN chan |-> IF c \in Pair(m, n) THEN {} ELSE chan[c]]
  /\ faults' = faults + 1
  /\ UNCHANGED <<network, node, blocks, votes, chain>>

\* Two nodes connect and accept each other: each sends its mempool.
on_new_accepted_node(m, n) ==
  /\ {m, n} \subseteq network.nodes
  /\ m # n /\ <<m, n>> \notin links
  /\ links' = links \cup Pair(m, n)
  /\ chan' = [chan EXCEPT ![<<m, n>>] = node[m].mempool, ![<<n, m>>] = node[n].mempool]
  /\ node' = [p \in Node |-> IF p \in {m, n} THEN [node[p] EXCEPT
                  !.new_block_timer = @ \/ ( /\ node[p].sync_down = "in_sync"
                                             /\ ~ node[p].created
                                             /\ Unused(node[p]) # {}
                                             /\ 2 + Cardinality(Peers(p)) >= Majority )]
                ELSE node[p]]
  /\ UNCHANGED <<blocks, votes, chain, faults, network>>

Started(height, last_nonce, made) ==
  [height |-> height, last_nonce |-> last_nonce, made |-> made, notified |-> FALSE,
   own_blocks |-> {}, mempool |-> {}, block_height |-> [t \in Txn |-> 0], requested |-> {},
   open |-> NoBlock,
   created |-> FALSE, new_block_timer |-> FALSE, sync_up |-> "unknown",
   sync_down |-> "outdated"]

\* A node crashes and starts again with its database and the log of its
\* transactions.
plugin_init(n) ==
  /\ n \in network.nodes
  /\ "crash" \in Faults /\ faults < network.max_faults
  /\ Become(n, Started(node[n].height, node[n].last_nonce, node[n].made))
  /\ links' = {c \in links : n \notin {c[1], c[2]}}
  /\ chan' = [c \in DOMAIN chan |-> IF n \in {c[1], c[2]} THEN {} ELSE chan[c]]
  /\ faults' = faults + 1
  /\ UNCHANGED <<network, blocks, votes, chain>>

FirstBlocks ==
  [h \in DOMAIN Executed |->
     [height |-> h, txns |-> {Executed[h]}, failed |-> {Executed[h]} \cap Rejected]]

\* A node that has the first blocks, and still their transactions; without a
\* first block it has just started.
Running(n) ==
  LET last_nonce == NoncesAfter([m \in Node |-> 0], Range(Executed))
  IN [Started(Len(Executed), last_nonce, last_nonce[n]) EXCEPT
        !.own_blocks = DOMAIN Executed, !.mempool = Range(Executed),
        !.block_height = [t \in Txn |-> Max({0} \cup {h \in DOMAIN Executed : Executed[h] = t})],
        !.sync_down = IF Executed = <<>> THEN "outdated" ELSE "in_sync"]

Init ==
  /\ network \in Network
  /\ node = [n \in Node |-> Running(n)]
  /\ links = network.links
  /\ chan = [c \in Node \X Node |-> {}]
  /\ blocks = {} /\ votes = {} /\ chain = FirstBlocks /\ faults = 0

Worker(n) ==
  \/ on_local_transaction(n)
  \/ process_transactions_timer_cb(n)
  \/ new_block_timer_cb(n)
  \/ choose_block_to_vote(n)
  \/ check_for_winner_block(n)
  \/ on_future_block(n)

Receive(m, n) ==
  \/ on_new_remote_transaction(m, n)
  \/ on_get_transaction(m, n)
  \/ on_apply_state_update(m, n)

Next ==
  \/ \E n \in Node : Worker(n) \/ on_new_local_transaction(n) \/ plugin_init(n)
  \/ \E m, n \in Node :
       Receive(m, n) \/ connection_dropped(m, n) \/ on_new_accepted_node(m, n)

Spec == Init /\ [][Next]_vars

-----------------------------------------------------------------------------
(* Properties *)

NodeState ==
  [height : Height, last_nonce : [Node -> Nat], made : Nat, notified : BOOLEAN,
   own_blocks : SUBSET Height, mempool : SUBSET Txn, block_height : [Txn -> Height],
   requested : SUBSET Txn,
   open : Block, created : BOOLEAN, new_block_timer : BOOLEAN,
   sync_up : {"unknown", "local_changes", "in_sync"}, sync_down : {"outdated", "in_sync"}]

\* The variables keep their types.
TypeOK ==
  /\ node \in [Node -> NodeState]
  /\ links \subseteq Node \X Node
  /\ chan \in [Node \X Node -> SUBSET Txn]
  /\ blocks \subseteq Block /\ votes \subseteq Node \X Block
  /\ chain \in Seq(Block)
  /\ network \in Network
  /\ faults \in 0 .. network.max_faults

\* The blocks take the transactions of each node in the order of their nonces:
\* none is left out, and none is executed twice (is_next_nonce, consensus.c).
NonceOrder ==
  /\ \A h \in 1 .. Len(chain) : chain[h].txns \cap InChain(h - 1) = {}
  /\ \A h \in 0 .. Len(chain) : \A t \in InChain(h) : \A k \in 1 .. t[2] : <<t[1], k>> \in InChain(h)

\* What a node would put in its next block is not in the blocks it has.
UnusedIsNew ==
  \A n \in Node : \A t \in Unused(node[n]) : t \notin InChain(node[n].height)

\* A node votes for the block that is open in its database: one it has
\* verified (vote_on_block is called when "the block is OK", consensus.c:682).
VotesAreVerified ==
  [][\A v \in votes' \ votes : node'[v[1]].open = v[2]]_vars

\* A node that is behind finds every transaction of its next block at any peer
\* that committed the block and is at most one block further, although the peer
\* has executed them ("remove the old transactions from the mempool",
\* consensus.c:514, and check_mempool_transactions after each block or update).
ServedByPeers ==
  \A m, n \in Node :
    LET next == node[n].height + 1 IN
    next \in node[m].own_blocks /\ node[m].height <= next + 1 =>
      chain[next].txns \subseteq Stored(m)

AllProcessed == \A n \in Node : \A k \in 1 .. node[n].made : <<n, k>> \in InChain(Len(chain))

AllExecuted == AllProcessed /\ \A n \in network.nodes : node[n].height = Len(chain)

\* The transactions that the applications commit are executed, or rejected, in
\* the blocks, and every node executes the blocks: as long as no connection
\* drops and no node crashes (start_new_block_timer, consensus.c:1189, runs when
\* there is a transaction to execute).
TransactionsProcessed == []<>(AllExecuted \/ faults > 0)

\* "once they reach a consensus on the order of execution all the nodes execute
\* the transactions" (README.md:11), whatever happened before.
EventuallyProcessed == []<>AllProcessed

\* The event loops run: as long as there is a timer or a message to handle, some
\* node handles one.
Progress ==
  \/ \E n \in Node : Worker(n)
  \/ \E m, n \in Node : Receive(m, n) \/ on_new_accepted_node(m, n)

FairSpec == Spec /\ WF_vars(Progress)
=============================================================================
