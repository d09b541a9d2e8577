# A TLA+ model of AergoLite

AergoLite is SQLite with a blockchain underneath: every application has a replica
of the database, the transactions of all applications are put in blocks, and the
nodes agree on the blocks without a leader.  This directory holds TLA+ modules that
model its core logic, TLC configurations that check them on small instances, and
proofs checked by TLAPS.  Paths are relative to the root of the repository.

## 1. Inventory

Two layers make a node.  The *core* (`core/sqlite3.c`, the part of the amalgamation
from about line 225271 to 232700) keeps the block chain and the database files; the
*plugin* (`plugins/no-leader`) runs in a worker thread with a libuv loop, talks to the
peers and decides which blocks the core commits.  The application's threads call SQLite;
they reach the worker only through a queue of commands and the database locks.  So
inside a node every message, timer and command handler is atomic; the concurrency
is between the nodes, between the worker and the application (database locks), and between a
handler and the timers it has left running.

| component | state | operations | hard behaviour | what makes it correct |
|---|---|---|---|---|
| block consensus, `consensus.c` | `current_block`, `new_blocks`, `open_block`, votes, `last_vote_*`, `last_created_block_height`, two timers | propose, receive a block, vote, receive a vote, commit, roll back | proposals and votes in any order, split votes, a second round, votes lost by a restart | agreement, finality, majority behind each block, one vote a round, progress |
| block producer, `block_producer.c` | last VRF proof | wait interval from the VRF output, check of a proof | integer division and conversions at the bounds | interval within its bounds, same order on all nodes |
| state update, `state_update.c` | `sync_down_state`, `is_updating_state`, contacted and failed peers, a timer | ask a peer, receive pages, apply, up to date, busy, timeout; serve a peer | late answers, peers that are busy, consensus going on meanwhile | no mixture of two updates, no use of a half-updated database, termination |
| transactions, `transactions.c` | `mempool`, nonces, `special_txn`, `sync_up_state` | send local, receive remote, notify results, drop old ones | order of nonces, a transaction in a block before it is in the mempool | executed once and in nonce order, none forgotten |
| requests, `requests.c` | list of requests, asked peers, timers | ask for a transaction or a block, next peer, answer | the answer comes after the request ended | each missing item is asked for once, request objects end |
| membership, `allowed_nodes.c` | authorizations, node types, connection identifiers | authorize, accept, identify, drop a duplicate connection | both ends choose the connection to close; the majority changes with a block | one connection per pair, same set at the same height |
| connections and node thread, `no-leader.c` | peers, timers, queue of commands | connect, dispatch a message, periodic work, start and exit | reconnection, a lost connection during an update | a message is handled only in the states that allow it |
| node discovery, `node_discovery.c` | known addresses | announce, collect | mostly I/O | - |
| libuv helpers, `plugins/common` | call queue, read buffer | call between threads, message framing | partial reads, calls to a stopped callback | every message once, whole and in order |
| block store, `core/sqlite3.c` | two database files, active block, page hashes, authorizations | begin, execute, verify, commit, roll back a block; state update; load; log rotation | a commit of two files, a crash in between, the application's readers | the files agree after any crash |
| data structures, `common/array.c`, `linked_list.c` | - | insert, remove, find | ends of the array | as a set or a sequence |
| stored procedures, codec, shell, SQLite, encodings | - | - | sequential or vendored | out of scope |

How they interact: the consensus calls the core to begin, verify, commit and roll back
a block; it asks the state update for blocks it missed and the requests for missing
transactions; a new transaction starts the timer of the consensus; a state update replaces
the current block and clears the proposals; the membership gives the majority.

`PROJECT.json` lists the hazards, each with its line and, when a run covers it, the
properties that would catch it.

## 2. Modules

| module | what it is |
|---|---|
| `Ledger` | the promise of the consensus: one ledger that only grows, of which each node knows a growing prefix; no transaction enters it twice |
| `Consensus` | proposals, votes, commits and timers on every node, with the network, restarts and the part of the state update it depends on |
| `Replica` | the promise of the state update: a database moves from the state of a block to that of a later one in one step |
| `StateUpdate` | both sides of the state update: the choice of peers, pages, the last message, timeouts, retries, connections, crashes |
| `Mempool` | the way of a transaction from the log of its node through the mempools to a block: nonces, failing transactions, what is kept and for how long |
| `Connections` | calls and incoming connections, identification, the tie-break between two connections of a pair, authorizations |
| `NodeThread` | the application and the worker thread: start, commands in the queue of `uv_callback.c`, special transactions, close |
| `BlockProducer` | the arithmetic of the wait interval, with its theorems |
| `MCConsensus`, `MCStateUpdate`, `MCMempool`, `MCConnections`, `MCNodeThread` | values of the constants for TLC |
| `ConsensusProofs`, `ChainProofs`, `VotingProofs` | the theorems about `Consensus`: the votes behind a block; chains and open blocks; voting rules, agreement and the refinement of `Ledger` |
| `StateUpdateProofs`, `MempoolProofs`, `ConnectionsProofs`, `NodeThreadProofs` | the theorems about the modules they extend |

The modules meet at these points.  `Consensus` has the effect of the state update on the blocks as
three steps, and `StateUpdate` has the consensus as a chain that grows (`commit_block`); each checks
what the other takes for granted, that an update goes from the state of a block to that of a later one, and
that there is one chain.  `Mempool` takes the votes as decided by a majority, one block a height, which is
`Agreement` of `Consensus`; `Consensus` takes a mempool that executes nothing twice, which is `UnusedIsNew`
and `NonceOrder` of `Mempool`.  `Consensus` assumes positive wait times, a theorem of `BlockProducer`.
`Consensus`, `StateUpdate` and `Mempool` have the connections of authorized nodes that `Connections` makes.
Everywhere a handler of the worker thread is one action, because one thread runs them all in the
libuv loop; `NodeThread`, where two threads meet, has one action per access to what they share.

### Consensus

`node[n]` is the plugin structure of node `n`, with the fields of the code:

| model | code |
|---|---|
| `chain` | `current_block` (a block names its predecessor by hash, so it stands for its chain) |
| `new_blocks`, `open_block` | the same fields; `<<>>` (`NoBlock`) is NULL |
| `verified` | the core's `active_block.verify_ok`: the open block's transaction is still open in the core |
| `votes` | `temp_votes` of the blocks and `block_votes`, the votes on blocks not yet known; `num_votes` is their number |
| `last_vote` | `last_vote_height`, `last_vote_round` |
| `last_created` | `last_created_block_height` |
| `new_block_timer`, `block_wait_timer` | whether the libuv timer is active |
| `mempool`, `used` | the transactions the node has, and those of them with a `block_height` other than 0 |
| `requested` | the transactions with a request running |
| `sync`, `is_updating_state` | `sync_down_state` (`"outdated"` stands for every state but in sync and synchronizing), `is_updating_state` |
| `update` | the chain of the peer that served the update: the pages and the last block on their way |
| `created`, `cast`, `submitted` | what the node ever sent, the network |
| `run` | number of restarts, which makes blocks of different runs different |

An action is a whole handler: a message handler (`on_new_block`, `on_block_vote`,
`on_new_remote_transaction`, `on_request_state_update`, `on_update_db_page`,
`on_apply_state_update`), a timer (`new_block_timer_cb`, `on_block_wait_timeout`,
`process_transactions_timer_cb`, `on_state_update_node_timeout`), the application's
`send_local_transactions`, the end of a request, and `plugin_init`, a restart after a
crash.  The functions the handlers call are operators from a node state to a node state
with the same names; `check_for_winner_block` and `choose_block_to_vote`, which call each other, have
one operator per round.  What happens outside of the plugin during one handler (is the
database locked, does the commit succeed, which of two equally good blocks is first
in the list) is a record chosen by `\E env \in Environment(...)`.

Abstractions, and why they are harmless for the properties:

* All the nodes are authorized and connected; `majority` is a constant.  The network
  is the set of all that was ever sent: a message may be received late, out of order, twice
  or never.  The code sends blocks and votes again on reconnection, so a connection
  that was lost is covered.
* The first block is common to all (`Genesis`); the chain above it is modelled.
* The wait time of a block is a constant of its creator and height: it comes from a
  VRF output that is a function of exactly these two.
* Nonces and the outcome of a transaction are left to `Mempool`: a block takes all unused
  transactions of the mempool, those not in `used`.  As in the code a commit marks the transactions of its block
  that are in the mempool, and `check_mempool_transactions` then takes out what was executed and has no mark;
  a transaction that was executed is not stored again (`IsNew`, in the code its nonce is old).  Marked ones stay in
  the model's mempool, while the code drops them two blocks later, which is in `Mempool`.
* `Late` says which transactions may reach a node after a block that names them.
* The choice of the peers of a state update is left to `StateUpdate`: one serves it, or the request
  ends with a timeout, and then the node is in sync or asks on.  An update from another
  fork may apply or not, since its pages overwrite only those changed since the height.
* A signature or a VRF proof is what it says; all nodes follow the code.

### StateUpdate

`node[n]` is: `sync` (`sync_down_state`), `block` (the height of `current_block`, 0 for NULL), `height` and
`db` (what the database files hold), `hashes` (the hashes of the pages in memory), `received` (the pages
written in the open transaction), `updating` (`is_updating_state`), `contacted` and `failed` (the two
arrays of node ids), `contacted_node_id`, `timer`, and `spinning`, a handler that never returns.  The
content of a page is the height of the block that wrote it, so a mixture of two states shows.
`chan` has the messages between each two nodes in their order, `peers` the peers a node lists and `closing` those whose
socket is being closed: they are still listed, and nothing can be sent to them, until the loop
calls `worker_thread_on_close`.

`request_state_update_next` gives the set of outcomes of the loop over the peers: a random peer that
was not contacted is asked, one that is closing is skipped, and when no peer is left the update ends, waits or begins
again with the busy ones.  The handlers of both sides (`on_request_state_update` of the peer that serves,
`on_update_db_page`, `on_apply_state_update`, `on_uptodate_message`, `on_node_is_busy`,
`on_state_update_node_timeout`) are actions, as are the timer that starts an update (`process_transactions_timer_cb`), a proposal of
a later height (`on_future_block`), a block of the consensus, and the faults.  `Faults` names those that may happen
in a run; its comment says what each means.

### Mempool

`node[n]` is: `height` and `last_nonce` (the current block and the nonces of the core), `made` and
`notified` (the transactions in the log of the node, and a command to the worker), `mempool` and
`block_height` (the transactions, and the block that used each), `requested`, `open` (`open_block`),
`created` (`last_created_block_height` is the next), `new_block_timer`, and the two synchronization states.
`own_blocks` is a history: the blocks the node committed itself since it started, which no action reads.
A node takes over the state of a peer, or learns that it has it, in one action (`on_apply_state_update`); as in
`state_update.c:186` a node without a block is not in sync again before it has one.
`network` is the instance: the authorized and the full nodes, their first connections, what each makes.  A transaction is
its node and nonce.  `blocks`, `votes` and `chain` are the proposals at the next height, the votes on them, and
the decided blocks.  A handler that fails at a transaction chooses which of the outcomes of the core it
meets (`Outcomes`): busy, an error at one node only, or an error on every node (`Rejected`).
The run `mempool` has the last; the faults `"busy"` and `"error"` are left out of it, see section 5.
The connections are `links`; a message between two nodes may overtake another, which covers the requests of
`requests.c` that are answered by different peers.

### Connections

`node[n]` is: `auth` (the authorizations it has, in their order), `special` (those the administrator has just committed), `peers`
(the list, in its order), and of these the `connected`, `known` (identified), `authorized`, `accepted`
and `closing` ones.  A connection has a number; `ends[c]` are the caller and the one called.  A
message is an identification or a list of authorizations.  `rc` and `out` are the result of the last call
and the messages it sends; they are empty between two actions.  `choose_duplicate_connection` compares the random
identifiers of the two connections, which come from the end with the lower node id, so that both ends
compare the same numbers.  The loops over the list of peers are recursive functions, the first previous connection
is an index of the list: so the proofs can reason about them.

### NodeThread

`app` and `worker` say where the application's thread and the worker thread are; a step goes from one access to
shared memory to the next.  `worker_cb` is the `uv_callback_t`: its queue, whether the event is
signaled, whether the idle handle is active and whether it was stopped.  A signal is not counted: several
may come as one, which is what the idle handle is for.  `unsignaled` are the special transactions that were made while
the thread was not active.

### BlockProducer

Integers without overflow; the double of the code is taken as exact.  There is nothing to run: it has no
state, and its theorems hold for all values.

## 3. What the runs check

| run | instance | shows |
|---|---|---|
| `quorum` | 3 nodes, 1 transaction, heights up to 2, fair | types; one vote per round; agreement; the second round starts only when no block with a vote can win the first; the nodes implement `Ledger`; every transaction is executed everywhere |
| `faults` | 2 nodes, 2 transactions, heights up to 3, all transactions late, locked database, failed commits | no transaction is executed twice, by the marks of the mempool; a committed block is never replaced, in whatever order updates, proposals and votes end; `open_block` is on the list and extends the chain |
| `restart` | 2 nodes, 1 transaction, node 1 restarts once | what is committed has a majority |
| `su_network` | 3 nodes, 2 pages, heights up to 2, one message in flight when a timer overtakes it; late answers, locked database, lost connections, crashes, blocks committed meanwhile | the nodes implement `Replica`; a node is synchronizing exactly as long as its timer runs |
| `su_failures` | the same nodes; pages cut off, commits that fail, no memory, proposals that cannot be verified | no mixed database; a half-written update always has the timer that cancels it |
| `su_live` | the same nodes, one of them new, fair, no fault | the new node reaches the block of the others; every update ends |
| `mempool` | 2 nodes, 3 transactions of one of them: the first executed, the last one failing; one disconnection or crash; or 3 nodes, the first and last not connected yet, one transaction to execute; fair | nonces in order and never twice; nothing used waits in a mempool; votes follow verification; a node that is behind finds the transactions of its next block at its peers; without a fault all are processed on every node |
| `connections` | 2 nodes that call each other, with a third connection after a failure, or 3 nodes with a connection each | two nodes keep exactly one connection; the members know the same nodes |
| `node_thread` | 4 transactions, two of which are refused if they are special; fair | no null pointer followed, nothing lost in the queue, released after the thread has returned, close returns |
| `replaced_block` | 3 nodes, node 1 restarts once, up to 2 blocks after the first one; a part of the behaviours | finding 2 |
| `double_vote` | 2 nodes, 2 late transactions | finding 1 |
| `stalled` | 2 nodes with the first block, 1 more transaction, two crashes, fair | finding 3 |

Why the bounds are enough for the cases to happen:

* Consensus: three nodes are the fewest where a majority is not everyone, where two
  blocks may compete with a third node deciding, and where the first round can be split
  (each node votes for its own proposal before the others arrive), which leads to the second round.
  Height 2 is the first block above the common one; height 3, in `faults`, lets timers and
  votes left over from one height meet the next.  Two nodes suffice for the faults, which concern a
  node's own pointers, and at height 3 a state update may be asked for at one height and end at another.
  `MaxHeight` only stops `new_block_timer_cb`.
  The case of `replaced_block`, three nodes and two heights above the first, has too many states; its specification
  `LateNodesSpec` (`MCConsensus`) lets the nodes take turns, which is one way for messages to be late: nodes 1 and 2
  vote for a block and node 2 commits it, node 1 restarts and decides with node 3, node 2 hears of it last.  It only leaves steps out,
  so what it violates the system violates.
* State update: a node that is behind, a peer that serves it and a second peer that may take over; one
  page that both blocks write and one that only the first does, so that an update sends a part of the
  pages; an answer of an earlier request that is still in flight (`MaxInFlight`).
* Mempool: three transactions are the fewest where the one executed two blocks ago is to be removed
  while another is in the last block and a third waits.  In the network of three nodes the last one
  learns of a block before its transaction, and asks a peer for it (`on_get_transaction`).
* Connections: a pair has two connections at the same time, and a third once the first two have been
  closed; the numbers in `ThreeNumbers` let the second be chosen and rejected.
* Node thread: four transactions let several commands come as one event while a refused special
  transaction ends the loop over the others, and the exit command queue up behind them.

Deadlock is not checked because these systems rightly stop: no transaction is left, the database is closed, or
a bound is reached.  Each cfg says which.

Every property has a mutant, a definition marked `(mutant)` that stands for a plausible bug: a majority of
half of the nodes, a pointer that is not cleared, a queue that drops a command equal to one it holds, a
used transaction dropped as soon as its block is committed.  TLC finds the property violated when it replaces the original.

### Fairness

libuv runs expired timers and readable sockets in each iteration, and TCP delivers what is sent on a
connection that stays open.  So:

* `Consensus`: while a timer of the node is to expire, or a block, vote or transaction that was sent has not
  reached it, one of these handlers eventually runs.  It is the weak fairness of
  `EventLoop(n)`, with its enabledness written out (`Idle`).
* `StateUpdate`: weak fairness of each delivery, of the timer that starts an update and of the one that ends it.
* `Mempool`: weak fairness of `Progress`, all the handlers of all the nodes together, including that two nodes connect
  again.  It is weaker than fairness of each handler, and is enough.
* `NodeThread`: weak fairness of each of the two threads, as the operating system gives it.

No fairness is assumed of the application's own transactions, of the end of requests, of faults and restarts.
`Connections` has no liveness property.

## 4. What is proved

The assumptions of the theorems are those of the modules, checked by TLC in every run: finite sets of
nodes, natural bounds, and what the module says of its constants.  A theorem that needs more has it as a
hypothesis, and the text says what happens without it.

Every safety property of the passing runs is a theorem, some under a hypothesis.  The proofs all go the same way: an
inductive invariant, a lemma for each operator of the code that says what it does to the state of a node, one for
each action, and their combination.

### The votes behind a block: `ConsensusProofs`

For any finite set of nodes, any transactions, wait times, heights, restarts and faults:

* `TypeCorrect`: `Spec => []TypeOK`.
* `CommitsHaveMajority`: `Spec => []CommittedByMajority`.
* `VotingRulesImplyAgreement`: in every reachable state, if no node has voted twice in a round
  and every second-round vote was safe, then no two chains differ at a height.

`CommittedByMajority` is not inductive: a state update hands over a chain whose votes were
discarded long ago, and a commit relies on the votes stored in the node.  `Inv` is
`Sound` for every node: its type; its own recorded votes are ones it has sent; the votes it stores
were sent by someone; every block of its chain, and of an update on its
way, has a majority among the sent votes; while pages are being written an update is there
and no block is verified; a verified open block extends the chain.  `Keeps` relates the state before and after an
operator of the code.  Sent votes only grow, so what was certified stays so.
Agreement follows from the counting of votes: two majorities have a common node.  For two
blocks of the same round that node voted twice; for blocks of two rounds, a second-round
vote excludes that the other block ever wins the first.

### Chains and open blocks: `ChainProofs`

Again with every fault, restart and late transaction:

* `TransactionsOnce`: `Spec => []ExecutedOnce`.
* `OpenBlockIsListed`: `Spec => []OpenBlockOnList`.

`Listed` says of a node that every block it has made, received, committed or is about to get from a peer repeats
no transaction of its chain, and where the open block is.  `Tidy` adds what makes the next block repeat none
either: a transaction of the chain that is in the mempool is marked as used.  A commit marks those of
its block, a state update marks nothing and takes out the executed ones instead, and a late transaction is stored
only if it is new; between the commit or the update and the cleaning only `Listed` is true.
`Moves` says how one step may change a chain: by one block, or by an update to a longer one.

### Voting, agreement and the ledger: `VotingProofs`

`Undisturbed(n)` means that node `n` is not restarted and has every transaction before a block that names it;
`AllUndisturbed`, that all nodes are.  The runs `double_vote` and `replaced_block` show the properties fail
otherwise (findings 1 and 2).  Locked databases, failed commits, and messages that are late,
reordered, repeated or lost are all allowed.

* `UndisturbedVotesOnce`: an undisturbed node votes once in each round, whatever the others do.
* Under `AllUndisturbed`: `VotesOnce` (`OneVotePerRound`), `SecondRoundIsSafe` (`SecondRoundSafe`), and from these
  `NodesAgree` (`Agreement`), `CommittedForEver` (`Finality`) and `NodesImplementLedger` (`ImplementsLedger`), without the premises of
  `VotingRulesImplyAgreement`.

That the memory of the last vote is enough is the invariant `Disciplined`: every vote of a node is at or
below its last one, which is not above the height voted on, and the timer of the first round does not run
once the node has voted at this height.  For the second round the votes are counted: `MayFirst(V, b)` are the nodes
with no first-round vote in `V` against `b`; the votes a node has seen are fewer than those that were sent, and so few
nodes remain that no block wins.  Later votes only make this set smaller, as each node votes once.
For the refinement, two chains that both have majorities at each height are one a prefix of the other; the ledger
is the longest, a commit adds its block or finds it there, and a state update gives a node a longer prefix.

### State update: `StateUpdateProofs`

For any nodes, pages, blocks and starting heights:

* `UpdateTypeCorrect`: the types, under every fault.
* `UpdateIsTimed`: `SynchronizingIsTimed`, unless memory is exhausted (`"nomem" \notin Faults`).
* `DatabaseIsConsistent`: `DatabaseMatchesBlock`, unless the state cannot be loaded (`"load" \notin Faults`).
* `UpdateImplementsReplica`: `ImplementsReplica`, without these two faults.
* `UpdateIsSupervised`: `UpdateSupervised`, as long as a peer reads and sends all of its pages and memory is not
  exhausted (`"read"`, `"nomem" \notin Faults`).  The run `su_failures` has these two faults but no late answers; the theorem
  has late answers, crashes, lost connections and the rest.

Pages go to `received`, which only the commit of `on_apply_state_update` writes to the
database, and there the hashes of all the pages are compared with the state of the block; `Outdated` excludes
a block that is not later.  One lemma per action says that it keeps the types and changes node `n` as allowed
(`NodeSteps`), and the first four theorems follow from this one step relation.

`UpdateSupervised` depends on what is on its way.  A node that has its timer stopped by `uptodate` or `busy` while it
writes pages would lose its supervision, and nothing in these two handlers excludes it: what does is that messages
keep their order.  `QueuesInv` says that every page in a channel is followed by the apply message of its answer with
nothing between that ends an update (`Answered`), and that a node writing pages has either the rest of such an answer,
for a later block, next in the channel from the peer it asked (`Due`), or only requests there and none
of its own unanswered (`Expected`; after the connection dropped).  So the next message it handles from this peer is a
page, a request, or the apply message, which it does not ignore.

### Mempool: `MempoolProofs`

For any networks, transactions and faults:

* `MempoolTypeCorrect`: `TypeOK`, with it that there are never more blocks than transactions.
* `NothingExecutedWaits`: `UnusedIsNew`.
* `BehindIsServed`: `ServedByPeers`.
* `NoncesInOrder`: `NonceOrder`, unless a transaction finds the database busy (`"busy" \notin Faults`).
* `VotersHaveVerified`: `VotesAreVerified`, unless a transaction fails on one node only (`"error" \notin Faults`).

`MempoolInv` says that the last nonces of a node are those of the blocks that it has (`LastOf`), and that its
unused transactions, its open block, the proposals and the blocks of the chain only have later ones.  `Served` adds the
marks: they are on transactions of the blocks the node has, and those of its last two blocks, if it committed them
itself, are in the mempool with the number of their block, so neither the removal of those used long ago nor that of old ones
takes them; a node that is behind gets them there.  A peer that got a block by a state update, or has restarted,
promises nothing, which is why the property is about the blocks in `own_blocks`.  `NonceOrder` also
needs that no nonce is left out: a proposal takes the transactions of each node up to its last one (`CompleteInv`), as
`is_next_nonce` and the order of the mempool see to.  `VotesAreVerified` needs that a proposal says which transactions fail on
every node (`FailedInv`), so that the outcome on the voter is the same.

### Connections: `ConnectionsProofs`

For any networks, calls, authorizations and failures:

* `ConnectionsTypeCorrect`: `TypeOK`.
* `TieBreakKeepsOne`: `StillConnected`, when the random identifiers are different (`DifferentNumbers`): with two equal ones
  the two ends may close one connection each.
* `OneConnectionIsLeft`: `NoDuplicateLeft` as long as no connection has failed by itself (`failed = {}`), also with `DifferentNumbers`.
  With failures it is not true, see section 5; the run checks it with one.
* `MembersKnowTheSame`: `MembersAgree`, without a hypothesis.

A step moves lists: `StepMoves` says for every action which connections are added to the peers of a node, identified
or closed, and the invariants are about these moves.  `StillConnected`: a connection is closed only because of a failure or of
a greater identifier between the same two nodes (`Beaten`), so the greatest is not closed.  `NoDuplicateLeft`: of a call in each
direction, at least one end compares exactly these two (`OneCompares`); that a third one does not come between needs
that a caller closes its own connection only after the other end did or for the greatest (`ClosedByOther`), and that
its later call is greater than those of the same peer that it is closing (`OwnIsGreater`).
`MembersAgree`: all authorizations come from the administrator, those in messages too (`Granted`), and as long as no
pair was connected twice the administrator has sent everything it has to each authorized peer that it has
identified (`Informed`); once the messages have arrived the two sets are the same.

### Node thread and block producer

`NodeThreadProofs`, for any number of transactions: `ThreadTypeCorrect` (with it, the worker thread
never finds a command when it stops, where `dequeue_all_from_callback` would follow a null pointer) and
`ReleasedAfterReturn`.  The invariant says where one thread can be while the other is at a place: the exit command is
the last of the queue, nothing is sent to a thread that has not been active, and the loop is left only because of
that command or of a failed start.

`BlockProducer`: `WaitIntervalInBounds` (the assertion of `plugins/no-leader/block_producer.c:48`), `WaitIntervalPositive` (for
an interval of at least 10 ms), `SameOrder` (the number of nodes and the interval never reverse the order of two proposals), and
`SmallestIntervalIsZero`.

### Only model-checked

Every liveness property: liveness under fairness is out of the prover's reach.  The safety properties in the
cases that the hypotheses exclude but a run has: `Finality` with late transactions and two nodes (it is proved without
restarts and late transactions, and `replaced_block` refutes it with a restart), `UpdateSupervised` with `"read"` or `"nomem"` when no answer is late, and
`NoDuplicateLeft` with one failure.

## 5. Findings

With a run each:

1. `choose_block_to_vote` asks "has this node already voted on this round?"
   (`plugins/no-leader/consensus.c:632`) of its last vote only.  A node that has voted in the second
   round votes again in the first when a requested transaction arrives.
2. The last vote is only in memory (`plugins/no-leader/no-leader.h:322`).  A node that restarts within a height may
   vote for another block, so that two nodes commit different blocks, each with a majority.  When the
   restarted node and the third one go on to the next height, the node that never stopped is behind, takes over
   their state, and its committed block is replaced (`plugins/no-leader/state_update.c:478`); the code does not
   compare the two chains.  `README.md:19` promises "absolute finality".
3. `start_new_block_timer` returns when the node is not in sync (`plugins/no-leader/consensus.c:1191`) and nothing
   calls it when the node is in sync again.  A transaction that arrives meanwhile stays in the mempools of all
   nodes until another one comes: two nodes restart one after the other, and each gets the transaction from the
   other's mempool before it is in sync.

Met while modelling, with the place in the model where they show; no run has the case:

* `plugins/no-leader/state_update.c:517`: without memory for the new block the state is set to UNKNOWN while
  the code goes on to `request_state_update_next`, which asserts that it is synchronizing (fault `"nomem"`,
  `SynchronizingIsTimed`).
* `plugins/no-leader/state_update.c:291`: a peer that fails in the middle of its pages and answers a late request with
  "busy" leaves `is_updating_state` set while the node goes on to another peer (faults `"read"` and `"late"`
  together, `UpdateSupervised`).
* `plugins/no-leader/state_update.c:217`: the loop over the peers does not end when the only peers left have
  sockets that are being closed (`spinning`).
* `plugins/no-leader/state_update.c:186`: a peer that was busy or did not answer counts as contacted, so that a node
  behind may end its update with the answer of a peer that has nothing newer, and stays behind until it hears of another
  block (`CatchesUp` from `Behind`).
* `plugins/no-leader/no-leader.c:1799`: the result of loading the state is ignored; the node takes its height for 0
  and may take an older state over its own (fault `"load"`, `ImplementsReplica`).
* `plugins/no-leader/allowed_nodes.c:404`: after the tie-break the connection that stays never gets
  `on_valid_node_id`, so authorizations sent on the closed one are lost (`MembersAgree` without
  `Undisturbed`).
* `plugins/no-leader/allowed_nodes.c:402`: the search for a previous connection does not tell one that is being closed
  from a live one.  When two connections of a pair fail and the two nodes call each other again at once, both ends find
  these first, close them again, and keep both new connections (`NoDuplicateLeft` with four connections of which two fail).
* `plugins/common/uv_callback.c:274`: the event is signaled after the queue is unlocked, when the worker may already have
  taken the exit command and closed its loop.
* `plugins/no-leader/no-leader.c:1861`: closing waits without end for a thread that could not bind its address
  (`CloseReturns` without `worker.failed`).
* `plugins/no-leader/transactions.c:614`: a special transaction made before the thread is active waits for
  the next transaction (`SpecialsProcessed` without `unsignaled`).
* `plugins/no-leader/consensus.c:1102`: a transaction that finds the database locked by the application goes into
  the block as one that failed, and its nonce counts as used (fault `"busy"`, `NonceOrder`).
* `plugins/no-leader/consensus.c:451`: a transaction that succeeds here and failed on the proposer's node has the
  block rolled back with `SQLITE_OK` as the result, so the node votes for it all the same (fault `"error"`,
  `VotesAreVerified`).
* `plugins/no-leader/block_producer.c:40`: a block interval below 10 ms gives a wait of 0, which
  `choose_block_to_vote` asserts not to happen (`SmallestIntervalIsZero`).

## 6. Not modelled

* The core (`core/sqlite3.c`) with the commit over two database files, the log rotation and the
  verification of a block is inside the SQLite amalgamation; the modules have it as steps that succeed or fail, named
  as external in `PROJECT.json`.
* A changing set of authorized nodes in the consensus: `majority` is a constant there.
* A third round does not exist in the code: with four nodes or more a split second round blocks the height, which the
  instances here are too small to reach.
* Requests (`requests.c`) as objects: that a transaction was requested, arrives or is given up is in `Consensus` and `Mempool`; the
  choice of peers and the block requests are not.
* The conflict of two nodes with one id and its timer, the reconnect timer (which is never
  started), host names, node discovery beyond its result (`Network` in `Connections`), the status queries of the
  application.
* The framing of messages, the array and the linked list: sequential code on bytes and pointers that a test reaches.
* Stored procedures, the encryption codec, encodings and hashes, the single instance lock, the shell and SQLite itself:
  vendored, sequential, or pure I/O.
