---------------------------- MODULE ChainProofs ----------------------------
(***************************************************************************)
(* What a node holds: no transaction is executed twice on any chain, the   *)
(* open block is always on the list of new blocks and extends the current  *)
(* one, and the chain of a node changes by one block or by a state update  *)
(* to a longer chain.  All of it holds for any number of nodes and with    *)
(* every fault, restart and late transaction of the model.                 *)
(*                                                                         *)
(* As in ConsensusProofs, there is a lemma for each operator of the code,  *)
(* which says that it keeps a node state tidy and how it changes the       *)
(* chain, and one for each action.                                         *)
(***************************************************************************)
EXTENDS ConsensusProofs

\* No transaction is in two blocks of the chain c.
Once(c) == \A i, j \in DOMAIN c : i # j => c[i].txns \cap c[j].txns = {}

\* The chain c adds one block to the chain d.
Extends(c, d) == c \in Block /\ c # NoBlock /\ Parent(c) = d

Listed(s) ==
  /\ \A b \in s.new_blocks : Once(b)
  /\ \A b \in s.created : Once(b)
  /\ Once(s.chain) /\ Once(s.update)
  /\ s.open_block # NoBlock =>
       s.open_block \in s.new_blocks /\ Parent(s.open_block) = s.chain
  /\ s.is_updating_state =>
       s.open_block = NoBlock /\ Len(s.update) > Len(s.chain)

\* What the mempool and the chain have in common is marked as used.
Tidy(s) == Listed(s) /\ s.mempool \cap Executed(s.chain) \subseteq s.used

\* The operator that leads from s to t does not touch what has the state of
\* a block: chain, update and proposals of the node.
Same(s, t) ==
  /\ t.chain = s.chain /\ t.update = s.update /\ t.created = s.created
  /\ t.is_updating_state = s.is_updating_state

\* It commits at most one block.
Grows(s, t) ==
  /\ t.chain = s.chain \/ Extends(t.chain, s.chain)
  /\ t.update = s.update /\ t.created = s.created
  /\ t.is_updating_state = s.is_updating_state

\* The ways in which a step may change the chain of a node.
Moves(s, t) ==
  \/ t.chain = s.chain
  \/ Extends(t.chain, s.chain)
  \/ t.chain = s.update /\ Len(s.update) > Len(s.chain)

\* An update comes from a node that still has the blocks of it.
Served(n) == \E m \in Node : Len(node[n].update) <= Len(node[m].chain)

ChainInv == \A n \in Node : Tidy(node[n]) /\ Served(n)

\* The chain of one node at most changes in a step.
OneMoves ==
  \E n \in Node : /\ Moves(node[n], node'[n])
                  /\ \A k \in Node \ {n} : node'[k].chain = node[k].chain

-----------------------------------------------------------------------------
(* Chains *)

\* The empty chain holds no transaction.
LEMMA NoBlockProperties == NoBlock \in Block /\ Len(NoBlock) = 0 /\ Once(NoBlock)
BY EmptySeq DEF NoBlock, Block, Once

\* A block of transactions that the chain does not hold keeps them single.
LEMMA OnceAppend ==
  ASSUME NEW c \in Block, NEW body \in Body, Once(c), body.txns \cap Executed(c) = {}
  PROVE  Once(Append(c, body))
<1> DEFINE b == Append(c, body)
<1>1. /\ Len(c) \in Nat /\ DOMAIN c = 1 .. Len(c) /\ DOMAIN b = 1 .. Len(c) + 1
      /\ b[Len(c) + 1] = body /\ \A i \in 1 .. Len(c) : b[i] = c[i]
  <2>1. b \in Seq(Body) /\ Len(b) = Len(c) + 1
    BY DEF Block
  <2>2. DOMAIN b = 1 .. Len(b) /\ DOMAIN c = 1 .. Len(c) /\ Len(c) \in Nat
    BY <2>1, LenProperties DEF Block
  <2>3. b[Len(c) + 1] = body /\ \A i \in 1 .. Len(c) : b[i] = c[i]
    BY <2>2 DEF Block
  <2> QED BY <2>1, <2>2, <2>3
<1>2. \A i \in DOMAIN c : body.txns \cap c[i].txns = {}
  BY DEF Executed
<1> HIDE DEF b
<1>3. ASSUME NEW i \in DOMAIN b, NEW j \in DOMAIN b, i # j
      PROVE  b[i].txns \cap b[j].txns = {}
  <2>1. CASE i \in DOMAIN c /\ j \in DOMAIN c
    BY <1>1, <1>3, <2>1 DEF Once
  <2>2. CASE i = Len(c) + 1 /\ j \in DOMAIN c
    BY <1>1, <1>2, <2>2
  <2>3. CASE i \in DOMAIN c /\ j = Len(c) + 1
    BY <1>1, <1>2, <2>3
  <2> QED BY <1>1, <1>3, <2>1, <2>2, <2>3
<1> QED BY <1>3 DEF Once, b

\* A chain that extends another one is longer by one block.
LEMMA ExtendsIsLonger ==
  ASSUME NEW d \in Block, NEW c, Extends(c, d)
  PROVE  c \in Block /\ Len(c) = Len(d) + 1 /\ Len(d) \in Nat
<1>1. c \in Block /\ c # NoBlock /\ Parent(c) = d
  BY DEF Extends
<1>2. Len(c) \in Nat /\ Len(c) >= 1 /\ Len(d) \in Nat
  BY <1>1, EmptySeq, LenProperties DEF Block, NoBlock
<1> QED BY <1>1, <1>2, ParentProperties

\* No step makes the chain of a node shorter.
LEMMA MovesIsLonger ==
  ASSUME NEW s \in NodeState, NEW t \in NodeState, Moves(s, t)
  PROVE  Len(s.chain) \in Nat /\ Len(t.chain) \in Nat /\ Len(s.chain) <= Len(t.chain)
<1>1. s.chain \in Block /\ t.chain \in Block /\ s.update \in Block
  BY DEF NodeState
<1>2. Len(s.chain) \in Nat /\ Len(t.chain) \in Nat /\ Len(s.update) \in Nat
  BY <1>1, LenProperties DEF Block
<1> QED BY <1>1, <1>2, ExtendsIsLonger DEF Moves

-----------------------------------------------------------------------------
(* The operators *)

\* The timers and the state of the synchronization are not part of Tidy, Listed.
LEMMA Timers_Tidy ==
  ASSUME NEW s \in NodeState, Tidy(s),
         NEW t \in {start_new_block_timer(s), start_block_wait_timer(s),
                    request_state_update(s), mark_outdated(s)}
  PROVE  Tidy(t) /\ Same(s, t)
BY DEF start_new_block_timer, start_block_wait_timer, request_state_update,
       mark_outdated, Tidy, Listed, Same, NodeState

\* The mempool is brought in line with the chain after a block or an update.
LEMMA CheckMempoolTransactions_Tidy ==
  ASSUME NEW s \in NodeState, Listed(s)
  PROVE  /\ Tidy(check_mempool_transactions(s))
         /\ Same(s, check_mempool_transactions(s))
BY DEF check_mempool_transactions, Tidy, Listed, Same, NodeState

\* rollback_block closes the open block.
LEMMA RollbackBlock_Tidy ==
  ASSUME NEW s \in NodeState, Tidy(s)
  PROVE  /\ Tidy(rollback_block(s)) /\ Same(s, rollback_block(s))
         /\ rollback_block(s).open_block = NoBlock
         /\ rollback_block(s).new_blocks = s.new_blocks
BY DEF rollback_block, Tidy, Listed, Same, NodeState

\* commit_block clears the pointer of the block that becomes the current one.
LEMMA CommitBlock_Tidy ==
  ASSUME NEW n, NEW W, NEW s, Sound(n, s, W), Tidy(s), ~ s.is_updating_state,
         NEW b \in s.new_blocks, b # NoBlock,
         s.verified => Parent(b) = s.chain,
         NEW env, EnvOK(env)
  PROVE  Tidy(commit_block(s, b, env)) /\ Grows(s, commit_block(s, b, env))
<1> DEFINE failed == [s EXCEPT !.verified = FALSE]
           done == [s EXCEPT !.chain = b,
                             !.used = @ \cup (s.mempool \cap Head1(b).txns),
                             !.new_blocks = {c \in @ : Len(c) > Len(b)},
                             !.votes = {v \in @ : Len(v.block) > Len(b)},
                             !.open_block = NoBlock,
                             !.verified = FALSE]
           cleared == check_mempool_transactions(done)
<1>0. s \in NodeState /\ b \in Block /\ Once(b)
  BY DEF Sound, NodeState, Tidy, Listed
<1>1. failed \in NodeState /\ Tidy(failed) /\ Same(s, failed)
  BY <1>0 DEF NodeState, Tidy, Listed, Same
<1>2. CASE ~ s.verified
  BY <1>0, <1>2, Timers_Tidy DEF commit_block, Same, Grows
<1>3. CASE s.verified /\ env.commit = "busy"
  BY <1>1, <1>3 DEF commit_block, Same, Grows
<1>4. CASE s.verified /\ env.commit = "error"
  <2> HIDE DEF failed
  <2>1. Tidy(mark_outdated(failed)) /\ Same(failed, mark_outdated(failed))
    BY <1>1, Timers_Tidy
  <2>2. commit_block(s, b, env) = mark_outdated(failed)
    BY <1>4 DEF commit_block, failed
  <2> QED BY <1>1, <2>1, <2>2 DEF Same, Grows
<1>5. CASE s.verified /\ env.commit = "ok"
  <2>1. done \in NodeState
    BY <1>0, NoBlockProperties DEF NodeState
  <2>2. Listed(done) /\ Grows(s, done)
    BY <1>0, <1>5 DEF NodeState, Tidy, Listed, Grows, Extends
  <2>3. commit_block(s, b, env) = start_new_block_timer(cleared)
    BY <1>5 DEF commit_block
  <2> HIDE DEF done
  <2>4. cleared \in NodeState /\ Tidy(cleared) /\ Same(done, cleared)
    BY <2>1, <2>2, CheckMempoolTransactions_Tidy
       DEF check_mempool_transactions, NodeState
  <2> HIDE DEF cleared
  <2>5. /\ Tidy(start_new_block_timer(cleared))
        /\ Same(cleared, start_new_block_timer(cleared))
    BY <2>4, Timers_Tidy
  <2> QED BY <2>2, <2>3, <2>4, <2>5 DEF Same, Grows
<1> QED BY <1>2, <1>3, <1>4, <1>5 DEF EnvOK

\* A winner is on the list of new blocks.
LEMMA CommitWinner_Tidy ==
  ASSUME NEW n, NEW W, NEW s, Sound(n, s, W), Tidy(s), ~ s.is_updating_state,
         NEW r \in Round, NEW b \in Winners(s, r), NEW env, EnvOK(env)
  PROVE  Tidy(commit_winner(s, b, env)) /\ Grows(s, commit_winner(s, b, env))
<1> DEFINE t == rollback_block(s)
           u == [t EXCEPT !.open_block = b, !.verified = TRUE]
<1>0. b \in s.new_blocks /\ b \in Block /\ b # NoBlock
  BY WinnerHasQuorum DEF Winners, Proposals
<1>1. CASE b = s.open_block
  BY <1>0, <1>1, CommitBlock_Tidy DEF commit_winner, Sound
<1>2. CASE b # s.open_block
  <2>1. /\ Sound(n, t, W) /\ Tidy(t) /\ Same(s, t) /\ t.new_blocks = s.new_blocks
        /\ t.open_block = NoBlock
    <3>1. s \in NodeState
      BY DEF Sound
    <3>2. Sound(n, t, W)
      BY RollbackBlock_Keeps DEF Keeps
    <3> QED BY <3>1, <3>2, RollbackBlock_Tidy
  <2> HIDE DEF t
  <2>2. Tidy(verify_failed(t, b, env)) /\ Grows(s, verify_failed(t, b, env))
    BY <2>1, Timers_Tidy DEF verify_failed, Same, Grows, Sound
  <2>3. ASSUME Verifies(t, b, env)
        PROVE  Tidy(commit_block(u, b, env)) /\ Grows(s, commit_block(u, b, env))
    <3>1. Parent(b) = t.chain /\ ~ t.is_updating_state
      BY <2>1, <2>3 DEF Verifies, Same
    <3>2. /\ Sound(n, u, W) /\ Tidy(u) /\ Same(t, u) /\ ~ u.is_updating_state
          /\ b \in u.new_blocks /\ Parent(b) = u.chain
      BY <1>0, <2>1, <3>1 DEF Sound, NodeState, Tidy, Listed, Same
    <3> HIDE DEF u
    <3>3. Tidy(commit_block(u, b, env)) /\ Grows(u, commit_block(u, b, env))
      BY <1>0, <3>2, CommitBlock_Tidy
    <3> QED BY <2>1, <3>2, <3>3 DEF Same, Grows
  <2>4. commit_winner(s, b, env) =
          IF ~ TxnsPresent(t, b) THEN t
          ELSE IF ~ Verifies(t, b, env) THEN verify_failed(t, b, env)
          ELSE commit_block(u, b, env)
    BY <1>2 DEF commit_winner, t
  <2> HIDE DEF u
  <2> QED BY <2>1, <2>2, <2>3, <2>4 DEF Same, Grows
<1> QED BY <1>1, <1>2

\* A vote touches no block.
LEMMA VoteOnBlock_Tidy ==
  ASSUME NEW n, NEW s \in NodeState, Tidy(s), NEW r, NEW b
  PROVE  Tidy(vote_on_block(n, s, r, b)) /\ Same(s, vote_on_block(n, s, r, b))
BY DEF vote_on_block, Tidy, Listed, Same, NodeState

\* The block a node opens to vote on is on the list.
LEMMA OpenAndVote_Tidy ==
  ASSUME NEW n \in Node, NEW W, NEW s, Sound(n, s, W), Tidy(s),
         ~ s.is_updating_state, NEW r \in Round, NEW env
  PROVE  Tidy(open_and_vote(n, s, r, env)) /\ Same(s, open_and_vote(n, s, r, env))
<1> DEFINE best == MinWait(Proposals(s))
           present == {b \in Proposals(s) : TxnsPresent(s, b)}
           verifiable == {b \in present : Verifies(s, b, env)}
           good == MinWait(verifiable)
           winner == PickFirst(good, env)
           failed == {b \in present : ~ Verifies(s, b, env) /\
                                        (good = {} \/ Before(b, winner, env))}
           t == IF failed \subseteq env.locked THEN rollback_block(s)
                ELSE mark_outdated(rollback_block(s))
           u == [t EXCEPT !.open_block = winner, !.verified = TRUE]
<1>0. s \in NodeState
  BY DEF Sound
<1>1. LET v == vote_on_block(n, s, r, s.open_block) IN Tidy(v) /\ Same(s, v)
  BY <1>0, VoteOnBlock_Tidy
<1>2. Tidy(t) /\ Same(s, t) /\ t \in NodeState /\ t.new_blocks = s.new_blocks
  <2> DEFINE q == rollback_block(s)
  <2>1. /\ Tidy(q) /\ Same(s, q) /\ q.new_blocks = s.new_blocks
        /\ Sound(n, q, W)
    BY <1>0, RollbackBlock_Tidy, RollbackBlock_Keeps DEF Keeps
  <2> HIDE DEF q
  <2>2. /\ Tidy(mark_outdated(q)) /\ Same(q, mark_outdated(q))
        /\ mark_outdated(q) \in NodeState /\ q \in NodeState
        /\ mark_outdated(q).new_blocks = q.new_blocks
    BY <2>1, Timers_Tidy DEF Sound, mark_outdated, NodeState, SyncState
  <2>3. t \in {q, mark_outdated(q)}
    BY DEF q
  <2> HIDE DEF t
  <2> QED BY <2>1, <2>2, <2>3 DEF Same
<1>3. ASSUME good # {}
      PROVE  LET v == vote_on_block(n, u, r, winner) IN Tidy(v) /\ Same(s, v)
  <2>1. winner \in good
    BY <1>3, PickFirstIsMember
  <2>2. winner \in s.new_blocks /\ winner \in Block /\ Parent(winner) = s.chain
    BY <1>0, <2>1 DEF MinWait, Verifies, Proposals, NodeState
  <2> HIDE DEF t, winner
  <2>3. u \in NodeState /\ Tidy(u) /\ Same(t, u)
    BY <1>2, <2>2 DEF Tidy, Listed, Same, NodeState
  <2> HIDE DEF u
  <2> QED BY <1>2, <2>3, VoteOnBlock_Tidy DEF Same
<1>4. Same(s, s)
  BY DEF Same
<1>5. open_and_vote(n, s, r, env) =
        IF best = {} THEN s
        ELSE IF PickFirst(best, env) = s.open_block
             THEN vote_on_block(n, s, r, s.open_block)
        ELSE IF good = {} THEN t
        ELSE vote_on_block(n, u, r, winner)
  BY DEF open_and_vote
<1> HIDE DEF best, good, t, u, winner
<1> QED BY <1>1, <1>2, <1>3, <1>4, <1>5

\* An operator that touches no block, and then one that commits at most one.
LEMMA SameThenGrows ==
  ASSUME NEW s, NEW t, NEW u, Same(s, t), Grows(t, u)
  PROVE  Grows(s, u)
BY DEF Same, Grows

\* check_for_winner_block in the second round.
LEMMA CheckForWinnerBlock1_Tidy ==
  ASSUME NEW n, NEW W, NEW s, Sound(n, s, W), Tidy(s), NEW env, EnvOK(env)
  PROVE  /\ Tidy(check_for_winner_block_1(s, env))
         /\ Grows(s, check_for_winner_block_1(s, env))
<1>1. ASSUME Winners(s, 1) # {}, ~ s.is_updating_state
      PROVE  LET t == commit_winner(s, PickFirst(Winners(s, 1), env), env)
             IN Tidy(t) /\ Grows(s, t)
  BY <1>1, PickFirstIsMember, CommitWinner_Tidy DEF Round
<1>2. Grows(s, s)
  BY DEF Grows
<1> QED BY <1>1, <1>2 DEF check_for_winner_block_1

\* choose_block_to_vote in the second round.
LEMMA ChooseBlockToVote1_Tidy ==
  ASSUME NEW n \in Node, NEW W, NEW s, Sound(n, s, W), Tidy(s), NEW env, EnvOK(env)
  PROVE  /\ Tidy(choose_block_to_vote_1(n, s, env))
         /\ Grows(s, choose_block_to_vote_1(n, s, env))
<1> DEFINE t == open_and_vote(n, s, 1, env)
<1>1. ASSUME ~ s.is_updating_state
      PROVE  Sound(n, t, W) /\ Tidy(t) /\ Same(s, t)
  BY <1>1, OpenAndVote_Keeps, OpenAndVote_Tidy DEF Round, Keeps
<1>2. Grows(s, s)
  BY DEF Grows
<1> HIDE DEF t
<1>3. ASSUME ~ s.is_updating_state
      PROVE  /\ Tidy(check_for_winner_block_1(t, env))
             /\ Grows(s, check_for_winner_block_1(t, env))
  BY <1>1, <1>3, CheckForWinnerBlock1_Tidy, SameThenGrows
<1> QED BY <1>2, <1>3 DEF choose_block_to_vote_1, t

\* check_for_winner_block in the first round.
LEMMA CheckForWinnerBlock0_Tidy ==
  ASSUME NEW n \in Node, NEW W, NEW s, Sound(n, s, W), Tidy(s), NEW env, EnvOK(env)
  PROVE  /\ Tidy(check_for_winner_block_0(n, s, env))
         /\ Grows(s, check_for_winner_block_0(n, s, env))
<1>1. ASSUME Winners(s, 0) # {}, ~ s.is_updating_state
      PROVE  LET t == commit_winner(s, PickFirst(Winners(s, 0), env), env)
             IN Tidy(t) /\ Grows(s, t)
  BY <1>1, PickFirstIsMember, CommitWinner_Tidy DEF Round
<1>2. Grows(s, s)
  BY DEF Grows
<1> QED BY <1>1, <1>2, ChooseBlockToVote1_Tidy DEF check_for_winner_block_0

\* choose_block_to_vote in the first round.
LEMMA ChooseBlockToVote0_Tidy ==
  ASSUME NEW n \in Node, NEW W, NEW s, Sound(n, s, W), Tidy(s), NEW env, EnvOK(env)
  PROVE  /\ Tidy(choose_block_to_vote_0(n, s, env))
         /\ Grows(s, choose_block_to_vote_0(n, s, env))
<1> DEFINE t == open_and_vote(n, s, 0, env)
<1>1. ASSUME ~ s.is_updating_state
      PROVE  Sound(n, t, W) /\ Tidy(t) /\ Same(s, t)
  BY <1>1, OpenAndVote_Keeps, OpenAndVote_Tidy DEF Round, Keeps
<1>2. Grows(s, s)
  BY DEF Grows
<1> HIDE DEF t
<1>3. ASSUME ~ s.is_updating_state
      PROVE  /\ Tidy(check_for_winner_block_0(n, t, env))
             /\ Grows(s, check_for_winner_block_0(n, t, env))
  BY <1>1, <1>3, CheckForWinnerBlock0_Tidy, SameThenGrows
<1> QED BY <1>2, <1>3 DEF choose_block_to_vote_0, t

\* A new transaction, which is in no block of the chain, may make the node vote,
\* and commit.
LEMMA ProcessNewTransaction_Tidy ==
  ASSUME NEW n \in Node, NEW W, NEW s, Sound(n, s, W), Tidy(s),
         NEW t \in Txn, IsNew(s, t), NEW env, EnvOK(env)
  PROVE  /\ Tidy(process_new_transaction(n, s, t, env))
         /\ Grows(s, process_new_transaction(n, s, t, env))
<1> DEFINE m == [s EXCEPT !.mempool = @ \cup {t}, !.requested = @ \ {t}]
<1>1. Sound(n, m, W) /\ Tidy(m) /\ Same(s, m) /\ m \in NodeState
  BY DEF Sound, NodeState, Tidy, Listed, Same, IsNew
<1>2. process_new_transaction(n, s, t, env) \in
        {start_new_block_timer(m), choose_block_to_vote_0(n, m, env), m}
  BY DEF process_new_transaction
<1> HIDE DEF m
<1>3. /\ Tidy(start_new_block_timer(m)) /\ Grows(m, start_new_block_timer(m))
      /\ Tidy(choose_block_to_vote_0(n, m, env))
      /\ Grows(m, choose_block_to_vote_0(n, m, env))
      /\ Grows(m, m)
  BY <1>1, Timers_Tidy, ChooseBlockToVote0_Tidy DEF Same, Grows
<1> QED BY <1>1, <1>2, <1>3, SameThenGrows

\* The update is over when the next peer is asked or none is needed.
LEMMA RequestStateUpdateNext_Tidy ==
  ASSUME NEW s \in NodeState, Tidy(s), NEW u \in request_state_update_next(s)
  PROVE  Tidy(u) /\ u.chain = s.chain /\ u.update = NoBlock
<1>1. PICK state \in {"synchronizing", "in_sync"} :
        u = [s EXCEPT !.is_updating_state = FALSE, !.update = NoBlock, !.sync = state]
  BY DEF request_state_update_next
<1> QED BY <1>1, NoBlockProperties DEF Tidy, Listed, NodeState

-----------------------------------------------------------------------------
(* The steps *)

\* At the start every node has the first block, which is empty.
LEMMA ChainInvInit == Init => ChainInv
<1> SUFFICES ASSUME Init, NEW n \in Node
             PROVE  Tidy(node[n]) /\ Served(n)
  BY DEF ChainInv
<1>1. node[n] = Start(0)
  BY DEF Init
<1>2. DOMAIN Genesis = {1} /\ Len(Genesis) = 1 /\ Once(Genesis)
  BY DEF Genesis, Once
<1> QED BY <1>1, <1>2, NoBlockProperties DEF Start, Tidy, Listed, Served

\* What the chain lemmas show of a step of one node is what the system needs.
LEMMA BecomeKeepsChainInv ==
  ASSUME TypeOK, Inv, ChainInv, TypeOK', NEW n \in Node, NEW t, Become(n, t),
         Tidy(t), Moves(node[n], t), t.update \in {node[n].update, NoBlock}
  PROVE  ChainInv' /\ OneMoves
<1>1. /\ node'[n] = t
      /\ \A k \in Node \ {n} : node'[k] = node[k]
  BY DEF Become, TypeOK
<1>2. OneMoves
  BY <1>1 DEF OneMoves
<1>3. \A k \in Node : Len(node[k].chain) <= Len(node'[k].chain)
  <2>1. ASSUME NEW k \in Node
        PROVE  Len(node[k].chain) <= Len(node'[k].chain)
    <3>1. node[k] \in NodeState /\ node'[k] \in NodeState /\ Moves(node[k], node'[k])
      BY <1>1 DEF TypeOK, Moves
    <3> QED BY <3>1, MovesIsLonger
  <2> QED BY <2>1
<1>4. ASSUME NEW k \in Node
      PROVE  Served(k)'
  <2>1. \A m \in Node : /\ Len(node[m].chain) \in Nat /\ Len(node'[m].chain) \in Nat
                        /\ Len(node[m].update) \in Nat
    BY LenProperties DEF TypeOK, NodeState, Block
  <2>2. CASE node'[k].update = node[k].update
    <3>1. PICK m \in Node : Len(node[k].update) <= Len(node[m].chain)
      BY DEF ChainInv, Served
    <3>2. Len(node'[k].update) <= Len(node'[m].chain)
      <4>1. Len(node[m].chain) <= Len(node'[m].chain)
        BY <1>3
      <4> QED BY <2>1, <2>2, <3>1, <4>1
    <3> QED BY <3>2 DEF Served
  <2>3. CASE node'[k].update = NoBlock
    BY <2>1, <2>3, NoBlockProperties DEF Served
  <2> QED BY <1>1, <2>2, <2>3
<1>5. \A k \in Node : Tidy(node'[k])
  BY <1>1 DEF ChainInv
<1> QED BY <1>2, <1>4, <1>5 DEF ChainInv

\* The steps of the two actions with which a transaction enters the mempool.
LEMMA NewTransaction_Chain ==
  ASSUME TypeOK, Inv, ChainInv, TypeOK', NEW n \in Node, NEW t \in Txn,
         send_local_transactions(n, t) \/ on_new_remote_transaction(n, t)
  PROVE  ChainInv' /\ OneMoves
<1> DEFINE q == node[n]
           s == [q EXCEPT !.submitted = @ \cup {t}]
<1>1. PICK env \in Environment(q) : \/ Become(n, process_new_transaction(n, s, t, env))
                                    \/ Become(n, process_new_transaction(n, q, t, env))
  BY DEF send_local_transactions, on_new_remote_transaction
<1>2. Sound(n, q, SentVotes) /\ Tidy(q) /\ EnvOK(env) /\ IsNew(q, t)
  BY EnvironmentOK DEF Inv, ChainInv, send_local_transactions, on_new_remote_transaction
<1> HIDE DEF q
<1>3. Sound(n, s, SentVotes) /\ Tidy(s) /\ Same(q, s) /\ IsNew(s, t)
  BY <1>2 DEF Sound, NodeState, Tidy, Listed, Same, IsNew
<1> HIDE DEF s
<1>4. /\ Tidy(process_new_transaction(n, s, t, env))
      /\ Grows(q, process_new_transaction(n, s, t, env))
      /\ Tidy(process_new_transaction(n, q, t, env))
      /\ Grows(q, process_new_transaction(n, q, t, env))
  BY <1>2, <1>3, ProcessNewTransaction_Tidy, SameThenGrows
<1> QED BY <1>1, <1>4, BecomeKeepsChainInv DEF q, Grows, Moves

\* The end of a request and the timer of the transactions touch no block.
LEMMA NoBlockTouched_Chain ==
  ASSUME TypeOK, Inv, ChainInv, TypeOK', NEW n \in Node,
         \/ \E t \in Txn : request_transaction_finished(n, t)
         \/ process_transactions_timer_cb(n)
  PROVE  ChainInv' /\ OneMoves
<1> DEFINE q == node[n]
<1>1. PICK u : /\ Become(n, u)
               /\ \/ u = request_state_update(q)
                  \/ \E t \in Txn : u = [q EXCEPT !.requested = @ \ {t}]
  BY DEF request_transaction_finished, process_transactions_timer_cb
<1>2. q \in NodeState /\ Tidy(q)
  BY DEF TypeOK, ChainInv
<1> HIDE DEF q
<1>3. Tidy(u) /\ Same(q, u)
  BY <1>1, <1>2, Timers_Tidy DEF NodeState, Tidy, Listed, Same
<1> QED BY <1>1, <1>3, BecomeKeepsChainInv DEF q, Same, Moves

\* The block a node proposes holds no transaction of its chain.
LEMMA NewBlockTimerCb_Chain ==
  ASSUME TypeOK, Inv, ChainInv, TypeOK', NEW n \in Node, new_block_timer_cb(n)
  PROVE  ChainInv' /\ OneMoves
<1> DEFINE stopped == [node[n] EXCEPT !.new_block_timer = FALSE]
           s == rollback_block(stopped)
           b == Append(s.chain, [creator |-> n, txns |-> Unused(s), run |-> s.run])
           again == [s EXCEPT !.new_block_timer = TRUE]
           opened == [s EXCEPT !.new_blocks = @ \cup {b}, !.created = @ \cup {b},
                               !.open_block = b, !.verified = TRUE,
                               !.last_created = Len(b)]
<1>1. PICK begun \in BeginResults :
        Become(n, IF Unused(s) = {} THEN s
                  ELSE IF s.is_updating_state \/ ~ begun THEN again
                  ELSE start_block_wait_timer(opened))
  BY DEF new_block_timer_cb
<1>2. s \in NodeState /\ Tidy(s) /\ Same(node[n], s)
  <2> DEFINE q == node[n]
             r == [q EXCEPT !.new_block_timer = FALSE]
  <2>1. q \in NodeState /\ Tidy(q)
    BY DEF TypeOK, ChainInv
  <2> HIDE DEF q
  <2>2. r \in NodeState /\ Tidy(r) /\ Same(q, r)
    BY <2>1 DEF NodeState, Tidy, Listed, Same
  <2> HIDE DEF r
  <2>3. Tidy(rollback_block(r)) /\ Same(q, rollback_block(r))
    BY <2>2, RollbackBlock_Tidy DEF Same
  <2>4. rollback_block(r) \in NodeState
    BY <2>2, NoBlockProperties DEF rollback_block, NodeState
  <2> QED BY <2>3, <2>4 DEF q, r
<1> HIDE DEF s
<1>3. Tidy(again) /\ Same(s, again)
  BY <1>2 DEF Tidy, Listed, Same, NodeState
<1>4. ASSUME ~ s.is_updating_state
      PROVE  LET u == start_block_wait_timer(opened)
             IN Tidy(u) /\ u.chain = s.chain /\ u.update = s.update
  <2> DEFINE body == [creator |-> n, txns |-> Unused(s), run |-> s.run]
  <2>1. body \in Body /\ s.chain \in Block /\ body.txns \cap Executed(s.chain) = {}
    BY <1>2 DEF NodeState, Unused, Body, Tidy
  <2> HIDE DEF body
  <2>2. b \in Block /\ b # NoBlock /\ Len(b) \in Nat /\ Parent(b) = s.chain /\ Once(b)
    BY <1>2, <2>1, ParentOfAppend, OnceAppend DEF Block, NoBlock, Tidy, Listed, body
  <2> HIDE DEF b
  <2>3. /\ opened \in NodeState /\ Tidy(opened)
        /\ opened.chain = s.chain /\ opened.update = s.update
    BY <1>2, <1>4, <2>2 DEF NodeState, Tidy, Listed
  <2> HIDE DEF opened
  <2> QED BY <2>3, Timers_Tidy DEF Same
<1> HIDE DEF again, opened
<1> QED BY <1>1, <1>2, <1>3, <1>4, BecomeKeepsChainInv DEF Same, Moves

\* The step of the action on_block_wait_timeout.
LEMMA OnBlockWaitTimeout_Chain ==
  ASSUME TypeOK, Inv, ChainInv, TypeOK', NEW n \in Node, on_block_wait_timeout(n)
  PROVE  ChainInv' /\ OneMoves
<1> DEFINE q == node[n]
           s == [q EXCEPT !.block_wait_timer = FALSE, !.new_block_timer = FALSE]
<1>1. PICK env \in Environment(q) : Become(n, choose_block_to_vote_0(n, s, env))
  BY DEF on_block_wait_timeout
<1>2. Sound(n, q, SentVotes) /\ Tidy(q) /\ EnvOK(env)
  BY EnvironmentOK DEF Inv, ChainInv
<1> HIDE DEF q
<1>3. Sound(n, s, SentVotes) /\ Tidy(s) /\ Same(q, s)
  BY <1>2 DEF Sound, NodeState, Tidy, Listed, Same
<1> HIDE DEF s
<1>4. /\ Tidy(choose_block_to_vote_0(n, s, env))
      /\ Grows(q, choose_block_to_vote_0(n, s, env))
  BY <1>2, <1>3, ChooseBlockToVote0_Tidy, SameThenGrows
<1> QED BY <1>1, <1>4, BecomeKeepsChainInv DEF q, Grows, Moves

\* A block that was sent holds every transaction once.
LEMMA OnNewBlock_Chain ==
  ASSUME TypeOK, Inv, ChainInv, TypeOK', NEW n \in Node, NEW b \in SentBlocks,
         on_new_block(n, b)
  PROVE  ChainInv' /\ OneMoves
<1> DEFINE q == node[n]
           missing == Head1(b).txns \ q.mempool
           t == [q EXCEPT !.new_blocks = @ \cup {b}, !.requested = @ \cup missing]
           u == start_block_wait_timer(t)
<1>1. PICK env \in Environment(t) :
        Become(n, IF Len(b) > Height(q) + 1 THEN request_state_update(t)
                  ELSE IF missing # {} THEN u
                  ELSE check_for_winner_block_0(n, u, env))
  BY DEF on_new_block
<1>2. Sound(n, q, SentVotes) /\ Tidy(q) /\ EnvOK(env)
  BY EnvironmentOK DEF Inv, ChainInv
<1>3. b \in Block /\ Once(b) /\ missing \subseteq Txn
  <2>1. b \in Block /\ Once(b)
    BY SentIsTyped DEF SentBlocks, ChainInv, Tidy, Listed
  <2>2. Len(b) > Len(q.chain) /\ q.chain \in Block
    BY <1>2 DEF on_new_block, Height, Sound, NodeState
  <2>3. Len(b) \in 1 .. Len(b)
    BY <2>1, <2>2, LenProperties DEF Block
  <2>4. Head1(b) \in Body
    BY <2>1, <2>3, ElementOfSeq DEF Block, Head1
  <2> QED BY <2>1, <2>4 DEF Body
<1> HIDE DEF q, missing
<1>4. Sound(n, t, SentVotes) /\ Tidy(t) /\ Same(q, t) /\ t \in NodeState
  BY <1>2, <1>3 DEF Sound, NodeState, Tidy, Listed, Same
<1> HIDE DEF t
<1>5. Sound(n, u, SentVotes) /\ Tidy(u) /\ Same(q, u)
  BY <1>4, StartBlockWaitTimer_Keeps, Timers_Tidy DEF Keeps, Same
<1>6. Tidy(request_state_update(t)) /\ Same(q, request_state_update(t))
  BY <1>4, Timers_Tidy DEF Same
<1> HIDE DEF u
<1>7. Tidy(check_for_winner_block_0(n, u, env)) /\ Grows(q, check_for_winner_block_0(n, u, env))
  BY <1>2, <1>5, CheckForWinnerBlock0_Tidy, SameThenGrows
<1> QED BY <1>1, <1>5, <1>6, <1>7, BecomeKeepsChainInv DEF q, Same, Grows, Moves

\* The step of the action on_block_vote.
LEMMA OnBlockVote_Chain ==
  ASSUME TypeOK, Inv, ChainInv, TypeOK', NEW n \in Node, NEW v \in SentVotes,
         on_block_vote(n, v)
  PROVE  ChainInv' /\ OneMoves
<1> DEFINE q == node[n]
           t == [q EXCEPT !.votes = @ \cup {v}]
<1>1. PICK env \in Environment(t) :
        Become(n, IF v.block \notin q.new_blocks
                  THEN IF Len(v.block) > Height(q) + 1 THEN request_state_update(t) ELSE t
                  ELSE IF v.round = 0 THEN check_for_winner_block_0(n, t, env)
                  ELSE check_for_winner_block_1(t, env))
  BY DEF on_block_vote
<1>2. Sound(n, q, SentVotes) /\ Tidy(q) /\ EnvOK(env) /\ v \in VoteSet
  BY EnvironmentOK, SentIsTyped DEF Inv, ChainInv
<1> HIDE DEF q
<1>3. Sound(n, t, SentVotes) /\ Tidy(t) /\ Same(q, t) /\ t \in NodeState
  BY <1>2 DEF Sound, NodeState, Tidy, Listed, Same
<1> HIDE DEF t
<1>4. /\ Tidy(check_for_winner_block_0(n, t, env))
      /\ Grows(q, check_for_winner_block_0(n, t, env))
      /\ Tidy(check_for_winner_block_1(t, env))
      /\ Grows(q, check_for_winner_block_1(t, env))
      /\ Tidy(request_state_update(t)) /\ Same(q, request_state_update(t))
  BY <1>2, <1>3, CheckForWinnerBlock0_Tidy, CheckForWinnerBlock1_Tidy, SameThenGrows,
     Timers_Tidy DEF Same
<1> QED BY <1>1, <1>3, <1>4, BecomeKeepsChainInv DEF q, Same, Grows, Moves

\* The peer that serves an update has the blocks it sends, and closes its own
\* open block.
LEMMA OnRequestStateUpdate_Chain ==
  ASSUME TypeOK, Inv, ChainInv, TypeOK', NEW m \in Node, NEW n \in Node,
         on_request_state_update(m, n)
  PROVE  ChainInv' /\ OneMoves
<1> DEFINE q == node[n]
           p == node[m]
           t == [q EXCEPT !.update = p.chain]
<1>1. /\ node'[n] = t /\ node'[m] = rollback_block(p) /\ m # n
      /\ \A k \in Node \ {m, n} : node'[k] = node[k]
      /\ ~ q.is_updating_state
  BY DEF on_request_state_update, TypeOK
<1>2. q \in NodeState /\ p \in NodeState /\ Tidy(q) /\ Tidy(p)
  BY DEF TypeOK, ChainInv
<1>3. Tidy(rollback_block(p)) /\ Same(p, rollback_block(p))
  BY <1>2, RollbackBlock_Tidy
<1>4. Tidy(t) /\ t.chain = q.chain /\ t.update = p.chain
  <2> HIDE DEF q, p
  <2> QED BY <1>1, <1>2 DEF Tidy, Listed, NodeState
<1> HIDE DEF t
<1>5. \A k \in Node : node'[k].chain = node[k].chain
  BY <1>1, <1>3, <1>4 DEF Same
<1>6. OneMoves
  BY <1>5 DEF OneMoves, Moves
<1>7. ASSUME NEW k \in Node
      PROVE  Served(k)'
  <2>1. CASE k = n
    <3>1. Len(p.chain) \in Nat
      BY <1>2, LenProperties DEF NodeState, Block
    <3> QED BY <1>1, <1>4, <1>5, <2>1, <3>1 DEF Served
  <2>2. CASE k # n
    <3>1. node'[k].update = node[k].update
      BY <1>1, <1>3, <2>2 DEF Same
    <3> QED BY <1>5, <3>1 DEF ChainInv, Served
  <2> QED BY <2>1, <2>2
<1>8. \A k \in Node : Tidy(node'[k])
  BY <1>1, <1>3, <1>4 DEF ChainInv
<1> QED BY <1>6, <1>7, <1>8 DEF ChainInv

\* An update begins only when it leads to a later block.
LEMMA OnUpdateDbPage_Chain ==
  ASSUME TypeOK, Inv, ChainInv, TypeOK', NEW n \in Node, on_update_db_page(n)
  PROVE  ChainInv' /\ OneMoves
<1> DEFINE q == node[n]
           s == rollback_block(q)
           t == [s EXCEPT !.is_updating_state = TRUE]
<1>1. /\ Len(s.update) > Height(s)
      /\ \/ Become(n, t)
         \/ \E u \in request_state_update_next(s) : Become(n, u)
  BY DEF on_update_db_page
<1>2. Sound(n, q, SentVotes) /\ Tidy(q)
  BY DEF Inv, ChainInv
<1> HIDE DEF q
<1>3. s \in NodeState /\ Tidy(s) /\ Same(q, s) /\ s.open_block = NoBlock
  BY <1>2, RollbackBlock_Keeps, RollbackBlock_Tidy DEF Keeps, Sound
<1> HIDE DEF s
<1>4. Tidy(t) /\ t.chain = q.chain /\ t.update = q.update
  BY <1>1, <1>3 DEF Tidy, Listed, Same, NodeState, Height
<1>5. \A u \in request_state_update_next(s) :
        Tidy(u) /\ u.chain = q.chain /\ u.update = NoBlock
  BY <1>3, RequestStateUpdateNext_Tidy DEF Same
<1> HIDE DEF t
<1> QED BY <1>1, <1>4, <1>5, BecomeKeepsChainInv DEF q, Moves

\* The chain of the update replaces that of the node.
LEMMA OnApplyStateUpdate_Chain ==
  ASSUME TypeOK, Inv, ChainInv, TypeOK', NEW n \in Node, on_apply_state_update(n)
  PROVE  ChainInv' /\ OneMoves
<1> DEFINE s == node[n]
           w == [s EXCEPT !.chain = s.update,
                          !.new_blocks = {b \in @ : Len(b) > Len(s.update)},
                          !.votes = {v \in @ : Len(v.block) > Len(s.update)}]
           t == check_mempool_transactions(w)
<1>1. /\ s.is_updating_state
      /\ \/ \E u \in request_state_update_next(t) : Become(n, u)
         \/ \E u \in request_state_update_next(s) : Become(n, u)
  BY DEF on_apply_state_update
<1>2. s \in NodeState /\ Tidy(s) /\ Len(s.update) > Len(s.chain)
  BY <1>1 DEF TypeOK, ChainInv, Tidy, Listed
<1> HIDE DEF s
<1>3. ASSUME NEW u \in request_state_update_next(t)
      PROVE  Tidy(u) /\ u.chain = s.update /\ u.update = NoBlock
  <2>1. /\ w \in NodeState /\ w.chain = s.update /\ w.new_blocks \subseteq s.new_blocks
        /\ w.created = s.created /\ w.open_block = NoBlock
    BY <1>1, <1>2 DEF Tidy, Listed, NodeState
  <2> HIDE DEF w
  <2>2. /\ t \in NodeState /\ t.chain = s.update /\ t.new_blocks \subseteq s.new_blocks
        /\ t.created = s.created /\ t.open_block = NoBlock
        /\ t.mempool \cap Executed(t.chain) \subseteq t.used
    BY <2>1 DEF check_mempool_transactions, NodeState
  <2> HIDE DEF t
  <2>3. PICK state \in {"synchronizing", "in_sync"} :
          u = [t EXCEPT !.is_updating_state = FALSE, !.update = NoBlock, !.sync = state]
    BY DEF request_state_update_next
  <2> QED BY <1>2, <2>2, <2>3, NoBlockProperties DEF Tidy, Listed, NodeState
<1>4. \A u \in request_state_update_next(s) :
        Tidy(u) /\ u.chain = s.chain /\ u.update = NoBlock
  BY <1>2, RequestStateUpdateNext_Tidy
<1> HIDE DEF t
<1> QED BY <1>1, <1>2, <1>3, <1>4, BecomeKeepsChainInv DEF s, Moves

\* The step of the action on_state_update_node_timeout.
LEMMA OnStateUpdateNodeTimeout_Chain ==
  ASSUME TypeOK, Inv, ChainInv, TypeOK', NEW n \in Node, on_state_update_node_timeout(n)
  PROVE  ChainInv' /\ OneMoves
<1>1. PICK u \in request_state_update_next(node[n]) : Become(n, u)
  BY DEF on_state_update_node_timeout
<1>2. Tidy(u) /\ u.chain = node[n].chain /\ u.update = NoBlock
  BY RequestStateUpdateNext_Tidy DEF TypeOK, ChainInv
<1> QED BY <1>1, <1>2, BecomeKeepsChainInv DEF Moves

\* A node that starts again has the chain of its database.
LEMMA PluginInit_Chain ==
  ASSUME TypeOK, Inv, ChainInv, TypeOK', NEW n \in Node, plugin_init(n)
  PROVE  ChainInv' /\ OneMoves
<1> DEFINE s == node[n]
           t == [Start(s.run + 1) EXCEPT !.chain = s.chain, !.sync = "outdated",
                                         !.created = s.created, !.cast = s.cast,
                                         !.submitted = s.submitted]
<1>1. Become(n, t)
  BY DEF plugin_init
<1>2. Tidy(s)
  BY DEF ChainInv
<1> HIDE DEF s
<1>3. Tidy(t) /\ t.chain = s.chain /\ t.update = NoBlock
  BY <1>2, NoBlockProperties DEF Tidy, Listed, Start
<1> HIDE DEF t
<1> QED BY <1>1, <1>3, BecomeKeepsChainInv DEF s, Moves

\* Every step keeps what the nodes hold in order, and changes one chain at most.
LEMMA ChainNext ==
  ASSUME TypeOK, Inv, ChainInv, Next
  PROVE  ChainInv' /\ OneMoves
<1>0. TypeOK'
  BY InvNext
<1>1. ASSUME NEW n \in Node,
             \/ \E t \in Txn : send_local_transactions(n, t) \/ on_new_remote_transaction(n, t)
             \/ \E t \in Txn : request_transaction_finished(n, t)
             \/ new_block_timer_cb(n)
             \/ on_block_wait_timeout(n)
             \/ \E b \in SentBlocks : on_new_block(n, b)
             \/ \E v \in SentVotes : on_block_vote(n, v)
      PROVE  ChainInv' /\ OneMoves
  BY <1>0, <1>1, NewTransaction_Chain, NoBlockTouched_Chain, NewBlockTimerCb_Chain,
     OnBlockWaitTimeout_Chain, OnNewBlock_Chain, OnBlockVote_Chain
<1>2. ASSUME NEW n \in Node,
             \/ process_transactions_timer_cb(n)
             \/ \E m \in Node : on_request_state_update(m, n)
             \/ on_update_db_page(n)
             \/ on_apply_state_update(n)
             \/ on_state_update_node_timeout(n)
             \/ plugin_init(n)
      PROVE  ChainInv' /\ OneMoves
  BY <1>0, <1>2, NoBlockTouched_Chain, OnRequestStateUpdate_Chain, OnUpdateDbPage_Chain,
     OnApplyStateUpdate_Chain, OnStateUpdateNodeTimeout_Chain, PluginInit_Chain
<1> QED BY <1>1, <1>2 DEF Next

\* The types, the votes behind every chain and what the nodes hold, in one step.
LEMMA ChainInvNext ==
  TypeOK /\ Inv /\ ChainInv /\ [Next]_node => TypeOK' /\ Inv' /\ ChainInv'
<1> SUFFICES ASSUME TypeOK, Inv, ChainInv, [Next]_node
             PROVE  TypeOK' /\ Inv' /\ ChainInv'
  OBVIOUS
<1>1. CASE Next
  BY <1>1, InvNext, ChainNext
<1>2. CASE UNCHANGED node
  BY <1>2, InvNext DEF ChainInv, Served
<1> QED BY <1>1, <1>2

\* No node executes a transaction twice, whichever nodes proposed it for whichever
\* heights, and whatever fails, restarts or comes late.
THEOREM TransactionsOnce == Spec => []ExecutedOnce
<1>1. ChainInv => ExecutedOnce
  BY DEF ChainInv, Tidy, Listed, Once, ExecutedOnce
<1> QED BY <1>1, InitTypeOK, InvInit, ChainInvInit, ChainInvNext, PTL DEF Spec

\* open_block never dangles: it is NULL or on the list of new blocks, and it
\* extends the current block, also after a commit that failed and while a state
\* update is written.
THEOREM OpenBlockIsListed == Spec => []OpenBlockOnList
<1>1. ChainInv => OpenBlockOnList
  BY DEF ChainInv, Tidy, Listed, OpenBlockOnList
<1> QED BY <1>1, InitTypeOK, InvInit, ChainInvInit, ChainInvNext, PTL DEF Spec
=============================================================================
