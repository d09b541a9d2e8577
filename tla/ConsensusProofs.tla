-------------------------- MODULE ConsensusProofs --------------------------
(***************************************************************************)
(* Every block a node commits has the votes of a majority in one round,    *)
(* for any number of nodes, whatever the wait times, the faults, the       *)
(* restarts and the order of the messages.                                 *)
(*                                                                         *)
(* The handlers are operators from a node state to a node state, so the    *)
(* invariant is stated of one node state s and a set W of votes that were  *)
(* sent: Sound(n, s, W).  There is a lemma for each handler, which says    *)
(* that it keeps a state sound and forgets no vote it has cast; the step   *)
(* from node states to the whole system is made once, in Become_Sound.     *)
(***************************************************************************)
EXTENDS Consensus, TLAPS, FiniteSetTheorems, SequenceTheorems

Quorum(V, b, r) == Cardinality({n \in Node : Vote(b, r, n) \in V}) >= Majority

\* The chain c starts with the first block, and each of its blocks after that
\* has the votes of a majority among the votes V.
Certified(V, c) ==
  /\ c # NoBlock
  /\ c[1] = Genesis[1]
  /\ \A h \in 2 .. Len(c) : \E r \in Round : Quorum(V, SubSeq(c, 1, h), r)

Sound(n, s, W) ==
  /\ s \in NodeState
  /\ \A v \in s.cast : v.voter = n
  /\ s.votes \subseteq W \cup s.cast
  /\ Certified(W \cup s.cast, s.chain)
  /\ s.update # NoBlock => Certified(W \cup s.cast, s.update)
  /\ s.is_updating_state => s.update # NoBlock /\ ~ s.verified
  /\ s.verified => s.open_block # NoBlock /\ Parent(s.open_block) = s.chain

\* The handler that leads from s to t keeps the state of n sound.
Keeps(n, s, t, W) == Sound(n, t, W) /\ s.cast \subseteq t.cast

Inv == \A n \in Node : Sound(n, node[n], SentVotes)

EnvOK(env) == env.commit \in {"ok", "busy", "error"}

-----------------------------------------------------------------------------
(* Votes and chains *)

\* More votes leave a quorum a quorum.
LEMMA QuorumMonotonic ==
  ASSUME NEW V, NEW V2, V \subseteq V2, NEW b, NEW r, Quorum(V, b, r)
  PROVE  Quorum(V2, b, r)
<1> DEFINE S == {n \in Node : Vote(b, r, n) \in V}
           S2 == {n \in Node : Vote(b, r, n) \in V2}
<1>1. IsFiniteSet(S2) /\ S \in SUBSET S2
  <2>1. S2 \in SUBSET Node /\ S \in SUBSET S2
    OBVIOUS
  <2> QED BY <2>1, FS_Subset, NodeAssumption
<1>2. Cardinality(S) <= Cardinality(S2) /\ Cardinality(S) \in Nat /\ Cardinality(S2) \in Nat
  <2>1. IsFiniteSet(S) /\ Cardinality(S) <= Cardinality(S2)
    BY <1>1, FS_Subset
  <2> QED BY <1>1, <2>1, FS_CardinalityType
<1>3. Cardinality(Node) \in Nat
  BY FS_CardinalityType, NodeAssumption
<1>4. Majority \in Nat
  BY <1>3 DEF Majority
<1> QED BY <1>2, <1>4 DEF Quorum

\* A chain that had its majorities has them among more votes.
LEMMA CertifiedMonotonic ==
  ASSUME NEW V, NEW V2, V \subseteq V2, NEW c, Certified(V, c)
  PROVE  Certified(V2, c)
BY QuorumMonotonic DEF Certified

\* What is sound for a node stays so when the other nodes send more votes.
LEMMA SoundMonotonic ==
  ASSUME NEW n, NEW s, NEW W, NEW W2, W \subseteq W2 \cup s.cast, Sound(n, s, W)
  PROVE  Sound(n, s, W2)
<1>1. W \cup s.cast \subseteq W2 \cup s.cast
  OBVIOUS
<1> QED BY <1>1, CertifiedMonotonic DEF Sound

\* The predecessor of a block is the block without its last body.
LEMMA ParentProperties ==
  ASSUME NEW b \in Block, Len(b) >= 1
  PROVE  /\ Parent(b) \in Block
         /\ Len(Parent(b)) = Len(b) - 1
         /\ \A i \in 1 .. Len(b) - 1 : Parent(b)[i] = b[i]
<1> DEFINE k == Len(b) - 1
<1>1. k \in Nat /\ 1 \in Int /\ \A i \in 1 .. k : b[i] \in Body
  BY LenProperties, ElementOfSeq DEF Block
<1>2. Parent(b) = SubSeq(b, 1, k)
  BY DEF Parent
<1> HIDE DEF k
<1>3. /\ SubSeq(b, 1, k) \in Seq(Body)
      /\ Len(SubSeq(b, 1, k)) = IF 1 <= k THEN k - 1 + 1 ELSE 0
      /\ \A i \in 1 .. k - 1 + 1 : SubSeq(b, 1, k)[i] = b[1 + i - 1]
  BY <1>1, SubSeqProperties
<1>4. Len(Parent(b)) = k /\ \A i \in 1 .. k : Parent(b)[i] = b[i]
  BY <1>1, <1>2, <1>3
<1> QED BY <1>2, <1>3, <1>4 DEF k, Block

\* A block on top of a chain names that chain as its predecessor.
LEMMA ParentOfAppend ==
  ASSUME NEW c \in Block, NEW body \in Body
  PROVE  /\ Append(c, body) \in Block
         /\ Len(Append(c, body)) = Len(c) + 1
         /\ Parent(Append(c, body)) = c
<1> DEFINE b == Append(c, body)
<1>1. b \in Block /\ Len(b) = Len(c) + 1 /\ \A i \in 1 .. Len(c) : b[i] = c[i]
  BY DEF Block
<1>2. Len(c) \in Nat
  BY LenProperties DEF Block
<1> HIDE DEF b
<1>3. /\ Parent(b) \in Block /\ Len(Parent(b)) = Len(c)
      /\ \A i \in 1 .. Len(c) : Parent(b)[i] = c[i]
  BY <1>1, <1>2, ParentProperties
<1>4. Parent(b) = c
  BY <1>3, SeqEqual DEF Block
<1> QED BY <1>1, <1>4 DEF b

\* The chain up to a height has that height and the same blocks.
LEMMA PrefixProperties ==
  ASSUME NEW c \in Block, NEW h \in 1 .. Len(c)
  PROVE  Len(SubSeq(c, 1, h)) = h /\ SubSeq(c, 1, h)[h] = c[h]
<1>1. h \in Nat /\ 1 \in Int /\ \A i \in 1 .. h : c[i] \in Body
  BY LenProperties, ElementOfSeq DEF Block
<1>2. /\ Len(SubSeq(c, 1, h)) = IF 1 <= h THEN h - 1 + 1 ELSE 0
      /\ \A i \in 1 .. h - 1 + 1 : SubSeq(c, 1, h)[i] = c[1 + i - 1]
  BY <1>1, SubSeqProperties
<1>3. h \in 1 .. h - 1 + 1 /\ 1 + h - 1 = h /\ h - 1 + 1 = h /\ 1 <= h
  BY <1>1
<1> QED BY <1>2, <1>3

\* A block with a quorum on top of a certified chain makes a certified chain.
LEMMA CertifiedExtends ==
  ASSUME NEW V, NEW b \in Block, NEW r \in Round, Quorum(V, b, r),
         b # NoBlock, Certified(V, Parent(b))
  PROVE  Certified(V, b)
<1> DEFINE c == Parent(b)
<1>1. Len(b) \in Nat /\ Len(b) >= 1
  BY EmptySeq DEF Block, NoBlock
<1>2. c \in Block /\ Len(c) = Len(b) - 1 /\ \A i \in 1 .. Len(b) - 1 : c[i] = b[i]
  BY <1>1, ParentProperties
<1>3. Len(c) >= 1
  BY <1>2, EmptySeq DEF Block, Certified, NoBlock
<1>4. b[1] = Genesis[1]
  BY <1>1, <1>2, <1>3 DEF Certified
<1>5. ASSUME NEW h \in 2 .. Len(b)
      PROVE  \E q \in Round : Quorum(V, SubSeq(b, 1, h), q)
  <2>1. CASE h = Len(b)
    BY <2>1, SubSeqFull DEF Block
  <2>2. CASE h # Len(b)
    <3>1. SubSeq(c, 1, h) = SubSeq(b, 1, h)
      <4>1. c = SubSeq(b, 1, Len(b) - 1)
        BY DEF Parent
      <4>2. /\ 1 \in 1 .. Len(b) /\ Len(b) - 1 \in 1 .. Len(b)
            /\ 1 \in 1 .. (Len(b) - 1) - 1 + 1 /\ h \in 1 .. (Len(b) - 1) - 1 + 1
        BY <1>1, <1>2, <1>3, <2>2
      <4>3. SubSeq(SubSeq(b, 1, Len(b) - 1), 1, h) = SubSeq(b, 1 + 1 - 1, 1 + h - 1)
        BY <4>2, SubSeqOfSubSeq DEF Block
      <4>4. 1 + 1 - 1 = 1 /\ 1 + h - 1 = h
        OBVIOUS
      <4> QED BY <4>1, <4>3, <4>4
    <3>2. h \in 2 .. Len(c)
      BY <1>1, <1>2, <2>2
    <3> QED BY <3>1, <3>2 DEF Certified
  <2> QED BY <2>1, <2>2
<1> QED BY <1>4, <1>5 DEF Certified

\* The first block of a list is one of the list.
LEMMA PickFirstIsMember ==
  ASSUME NEW S, S # {}, NEW env
  PROVE  PickFirst(S, env) \in S
BY DEF PickFirst

-----------------------------------------------------------------------------
(* The handlers *)

\* start_new_block_timer touches a timer only.
LEMMA StartNewBlockTimer_Keeps ==
  ASSUME NEW n, NEW W, NEW s, Sound(n, s, W)
  PROVE  Keeps(n, s, start_new_block_timer(s), W)
BY DEF start_new_block_timer, Keeps, Sound, NodeState

\* start_block_wait_timer touches a timer only.
LEMMA StartBlockWaitTimer_Keeps ==
  ASSUME NEW n, NEW W, NEW s, Sound(n, s, W)
  PROVE  Keeps(n, s, start_block_wait_timer(s), W)
BY DEF start_block_wait_timer, Keeps, Sound, NodeState

\* The transactions that leave the mempool are of no block that is voted on.
LEMMA CheckMempoolTransactions_Keeps ==
  ASSUME NEW n, NEW W, NEW s, Sound(n, s, W)
  PROVE  Keeps(n, s, check_mempool_transactions(s), W)
BY DEF check_mempool_transactions, Keeps, Sound, NodeState

\* request_state_update touches the state of the synchronization only.
LEMMA RequestStateUpdate_Keeps ==
  ASSUME NEW n, NEW W, NEW s, Sound(n, s, W)
  PROVE  Keeps(n, s, request_state_update(s), W)
BY DEF request_state_update, Keeps, Sound, NodeState, SyncState

\* The node that becomes outdated keeps its chain and votes.
LEMMA MarkOutdated_Keeps ==
  ASSUME NEW n, NEW W, NEW s, Sound(n, s, W)
  PROVE  Keeps(n, s, mark_outdated(s), W)
BY DEF mark_outdated, Keeps, Sound, NodeState, SyncState

\* rollback_block leaves no verified block, and the same chain.
LEMMA RollbackBlock_Keeps ==
  ASSUME NEW n, NEW W, NEW s, Sound(n, s, W)
  PROVE  /\ Keeps(n, s, rollback_block(s), W)
         /\ rollback_block(s).chain = s.chain
         /\ rollback_block(s).cast = s.cast
         /\ ~ rollback_block(s).verified
         /\ rollback_block(s).is_updating_state = s.is_updating_state
<1>1. NoBlock \in Block
  BY EmptySeq DEF NoBlock, Block
<1> QED BY <1>1 DEF rollback_block, Keeps, Sound, NodeState

\* What is committed extends the chain by a block that has a quorum.
LEMMA CommitBlock_Keeps ==
  ASSUME NEW n, NEW W, NEW s, Sound(n, s, W),
         NEW b \in Block, NEW r \in Round, b # NoBlock,
         Quorum(W \cup s.cast, b, r),
         s.verified => Parent(b) = s.chain,
         NEW env, EnvOK(env)
  PROVE  Keeps(n, s, commit_block(s, b, env), W)
<1> DEFINE failed == [s EXCEPT !.verified = FALSE]
           done == [s EXCEPT !.chain = b,
                             !.used = @ \cup (s.mempool \cap Head1(b).txns),
                             !.new_blocks = {c \in @ : Len(c) > Len(b)},
                             !.votes = {v \in @ : Len(v.block) > Len(b)},
                             !.open_block = NoBlock,
                             !.verified = FALSE]
           cleared == check_mempool_transactions(done)
<1>1. Keeps(n, s, failed, W)
  BY DEF Keeps, Sound, NodeState
<1>2. CASE ~ s.verified
  BY <1>2, MarkOutdated_Keeps DEF commit_block
<1>3. CASE s.verified /\ env.commit = "busy"
  BY <1>1, <1>3 DEF commit_block
<1>4. CASE s.verified /\ env.commit = "error"
  <2>1. Keeps(n, failed, mark_outdated(failed), W)
    BY <1>1, MarkOutdated_Keeps DEF Keeps
  <2> QED BY <1>1, <1>4, <2>1 DEF commit_block, Keeps
<1>5. CASE s.verified /\ env.commit = "ok"
  <2>1. done \in NodeState
    <3>1. NoBlock \in Block
      BY EmptySeq DEF NoBlock, Block
    <3> QED BY <3>1 DEF Sound, NodeState
  <2>2. /\ done.cast = s.cast /\ done.votes \subseteq s.votes
        /\ done.chain = b /\ done.update = s.update
        /\ done.is_updating_state = s.is_updating_state /\ done.verified = FALSE
    BY DEF Sound, NodeState
  <2>3. Certified(W \cup s.cast, b)
    BY <1>5, CertifiedExtends DEF Sound
  <2>4. Sound(n, done, W) /\ done.cast = s.cast
    BY <2>1, <2>2, <2>3 DEF Sound
  <2>5. commit_block(s, b, env) = start_new_block_timer(cleared)
    BY <1>5 DEF commit_block
  <2> HIDE DEF done
  <2>6. Keeps(n, done, cleared, W)
    BY <2>4, CheckMempoolTransactions_Keeps
  <2> HIDE DEF cleared
  <2>7. Keeps(n, cleared, start_new_block_timer(cleared), W)
    BY <2>6, StartNewBlockTimer_Keeps DEF Keeps
  <2> QED BY <2>4, <2>5, <2>6, <2>7 DEF Keeps
<1> QED BY <1>2, <1>3, <1>4, <1>5 DEF EnvOK

\* A winner is a block with a quorum.
LEMMA WinnerHasQuorum ==
  ASSUME NEW n, NEW W, NEW s, Sound(n, s, W), NEW r, NEW b \in Winners(s, r)
  PROVE  b \in Block /\ b # NoBlock /\ Quorum(W \cup s.cast, b, r)
<1>1. b \in Block /\ Len(b) = Height(s) + 1
  BY DEF Winners, Proposals, Sound, NodeState
<1>2. Height(s) \in Nat
  BY LenProperties DEF Height, Sound, NodeState, Block
<1>3. b # NoBlock
  BY <1>1, <1>2 DEF NoBlock
<1>4. Quorum(s.votes, b, r)
  BY DEF Winners, NumVotes, Voters, Quorum
<1> QED BY <1>1, <1>3, <1>4, QuorumMonotonic DEF Sound

\* The block that check_for_winner_block commits has a majority.
LEMMA CommitWinner_Keeps ==
  ASSUME NEW n, NEW W, NEW s, Sound(n, s, W),
         NEW r \in Round, NEW b \in Winners(s, r), NEW env, EnvOK(env),
         ~ s.is_updating_state
  PROVE  Keeps(n, s, commit_winner(s, b, env), W)
<1> DEFINE t == rollback_block(s)
           u == [t EXCEPT !.open_block = b, !.verified = TRUE]
<1>1. b \in Block /\ b # NoBlock /\ Quorum(W \cup s.cast, b, r)
  BY WinnerHasQuorum
<1>2. CASE b = s.open_block
  <2>1. s.verified => Parent(b) = s.chain
    BY <1>2 DEF Sound
  <2> QED BY <1>1, <1>2, <2>1, CommitBlock_Keeps DEF commit_winner
<1>3. CASE b # s.open_block
  <2>1. Keeps(n, s, t, W) /\ t.cast = s.cast /\ ~ t.is_updating_state
    BY RollbackBlock_Keeps
  <2>2. Keeps(n, s, verify_failed(t, b, env), W)
    BY <2>1, MarkOutdated_Keeps DEF verify_failed, Keeps
  <2>3. ASSUME Verifies(t, b, env)
        PROVE  Keeps(n, s, commit_block(u, b, env), W)
    <3>1. Parent(b) = t.chain
      BY <2>3 DEF Verifies
    <3>2. Sound(n, u, W) /\ u.cast = s.cast /\ Parent(b) = u.chain
      <4> HIDE DEF t
      <4> QED BY <1>1, <2>1, <3>1 DEF Keeps, Sound, NodeState
    <3> HIDE DEF u
    <3> QED BY <1>1, <3>2, CommitBlock_Keeps DEF Keeps
  <2> QED BY <1>3, <2>1, <2>2, <2>3 DEF commit_winner
<1> QED BY <1>2, <1>3

\* vote_on_block stores for the node the vote that it sends.
LEMMA VoteOnBlock_Keeps ==
  ASSUME NEW n \in Node, NEW W, NEW s, Sound(n, s, W),
         NEW r \in Round, NEW b \in Block
  PROVE  Keeps(n, s, vote_on_block(n, s, r, b), W)
<1> DEFINE v == Vote(b, r, n)
           t == [s EXCEPT !.votes = @ \cup {v},
                          !.cast = @ \cup {v},
                          !.last_vote = <<Len(b), r>>]
<1>1. v \in VoteSet /\ v.voter = n
  BY DEF Vote, VoteSet
<1> HIDE DEF v
<1>2. Len(b) \in Nat
  BY LenProperties DEF Block
<1>3. t \in NodeState
  BY <1>1, <1>2 DEF Sound, NodeState
<1>4. /\ t.cast = s.cast \cup {v} /\ t.votes = s.votes \cup {v}
      /\ t.chain = s.chain /\ t.update = s.update /\ t.open_block = s.open_block
      /\ t.verified = s.verified /\ t.is_updating_state = s.is_updating_state
  BY DEF Sound, NodeState
<1>5. W \cup s.cast \subseteq W \cup t.cast
  BY <1>4
<1>6. /\ Certified(W \cup t.cast, s.chain)
      /\ s.update # NoBlock => Certified(W \cup t.cast, s.update)
  BY <1>5, CertifiedMonotonic DEF Sound
<1>7. Keeps(n, s, t, W)
  BY <1>1, <1>3, <1>4, <1>6 DEF Keeps, Sound
<1> QED BY <1>7 DEF vote_on_block, Keeps, v

\* A node opens and votes on a proposal that extends its chain.
LEMMA OpenAndVote_Keeps ==
  ASSUME NEW n \in Node, NEW W, NEW s, Sound(n, s, W), NEW r \in Round, NEW env,
         ~ s.is_updating_state
  PROVE  Keeps(n, s, open_and_vote(n, s, r, env), W)
<1> DEFINE best == MinWait(Proposals(s))
           present == {b \in Proposals(s) : TxnsPresent(s, b)}
           verifiable == {b \in present : Verifies(s, b, env)}
           good == MinWait(verifiable)
           winner == PickFirst(good, env)
           failed == {b \in present : ~ Verifies(s, b, env) /\
                                        (good = {} \/ Before(b, winner, env))}
           t == IF failed \subseteq env.locked THEN rollback_block(s)
                ELSE mark_outdated(rollback_block(s))
           u == [t EXCEPT !.open_block = winner, !.verified = TRUE]
<1>1. Keeps(n, s, vote_on_block(n, s, r, s.open_block), W)
  <2>1. s.open_block \in Block
    BY DEF Sound, NodeState
  <2> QED BY <2>1, VoteOnBlock_Keeps
<1>2. Keeps(n, s, t, W) /\ t.chain = s.chain /\ ~ t.is_updating_state
  <2> DEFINE q == rollback_block(s)
  <2>1. Keeps(n, s, q, W) /\ q.chain = s.chain /\ ~ q.is_updating_state
    BY RollbackBlock_Keeps
  <2> HIDE DEF q
  <2>2. /\ Keeps(n, q, mark_outdated(q), W)
        /\ mark_outdated(q).chain = q.chain /\ ~ mark_outdated(q).is_updating_state
    BY <2>1, MarkOutdated_Keeps DEF Keeps, mark_outdated, Sound, NodeState
  <2> HIDE DEF failed
  <2> QED BY <2>1, <2>2 DEF Keeps, q
<1>3. ASSUME good # {}
      PROVE  Keeps(n, s, vote_on_block(n, u, r, winner), W)
  <2>1. winner \in good
    BY <1>3, PickFirstIsMember
  <2>2. winner \in Proposals(s) /\ Parent(winner) = s.chain
    BY <2>1 DEF MinWait, Verifies
  <2>3. winner \in Block /\ winner # NoBlock
    <3>1. winner \in Block /\ Len(winner) = Height(s) + 1
      BY <2>2 DEF Proposals, Sound, NodeState
    <3>2. Height(s) \in Nat
      BY LenProperties DEF Height, Sound, NodeState, Block
    <3> QED BY <3>1, <3>2 DEF NoBlock
  <2> HIDE DEF t, winner
  <2>4. Sound(n, u, W) /\ s.cast \subseteq u.cast
    BY <1>2, <2>2, <2>3 DEF Keeps, Sound, NodeState
  <2> HIDE DEF u
  <2>5. Keeps(n, u, vote_on_block(n, u, r, winner), W)
    BY <2>3, <2>4, VoteOnBlock_Keeps
  <2> QED BY <2>4, <2>5 DEF Keeps
<1>4. Keeps(n, s, s, W)
  BY DEF Keeps
<1>5. open_and_vote(n, s, r, env) =
        IF best = {} THEN s
        ELSE IF PickFirst(best, env) = s.open_block
             THEN vote_on_block(n, s, r, s.open_block)
        ELSE IF good = {} THEN t
        ELSE vote_on_block(n, u, r, winner)
  BY DEF open_and_vote
<1> HIDE DEF best, good, t, u, winner
<1> QED BY <1>1, <1>2, <1>3, <1>4, <1>5

\* check_for_winner_block in the second round keeps a sound node sound.
LEMMA CheckForWinnerBlock1_Keeps ==
  ASSUME NEW n, NEW W, NEW s, Sound(n, s, W), NEW env, EnvOK(env)
  PROVE  Keeps(n, s, check_for_winner_block_1(s, env), W)
<1>1. ASSUME Winners(s, 1) # {}, ~ s.is_updating_state
      PROVE  Keeps(n, s, commit_winner(s, PickFirst(Winners(s, 1), env), env), W)
  BY <1>1, PickFirstIsMember, CommitWinner_Keeps DEF Round
<1> QED BY <1>1 DEF check_for_winner_block_1, Keeps

\* choose_block_to_vote in the second round, which calls the check.
LEMMA ChooseBlockToVote1_Keeps ==
  ASSUME NEW n \in Node, NEW W, NEW s, Sound(n, s, W), NEW env, EnvOK(env)
  PROVE  Keeps(n, s, choose_block_to_vote_1(n, s, env), W)
<1> DEFINE t == open_and_vote(n, s, 1, env)
<1>0. CASE s.is_updating_state
  BY <1>0 DEF choose_block_to_vote_1, Keeps
<1> SUFFICES ASSUME ~ s.is_updating_state
             PROVE  Keeps(n, s, choose_block_to_vote_1(n, s, env), W)
  BY <1>0
<1>1. Keeps(n, s, t, W)
  BY OpenAndVote_Keeps DEF Round
<1> HIDE DEF t
<1>2. Keeps(n, t, check_for_winner_block_1(t, env), W)
  BY <1>1, CheckForWinnerBlock1_Keeps DEF Keeps
<1> QED BY <1>1, <1>2 DEF choose_block_to_vote_1, Keeps, t

\* check_for_winner_block in the first round, which may start the second.
LEMMA CheckForWinnerBlock0_Keeps ==
  ASSUME NEW n \in Node, NEW W, NEW s, Sound(n, s, W), NEW env, EnvOK(env)
  PROVE  Keeps(n, s, check_for_winner_block_0(n, s, env), W)
<1>1. ASSUME Winners(s, 0) # {}, ~ s.is_updating_state
      PROVE  Keeps(n, s, commit_winner(s, PickFirst(Winners(s, 0), env), env), W)
  BY <1>1, PickFirstIsMember, CommitWinner_Keeps DEF Round
<1>2. Keeps(n, s, choose_block_to_vote_1(n, s, env), W)
  BY ChooseBlockToVote1_Keeps
<1> QED BY <1>1, <1>2 DEF check_for_winner_block_0, Keeps

\* choose_block_to_vote in the first round, which calls the check.
LEMMA ChooseBlockToVote0_Keeps ==
  ASSUME NEW n \in Node, NEW W, NEW s, Sound(n, s, W), NEW env, EnvOK(env)
  PROVE  Keeps(n, s, choose_block_to_vote_0(n, s, env), W)
<1> DEFINE t == open_and_vote(n, s, 0, env)
<1>0. CASE s.is_updating_state
  BY <1>0 DEF choose_block_to_vote_0, Keeps
<1> SUFFICES ASSUME ~ s.is_updating_state
             PROVE  Keeps(n, s, choose_block_to_vote_0(n, s, env), W)
  BY <1>0
<1>1. Keeps(n, s, t, W)
  BY OpenAndVote_Keeps DEF Round
<1> HIDE DEF t
<1>2. Keeps(n, t, check_for_winner_block_0(n, t, env), W)
  BY <1>1, CheckForWinnerBlock0_Keeps DEF Keeps
<1> QED BY <1>1, <1>2 DEF choose_block_to_vote_0, Keeps, t

\* process_new_transaction may vote or start a timer; the node stays sound.
LEMMA ProcessNewTransaction_Keeps ==
  ASSUME NEW n \in Node, NEW W, NEW s, Sound(n, s, W),
         NEW t \in Txn, NEW env, EnvOK(env)
  PROVE  Keeps(n, s, process_new_transaction(n, s, t, env), W)
<1> DEFINE m == [s EXCEPT !.mempool = @ \cup {t}, !.requested = @ \ {t}]
<1>1. Sound(n, m, W) /\ m.cast = s.cast
  BY DEF Sound, NodeState
<1>2. process_new_transaction(n, s, t, env) \in
        {start_new_block_timer(m), choose_block_to_vote_0(n, m, env), m}
  BY DEF process_new_transaction
<1> HIDE DEF m
<1>3. /\ Keeps(n, m, start_new_block_timer(m), W)
      /\ Keeps(n, m, choose_block_to_vote_0(n, m, env), W)
      /\ Keeps(n, m, m, W)
  BY <1>1, StartNewBlockTimer_Keeps, ChooseBlockToVote0_Keeps DEF Keeps
<1> QED BY <1>1, <1>2, <1>3 DEF Keeps

\* The states request_state_update_next may lead to.
LEMMA RequestStateUpdateNext_Keeps ==
  ASSUME NEW n, NEW W, NEW s, Sound(n, s, W), NEW u \in request_state_update_next(s)
  PROVE  Keeps(n, s, u, W)
<1>1. NoBlock \in Block
  BY EmptySeq DEF NoBlock, Block
<1>2. PICK state \in {"synchronizing", "in_sync"} :
        u = [s EXCEPT !.is_updating_state = FALSE, !.update = NoBlock, !.sync = state]
  BY DEF request_state_update_next
<1>3. u \in NodeState
  BY <1>1, <1>2 DEF Sound, NodeState, SyncState
<1>4. /\ u.cast = s.cast /\ u.votes = s.votes /\ u.chain = s.chain
      /\ u.update = NoBlock /\ ~ u.is_updating_state
      /\ u.verified = s.verified /\ u.open_block = s.open_block
  BY <1>2 DEF Sound, NodeState
<1> QED BY <1>3, <1>4 DEF Keeps, Sound

-----------------------------------------------------------------------------
(* The steps *)

\* At the start every node has the first block only.
LEMMA InvInit == Init => Inv
<1> SUFFICES ASSUME Init, NEW n \in Node
             PROVE  Sound(n, node[n], SentVotes)
  BY DEF Inv
<1>1. node[n] = Start(0)
  BY DEF Init
<1>2. Genesis \in Block /\ Genesis # NoBlock /\ Len(Genesis) = 1
  <2>1. 0 \in Run
    BY NodeAssumption, BoundAssumption DEF Run
  <2> QED BY <2>1, NodeAssumption DEF Genesis, Body, Block, NoBlock
<1>3. NoBlock \in Block
  BY EmptySeq DEF NoBlock, Block
<1>4. Certified(SentVotes \cup {}, Genesis)
  BY <1>2 DEF Certified
<1>5. 0 \in Run
  BY NodeAssumption, BoundAssumption DEF Run
<1>6. Start(0) \in NodeState
  BY <1>2, <1>3, <1>5 DEF Start, NodeState, SyncState, Round
<1> QED BY <1>1, <1>4, <1>6 DEF Sound, Start

\* A step that keeps the state of each node sound keeps the invariant.
LEMMA StepKeepsInv ==
  ASSUME TypeOK, Inv, node' = [m \in Node |-> node'[m]],
         \A m \in Node : Keeps(m, node[m], node'[m], SentVotes)
  PROVE  TypeOK' /\ Inv'
<1>1. TypeOK'
  BY DEF TypeOK, Keeps, Sound
<1>2. SentVotes \subseteq SentVotes' /\ \A m \in Node : node'[m].cast \subseteq SentVotes'
  BY DEF SentVotes, Keeps
<1>3. ASSUME NEW m \in Node
      PROVE  Sound(m, node'[m], SentVotes')
  BY <1>2, SoundMonotonic DEF Keeps
<1> QED BY <1>1, <1>3 DEF Inv

\* A step of one node.
LEMMA BecomeKeepsInv ==
  ASSUME TypeOK, Inv, NEW n \in Node, NEW t,
         Keeps(n, node[n], t, SentVotes), Become(n, t)
  PROVE  TypeOK' /\ Inv'
<1>1. /\ node' = [m \in Node |-> node'[m]]
      /\ node'[n] = t
      /\ \A m \in Node \ {n} : node'[m] = node[m]
  BY DEF Become, TypeOK
<1>2. \A m \in Node : Keeps(m, node[m], node'[m], SentVotes)
  BY <1>1 DEF Keeps, Inv
<1> QED BY <1>1, <1>2, StepKeepsInv

\* A commit within a handler ends in one of its three ways.
LEMMA EnvironmentOK ==
  ASSUME NEW s, NEW env \in Environment(s)
  PROVE  EnvOK(env)
BY DEF Environment, EnvOK

\* The blocks and votes that were sent are blocks and votes.
LEMMA SentIsTyped ==
  ASSUME TypeOK
  PROVE  SentBlocks \subseteq Block /\ SentVotes \subseteq VoteSet
BY DEF TypeOK, NodeState, SentBlocks, SentVotes

\* The step of the action send_local_transactions.
LEMMA SendLocalTransactions ==
  ASSUME TypeOK, Inv, NEW n \in Node, NEW t \in Txn, send_local_transactions(n, t)
  PROVE  TypeOK' /\ Inv'
<1> DEFINE s == [node[n] EXCEPT !.submitted = @ \cup {t}]
<1>1. PICK env \in Environment(node[n]) : Become(n, process_new_transaction(n, s, t, env))
  BY DEF send_local_transactions
<1>2. Sound(n, s, SentVotes) /\ s.cast = node[n].cast
  BY DEF Inv, Sound, NodeState
<1> HIDE DEF s
<1>3. Keeps(n, s, process_new_transaction(n, s, t, env), SentVotes)
  BY <1>2, EnvironmentOK, ProcessNewTransaction_Keeps
<1> QED BY <1>1, <1>2, <1>3, BecomeKeepsInv DEF Keeps

\* The step of the action on_new_remote_transaction.
LEMMA OnNewRemoteTransaction ==
  ASSUME TypeOK, Inv, NEW n \in Node, NEW t \in Txn, on_new_remote_transaction(n, t)
  PROVE  TypeOK' /\ Inv'
<1>1. PICK env \in Environment(node[n]) :
        Become(n, process_new_transaction(n, node[n], t, env))
  BY DEF on_new_remote_transaction
<1>2. Keeps(n, node[n], process_new_transaction(n, node[n], t, env), SentVotes)
  BY EnvironmentOK, ProcessNewTransaction_Keeps DEF Inv
<1> QED BY <1>1, <1>2, BecomeKeepsInv

\* The step of the action request_transaction_finished.
LEMMA RequestTransactionFinished ==
  ASSUME TypeOK, Inv, NEW n \in Node, NEW t \in Txn, request_transaction_finished(n, t)
  PROVE  TypeOK' /\ Inv'
<1> DEFINE u == [node[n] EXCEPT !.requested = @ \ {t}]
<1>1. Keeps(n, node[n], u, SentVotes)
  <2> DEFINE q == node[n]
  <2>1. Sound(n, q, SentVotes)
    BY DEF Inv
  <2> HIDE DEF q
  <2>2. Keeps(n, q, [q EXCEPT !.requested = @ \ {t}], SentVotes)
    BY <2>1 DEF Keeps, Sound, NodeState
  <2> QED BY <2>2 DEF q
<1>2. Become(n, u)
  BY DEF request_transaction_finished
<1> HIDE DEF u
<1> QED BY <1>1, <1>2, BecomeKeepsInv

\* A node proposes a block on top of its own chain.
LEMMA NewBlockTimerCb ==
  ASSUME TypeOK, Inv, NEW n \in Node, new_block_timer_cb(n)
  PROVE  TypeOK' /\ Inv'
<1> DEFINE stopped == [node[n] EXCEPT !.new_block_timer = FALSE]
           s == rollback_block(stopped)
           b == Append(s.chain, [creator |-> n, txns |-> Unused(s), run |-> s.run])
           again == [s EXCEPT !.new_block_timer = TRUE]
           opened == [s EXCEPT !.new_blocks = @ \cup {b}, !.created = @ \cup {b},
                               !.open_block = b, !.verified = TRUE,
                               !.last_created = Len(b)]
<1>1. PICK begun \in BeginResults :
        Become(n, IF Unused(s) = {} THEN s
                  ELSE IF s.is_updating_state \/ ~ begun THEN again
                  ELSE start_block_wait_timer(opened))
  BY DEF new_block_timer_cb
<1>2. Keeps(n, node[n], s, SentVotes)
  <2>1. Sound(n, stopped, SentVotes) /\ stopped.cast = node[n].cast
    <3> DEFINE q == node[n]
    <3>1. Sound(n, q, SentVotes)
      BY DEF Inv
    <3> HIDE DEF q
    <3>2. /\ Sound(n, [q EXCEPT !.new_block_timer = FALSE], SentVotes)
          /\ [q EXCEPT !.new_block_timer = FALSE].cast = q.cast
      BY <3>1 DEF Sound, NodeState
    <3> QED BY <3>2 DEF q
  <2> HIDE DEF stopped
  <2> QED BY <2>1, RollbackBlock_Keeps DEF Keeps
<1> HIDE DEF s
<1>3. Keeps(n, node[n], again, SentVotes)
  BY <1>2 DEF Keeps, Sound, NodeState
<1>4. ASSUME ~ s.is_updating_state
      PROVE  Keeps(n, node[n], start_block_wait_timer(opened), SentVotes)
  <2>1. [creator |-> n, txns |-> Unused(s), run |-> s.run] \in Body
    BY <1>2 DEF Keeps, Sound, NodeState, Unused, Body
  <2>2. s.chain \in Block
    BY <1>2 DEF Keeps, Sound, NodeState
  <2>3. b \in Block /\ b # NoBlock /\ Len(b) \in Nat /\ Parent(b) = s.chain
    BY <2>1, <2>2, ParentOfAppend DEF Block, NoBlock
  <2> HIDE DEF b
  <2>4. Sound(n, opened, SentVotes) /\ opened.cast = s.cast
    BY <1>2, <1>4, <2>3 DEF Keeps, Sound, NodeState
  <2> HIDE DEF opened
  <2> QED BY <1>2, <2>4, StartBlockWaitTimer_Keeps DEF Keeps
<1> HIDE DEF again, opened
<1> QED BY <1>1, <1>2, <1>3, <1>4, BecomeKeepsInv

\* The step of the action on_block_wait_timeout.
LEMMA OnBlockWaitTimeout ==
  ASSUME TypeOK, Inv, NEW n \in Node, on_block_wait_timeout(n)
  PROVE  TypeOK' /\ Inv'
<1> DEFINE s == [node[n] EXCEPT !.block_wait_timer = FALSE, !.new_block_timer = FALSE]
<1>1. PICK env \in Environment(node[n]) : Become(n, choose_block_to_vote_0(n, s, env))
  BY DEF on_block_wait_timeout
<1>2. Sound(n, s, SentVotes) /\ s.cast = node[n].cast
  <2> DEFINE q == node[n]
             t == [q EXCEPT !.block_wait_timer = FALSE, !.new_block_timer = FALSE]
  <2>1. Sound(n, q, SentVotes)
    BY DEF Inv
  <2> HIDE DEF q
  <2>2. Sound(n, t, SentVotes) /\ t.cast = q.cast
    BY <2>1 DEF Sound, NodeState
  <2> QED BY <2>2 DEF q
<1> HIDE DEF s
<1>3. Keeps(n, s, choose_block_to_vote_0(n, s, env), SentVotes)
  BY <1>2, EnvironmentOK, ChooseBlockToVote0_Keeps
<1> QED BY <1>1, <1>2, <1>3, BecomeKeepsInv DEF Keeps

\* The step of the action on_new_block.
LEMMA OnNewBlock ==
  ASSUME TypeOK, Inv, NEW n \in Node, NEW b \in SentBlocks, on_new_block(n, b)
  PROVE  TypeOK' /\ Inv'
<1> DEFINE q == node[n]
           missing == Head1(b).txns \ q.mempool
           t == [q EXCEPT !.new_blocks = @ \cup {b}, !.requested = @ \cup missing]
           u == start_block_wait_timer(t)
<1>1. PICK env \in Environment(t) :
        Become(n, IF Len(b) > Height(q) + 1 THEN request_state_update(t)
                  ELSE IF missing # {} THEN u
                  ELSE check_for_winner_block_0(n, u, env))
  BY DEF on_new_block
<1>2. b \in Block /\ b # NoBlock /\ Head1(b) \in Body
  <2>1. b \in Block
    BY SentIsTyped
  <2>2. q.chain \in Block /\ Len(b) > Len(q.chain)
    BY DEF TypeOK, NodeState, on_new_block, Height
  <2>3. Len(b) \in Nat /\ Len(q.chain) \in Nat
    BY <2>1, <2>2, LenProperties DEF Block
  <2>4. Len(b) \in 1 .. Len(b) /\ b # NoBlock
    BY <2>2, <2>3 DEF NoBlock
  <2> QED BY <2>1, <2>4, ElementOfSeq DEF Block, Head1
<1>3. Sound(n, q, SentVotes)
  BY DEF Inv
<1>4. missing \subseteq Txn
  BY <1>2 DEF Body
<1> HIDE DEF q, missing
<1>5. Sound(n, t, SentVotes) /\ t.cast = q.cast
  BY <1>2, <1>3, <1>4 DEF Sound, NodeState
<1> HIDE DEF t
<1>6. Keeps(n, t, u, SentVotes)
  BY <1>5, StartBlockWaitTimer_Keeps
<1> HIDE DEF u
<1>7. Keeps(n, u, check_for_winner_block_0(n, u, env), SentVotes)
  BY <1>6, EnvironmentOK, CheckForWinnerBlock0_Keeps DEF Keeps
<1>8. Keeps(n, t, request_state_update(t), SentVotes)
  BY <1>5, RequestStateUpdate_Keeps
<1>9. /\ Keeps(n, q, request_state_update(t), SentVotes)
      /\ Keeps(n, q, u, SentVotes)
      /\ Keeps(n, q, check_for_winner_block_0(n, u, env), SentVotes)
  BY <1>5, <1>6, <1>7, <1>8 DEF Keeps
<1> QED BY <1>1, <1>9, BecomeKeepsInv DEF q

\* The step of the action on_block_vote.
LEMMA OnBlockVote ==
  ASSUME TypeOK, Inv, NEW n \in Node, NEW v \in SentVotes, on_block_vote(n, v)
  PROVE  TypeOK' /\ Inv'
<1> DEFINE q == node[n]
           t == [q EXCEPT !.votes = @ \cup {v}]
<1>1. PICK env \in Environment(t) :
        Become(n, IF v.block \notin q.new_blocks
                  THEN IF Len(v.block) > Height(q) + 1 THEN request_state_update(t) ELSE t
                  ELSE IF v.round = 0 THEN check_for_winner_block_0(n, t, env)
                  ELSE check_for_winner_block_1(t, env))
  BY DEF on_block_vote
<1>2. Sound(n, q, SentVotes) /\ v \in VoteSet
  BY SentIsTyped DEF Inv
<1> HIDE DEF q
<1>3. Sound(n, t, SentVotes) /\ t.cast = q.cast
  BY <1>2 DEF Sound, NodeState
<1> HIDE DEF t
<1>4. /\ Keeps(n, t, request_state_update(t), SentVotes)
      /\ Keeps(n, t, t, SentVotes)
      /\ Keeps(n, t, check_for_winner_block_0(n, t, env), SentVotes)
      /\ Keeps(n, t, check_for_winner_block_1(t, env), SentVotes)
  BY <1>3, EnvironmentOK, RequestStateUpdate_Keeps, CheckForWinnerBlock0_Keeps,
     CheckForWinnerBlock1_Keeps DEF Keeps
<1>5. /\ Keeps(n, q, request_state_update(t), SentVotes)
      /\ Keeps(n, q, t, SentVotes)
      /\ Keeps(n, q, check_for_winner_block_0(n, t, env), SentVotes)
      /\ Keeps(n, q, check_for_winner_block_1(t, env), SentVotes)
  BY <1>3, <1>4 DEF Keeps
<1> QED BY <1>1, <1>5, BecomeKeepsInv DEF q

\* The step of the action process_transactions_timer_cb.
LEMMA ProcessTransactionsTimerCb ==
  ASSUME TypeOK, Inv, NEW n \in Node, process_transactions_timer_cb(n)
  PROVE  TypeOK' /\ Inv'
BY RequestStateUpdate_Keeps, BecomeKeepsInv DEF process_transactions_timer_cb, Inv

\* What is sent in a state update is certified.
LEMMA OnRequestStateUpdate ==
  ASSUME TypeOK, Inv, NEW m \in Node, NEW n \in Node, on_request_state_update(m, n)
  PROVE  TypeOK' /\ Inv'
<1> DEFINE q == node[n]
           p == node[m]
           t == [q EXCEPT !.update = p.chain]
<1>1. /\ node' = [k \in Node |-> node'[k]]
      /\ node'[n] = t /\ node'[m] = rollback_block(p)
      /\ \A k \in Node \ {m, n} : node'[k] = node[k]
  BY DEF on_request_state_update, TypeOK
<1>2. Sound(n, q, SentVotes) /\ Sound(m, p, SentVotes) /\ p.cast \subseteq SentVotes
  BY DEF Inv, SentVotes
<1>3. Keeps(m, p, rollback_block(p), SentVotes)
  BY <1>2, RollbackBlock_Keeps
<1>4. Keeps(n, q, t, SentVotes)
  <2> HIDE DEF p, q
  <2>1. p.chain \in Block /\ p.chain # NoBlock
    BY <1>2 DEF Sound, NodeState, Certified
  <2>2. Certified(SentVotes \cup q.cast, p.chain)
    <3>1. SentVotes \cup p.cast \subseteq SentVotes \cup q.cast
      BY <1>2
    <3> QED BY <1>2, <3>1, CertifiedMonotonic DEF Sound
  <2>3. t \in NodeState
    BY <1>2, <2>1 DEF Sound, NodeState
  <2>4. /\ t.cast = q.cast /\ t.votes = q.votes /\ t.chain = q.chain
        /\ t.update = p.chain /\ t.is_updating_state = q.is_updating_state
        /\ t.verified = q.verified /\ t.open_block = q.open_block
    BY <1>2 DEF Sound, NodeState
  <2> HIDE DEF t
  <2> QED BY <1>2, <2>1, <2>2, <2>3, <2>4 DEF Keeps, Sound
<1>5. \A k \in Node : Keeps(k, node[k], node'[k], SentVotes)
  BY <1>1, <1>3, <1>4 DEF Keeps, Inv
<1> QED BY <1>1, <1>5, StepKeepsInv

\* The step of the action on_update_db_page.
LEMMA OnUpdateDbPage ==
  ASSUME TypeOK, Inv, NEW n \in Node, on_update_db_page(n)
  PROVE  TypeOK' /\ Inv'
<1> DEFINE q == node[n]
           s == rollback_block(q)
           t == [s EXCEPT !.is_updating_state = TRUE]
<1>1. /\ Len(s.update) > Height(s)
      /\ \/ Become(n, t)
         \/ \E u \in request_state_update_next(s) : Become(n, u)
  BY DEF on_update_db_page
<1>2. Sound(n, q, SentVotes)
  BY DEF Inv
<1> HIDE DEF q
<1>3. Keeps(n, q, s, SentVotes) /\ ~ s.verified
  BY <1>2, RollbackBlock_Keeps
<1> HIDE DEF s
<1>4. s.update # NoBlock
  <2>1. Len(s.chain) \in Nat
    BY <1>3, LenProperties DEF Keeps, Sound, NodeState, Block
  <2> QED BY <1>1, <2>1 DEF Height, NoBlock
<1>5. Keeps(n, q, t, SentVotes)
  BY <1>3, <1>4 DEF Keeps, Sound, NodeState
<1>6. \A u \in request_state_update_next(s) : Keeps(n, q, u, SentVotes)
  BY <1>3, RequestStateUpdateNext_Keeps DEF Keeps
<1> HIDE DEF t
<1> QED BY <1>1, <1>5, <1>6, BecomeKeepsInv DEF q

\* The step of the action on_apply_state_update.
LEMMA OnApplyStateUpdate ==
  ASSUME TypeOK, Inv, NEW n \in Node, on_apply_state_update(n)
  PROVE  TypeOK' /\ Inv'
<1> DEFINE s == node[n]
           w == [s EXCEPT !.chain = s.update,
                          !.new_blocks = {b \in @ : Len(b) > Len(s.update)},
                          !.votes = {v \in @ : Len(v.block) > Len(s.update)}]
           t == check_mempool_transactions(w)
<1>1. /\ s.is_updating_state
      /\ \/ \E u \in request_state_update_next(t) : Become(n, u)
         \/ \E u \in request_state_update_next(s) : Become(n, u)
  BY DEF on_apply_state_update
<1>2. Sound(n, s, SentVotes)
  BY DEF Inv
<1> HIDE DEF s
<1>3. Sound(n, t, SentVotes) /\ t.cast = s.cast
  <2>1. w \in NodeState
    BY <1>2 DEF Sound, NodeState
  <2>2. /\ w.cast = s.cast /\ w.votes \subseteq s.votes /\ w.chain = s.update
        /\ w.update = s.update /\ w.is_updating_state = s.is_updating_state
        /\ w.verified = s.verified
    BY <1>2 DEF Sound, NodeState
  <2> HIDE DEF w
  <2>3. Sound(n, w, SentVotes)
    BY <1>1, <1>2, <2>1, <2>2 DEF Sound
  <2>4. Keeps(n, w, t, SentVotes) /\ t.cast = w.cast
    BY <2>1, <2>3, CheckMempoolTransactions_Keeps
       DEF check_mempool_transactions, NodeState
  <2> QED BY <2>2, <2>4 DEF Keeps
<1> HIDE DEF t
<1>4. /\ \A u \in request_state_update_next(s) : Keeps(n, s, u, SentVotes)
      /\ \A u \in request_state_update_next(t) : Keeps(n, s, u, SentVotes)
  BY <1>2, <1>3, RequestStateUpdateNext_Keeps DEF Keeps
<1> QED BY <1>1, <1>4, BecomeKeepsInv DEF s

\* The step of the action on_state_update_node_timeout.
LEMMA OnStateUpdateNodeTimeout ==
  ASSUME TypeOK, Inv, NEW n \in Node, on_state_update_node_timeout(n)
  PROVE  TypeOK' /\ Inv'
<1>1. PICK u \in request_state_update_next(node[n]) : Become(n, u)
  BY DEF on_state_update_node_timeout
<1>2. Keeps(n, node[n], u, SentVotes)
  BY RequestStateUpdateNext_Keeps DEF Inv
<1> QED BY <1>1, <1>2, BecomeKeepsInv

\* A node that starts again has the chain of its database and no vote.
LEMMA PluginInit ==
  ASSUME TypeOK, Inv, NEW n \in Node, plugin_init(n)
  PROVE  TypeOK' /\ Inv'
<1> DEFINE s == node[n]
           t == [Start(s.run + 1) EXCEPT !.chain = s.chain, !.sync = "outdated",
                                         !.created = s.created, !.cast = s.cast,
                                         !.submitted = s.submitted]
<1>1. s.run < MaxRestarts[n] /\ Become(n, t)
  BY DEF plugin_init
<1>2. Sound(n, s, SentVotes)
  BY DEF Inv
<1>3. s.run + 1 \in Run
  <2>1. s.run \in Nat
    BY <1>2, BoundAssumption DEF Sound, NodeState, Run
  <2> QED BY <1>1, <2>1, BoundAssumption DEF Run
<1> HIDE DEF s
<1>4. NoBlock \in Block
  BY EmptySeq DEF NoBlock, Block
<1>5. t \in NodeState
  BY <1>2, <1>3, <1>4 DEF Sound, Start, NodeState, SyncState, Round
<1>6. /\ t.cast = s.cast /\ t.votes = {} /\ t.chain = s.chain
      /\ t.update = NoBlock /\ ~ t.is_updating_state /\ ~ t.verified
  BY DEF Start
<1> HIDE DEF t
<1>7. Keeps(n, s, t, SentVotes)
  BY <1>2, <1>5, <1>6 DEF Keeps, Sound
<1> QED BY <1>1, <1>7, BecomeKeepsInv DEF s

\* Every step keeps the types and the invariant.
LEMMA InvNext ==
  ASSUME TypeOK, Inv, [Next]_node
  PROVE  TypeOK' /\ Inv'
<1>1. CASE UNCHANGED node
  BY <1>1 DEF TypeOK, Inv, SentVotes
<1>2. ASSUME NEW n \in Node, NEW t \in Txn,
             \/ send_local_transactions(n, t)
             \/ on_new_remote_transaction(n, t)
             \/ request_transaction_finished(n, t)
      PROVE  TypeOK' /\ Inv'
  BY <1>2, SendLocalTransactions, OnNewRemoteTransaction, RequestTransactionFinished
<1>3. ASSUME NEW n \in Node,
             \/ new_block_timer_cb(n)
             \/ on_block_wait_timeout(n)
             \/ \E b \in SentBlocks : on_new_block(n, b)
             \/ \E v \in SentVotes : on_block_vote(n, v)
      PROVE  TypeOK' /\ Inv'
  BY <1>3, NewBlockTimerCb, OnBlockWaitTimeout, OnNewBlock, OnBlockVote
<1>4. ASSUME NEW n \in Node,
             \/ process_transactions_timer_cb(n)
             \/ \E m \in Node : on_request_state_update(m, n)
             \/ on_update_db_page(n)
             \/ on_apply_state_update(n)
             \/ on_state_update_node_timeout(n)
             \/ plugin_init(n)
      PROVE  TypeOK' /\ Inv'
  BY <1>4, ProcessTransactionsTimerCb, OnRequestStateUpdate, OnUpdateDbPage,
     OnApplyStateUpdate, OnStateUpdateNodeTimeout, PluginInit
<1> QED BY <1>1, <1>2, <1>3, <1>4 DEF Next

\* The variables have their types at the start.
LEMMA InitTypeOK == Init => TypeOK
<1> SUFFICES ASSUME Init PROVE TypeOK
  OBVIOUS
<1>1. Inv
  BY InvInit
<1> QED BY <1>1 DEF Init, TypeOK, Inv, Sound

\* The plugin structure of every node keeps its type, whatever the handlers do.
THEOREM TypeCorrect == Spec => []TypeOK
<1>1. TypeOK /\ Inv /\ [Next]_node => TypeOK' /\ Inv'
  BY InvNext
<1> QED BY <1>1, InitTypeOK, InvInit, PTL DEF Spec

\* The chain of every node has its majorities among all the votes.
LEMMA ChainsAreCertified ==
  ASSUME TypeOK, Inv, NEW n \in Node
  PROVE  node[n].chain \in Block /\ Certified(SentVotes, node[n].chain)
<1>1. SentVotes \cup node[n].cast = SentVotes
  BY DEF SentVotes
<1>2. Certified(SentVotes \cup node[n].cast, node[n].chain)
  BY DEF Inv, Sound
<1>3. Certified(SentVotes, node[n].chain)
  BY <1>1, <1>2
<1> QED BY <1>3 DEF TypeOK, NodeState

\* The invariant contains that committed blocks have their majorities.
LEMMA InvImpliesCommittedByMajority ==
  ASSUME TypeOK, Inv
  PROVE  CommittedByMajority
<1> SUFFICES ASSUME NEW n \in Node, NEW h \in 2 .. Len(node[n].chain)
             PROVE  \E r \in Round : HasQuorum(SubSeq(node[n].chain, 1, h), r)
  BY DEF CommittedByMajority, Committed
<1> QED BY ChainsAreCertified DEF Certified, Quorum, HasQuorum

\* Every block of every chain has the votes of a majority in one round: also one
\* that came with a state update, and whatever fails or restarts.
THEOREM CommitsHaveMajority == Spec => []CommittedByMajority
<1>1. TypeOK /\ Inv /\ [Next]_node => TypeOK' /\ Inv'
  BY InvNext
<1> QED BY <1>1, InitTypeOK, InvInit, InvImpliesCommittedByMajority, PTL DEF Spec

-----------------------------------------------------------------------------
(* Agreement follows from the voting rules *)

\* Two majorities are more than all the nodes.
LEMMA MajorityIsMoreThanHalf ==
  /\ Cardinality(Node) \in Nat
  /\ Majority \in Nat \ {0}
  /\ Majority + Majority > Cardinality(Node)
BY FS_CardinalityType, NodeAssumption DEF Majority

\* A vote is sent by its voter only.
LEMMA VoteIsFromVoter ==
  ASSUME Inv, NEW n \in Node, NEW b, NEW r, Vote(b, r, n) \in SentVotes
  PROVE  Vote(b, r, n) \in node[n].cast
<1>1. PICK m \in Node : Vote(b, r, n) \in node[m].cast
  BY DEF SentVotes
<1>2. Vote(b, r, n).voter = m
  BY <1>1 DEF Inv, Sound
<1> QED BY <1>1, <1>2 DEF Vote

\* Two quorums of one round are for the same block.
LEMMA SameRoundQuorums ==
  ASSUME Inv, OneVotePerRound, NEW b, NEW c, Len(b) = Len(c), NEW r \in Round,
         HasQuorum(b, r), HasQuorum(c, r)
  PROVE  b = c
<1> DEFINE S == {n \in Node : Vote(b, r, n) \in SentVotes}
           T == {n \in Node : Vote(c, r, n) \in SentVotes}
<1>1. S \subseteq Node /\ T \subseteq Node
  OBVIOUS
<1>2. Cardinality(S) \in Nat /\ Cardinality(T) \in Nat
  BY <1>1, FS_Subset, FS_CardinalityType, NodeAssumption
<1>3. Cardinality(S) >= Majority /\ Cardinality(T) >= Majority
  BY DEF HasQuorum
<1> HIDE DEF S, T
<1>4. Cardinality(S) + Cardinality(T) > Cardinality(Node)
  BY <1>2, <1>3, MajorityIsMoreThanHalf
<1>5. S \cap T # {}
  BY <1>1, <1>4, FS_MajoritiesIntersect, NodeAssumption
<1>6. PICK n \in Node : Vote(b, r, n) \in SentVotes /\ Vote(c, r, n) \in SentVotes
  BY <1>5 DEF S, T
<1>7. Vote(b, r, n) \in node[n].cast /\ Vote(c, r, n) \in node[n].cast
  BY <1>6, VoteIsFromVoter
<1> QED BY <1>7 DEF OneVotePerRound, Vote

\* A block has a quorum in the first round or another one in the second.
LEMMA NoQuorumInBothRounds ==
  ASSUME Inv, OneVotePerRound, SecondRoundSafe, NEW b, NEW c, Len(b) = Len(c),
         HasQuorum(b, 0), HasQuorum(c, 1)
  PROVE  FALSE
<1> DEFINE S == {n \in Node : Vote(b, 0, n) \in SentVotes}
           T == {n \in Node : Vote(c, 1, n) \in SentVotes}
           M == MayVoteFirst(b)
<1>1. Cardinality(S) >= Majority /\ Cardinality(T) >= Majority
  BY DEF HasQuorum
<1>2. S # {} /\ T # {}
  <2>1. ~ (0 >= Majority)
    BY MajorityIsMoreThanHalf
  <2>2. ASSUME NEW A, Cardinality(A) >= Majority
        PROVE  A # {}
    <3>1. CASE A = {}
      <4>1. Cardinality(A) = 0
        BY <3>1, FS_EmptySet
      <4> QED BY <2>1, <2>2, <4>1
    <3> QED BY <3>1
  <2> HIDE DEF S, T
  <2> QED BY <1>1, <2>2
<1>3. PICK m \in Node, n \in Node : Vote(b, 0, m) \in SentVotes /\ Vote(c, 1, n) \in SentVotes
  BY <1>2
<1>4. Cardinality(M) < Majority
  BY <1>3 DEF SecondRoundSafe, Vote
<1>5. S \subseteq M
  <2> SUFFICES ASSUME NEW k \in Node, Vote(b, 0, k) \in SentVotes
               PROVE  k \in M
    OBVIOUS
  <2>1. Vote(b, 0, k) \in node[k].cast
    BY VoteIsFromVoter
  <2> QED BY <2>1 DEF OneVotePerRound, MayVoteFirst, Vote
<1>6. IsFiniteSet(M) /\ S \in SUBSET M
  BY <1>5, FS_Subset, NodeAssumption DEF MayVoteFirst
<1> HIDE DEF S, T, M
<1>7. /\ Cardinality(S) <= Cardinality(M)
      /\ Cardinality(M) \in Nat /\ Cardinality(S) \in Nat
  BY <1>6, FS_Subset, FS_CardinalityType
<1> QED BY <1>1, <1>4, <1>7, MajorityIsMoreThanHalf

\* The counting of votes: the majorities of two blocks have a node in common, so
\* two chains that have their majorities agree at every height that both have.
LEMMA CertifiedChainsAgree ==
  ASSUME Inv, OneVotePerRound, SecondRoundSafe,
         NEW b \in Block, NEW c \in Block,
         Certified(SentVotes, b), Certified(SentVotes, c),
         NEW h \in Nat, 1 <= h, h <= Len(b), h <= Len(c)
  PROVE  b[h] = c[h]
<1>1. h \in 1 .. Len(b) /\ h \in 1 .. Len(c)
  BY LenProperties DEF Block
<1>2. CASE h = 1
  BY <1>2 DEF Certified
<1>3. CASE h # 1
  <2> DEFINE p == SubSeq(b, 1, h)
             q == SubSeq(c, 1, h)
  <2>1. PICK r \in Round, t \in Round : HasQuorum(p, r) /\ HasQuorum(q, t)
    <3>1. h \in 2 .. Len(b) /\ h \in 2 .. Len(c)
      BY <1>1, <1>3
    <3>2. /\ \E r \in Round : Quorum(SentVotes, p, r)
          /\ \E r \in Round : Quorum(SentVotes, q, r)
      BY <3>1 DEF Certified
    <3> QED BY <3>2 DEF Quorum, HasQuorum
  <2>2. Len(p) = h /\ p[h] = b[h] /\ Len(q) = h /\ q[h] = c[h]
    BY <1>1, PrefixProperties
  <2> HIDE DEF p, q
  <2>3. Len(p) = Len(q)
    BY <2>2
  <2>4. p = q
    BY <2>1, <2>3, SameRoundQuorums, NoQuorumInBothRounds DEF Round
  <2> QED BY <2>2, <2>4
<1> QED BY <1>2, <1>3

\* So the chains of any two nodes agree.
LEMMA VotingRulesGiveAgreement ==
  ASSUME TypeOK, Inv, OneVotePerRound, SecondRoundSafe
  PROVE  Agreement
<1> SUFFICES ASSUME NEW m \in Node, NEW n \in Node,
                    NEW h \in DOMAIN node[m].chain \cap DOMAIN node[n].chain
             PROVE  node[m].chain[h] = node[n].chain[h]
  BY DEF Agreement
<1>1. node[m].chain \in Block /\ node[n].chain \in Block
  BY ChainsAreCertified
<1>2. h \in Nat /\ 1 <= h /\ h <= Len(node[m].chain) /\ h <= Len(node[n].chain)
  BY <1>1, LenProperties DEF Block
<1> QED BY <1>1, <1>2, ChainsAreCertified, CertifiedChainsAgree

\* As long as every node votes once in a round, and goes to the second round
\* only when the first one is lost, no two nodes commit different blocks.
THEOREM VotingRulesImplyAgreement ==
  Spec => [](OneVotePerRound /\ SecondRoundSafe => Agreement)
<1>1. TypeOK /\ Inv /\ [Next]_node => TypeOK' /\ Inv'
  BY InvNext
<1>2. TypeOK /\ Inv => (OneVotePerRound /\ SecondRoundSafe => Agreement)
  BY VotingRulesGiveAgreement
<1> QED BY <1>1, <1>2, InitTypeOK, InvInit, PTL DEF Spec

=============================================================================
