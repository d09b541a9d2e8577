---------------------------- MODULE VotingProofs ----------------------------
(***************************************************************************)
(* The voting rules, and what follows from them: a node that is not        *)
(* restarted and gets its transactions in time votes once in each round;   *)
(* when all nodes are such, a second-round vote is cast only when the      *)
(* first round is lost, so no two nodes ever commit different blocks, no   *)
(* committed block is replaced, and the nodes implement one ledger.        *)
(*                                                                         *)
(* The code keeps only the height and round of its last vote.  That this   *)
(* is enough is the invariant Disciplined: every vote of a node is at or   *)
(* below its last one, which is not above the height that is voted on, and *)
(* the timer that starts the first round does not run once the node has    *)
(* voted at this height.  That the second round is safe is a count: the    *)
(* votes of round 0 that a node has seen, one per voter, leave too few     *)
(* nodes for any block to win.                                             *)
(***************************************************************************)
EXTENDS ChainProofs

\* Node n never restarts, and has every transaction before a block names it.
\* (The runs double_vote and replaced_block show what happens otherwise.)
Undisturbed(n) == MaxRestarts[n] = 0 /\ \A t \in Txn : <<n, t>> \notin Late

\* The votes V of one node are for one block of a height in each round.
SingleVotes(V) ==
  \A v, w \in V : Len(v.block) = Len(w.block) /\ v.round = w.round => v.block = w.block

\* The vote v is not after the last vote <<height, round>>.
UpTo(v, last) ==
  \/ Len(v.block) < last[1]
  \/ Len(v.block) = last[1] /\ v.round <= last[2]

Disciplined(s) ==
  /\ s.requested = {}
  /\ s.last_vote[1] <= Height(s) + 1
  /\ s.block_wait_timer => s.last_vote[1] # Height(s) + 1
  /\ \A v \in s.cast : UpTo(v, s.last_vote)
  /\ SingleVotes(s.cast)

\* The nodes that, among the votes V, have none of round 0 against block b.
MayFirst(V, b) ==
  {n \in Node : \A v \in V :
     v.voter = n /\ v.round = 0 /\ Len(v.block) = Len(b) => v.block = b}

\* A vote of round 1 is in V only if no block of its height can win round 0.
SecondSafe(V) ==
  \A v \in V : v.round = 1 =>
    \A b \in Block : Len(b) = Len(v.block) => Cardinality(MayFirst(V, b)) < Majority

\* The operator that leads from s to t has nothing to do with votes.
Voteless(s, t) ==
  /\ t.cast = s.cast /\ t.last_vote = s.last_vote
  /\ t.requested = s.requested /\ t.block_wait_timer = s.block_wait_timer

\* It casts at most one vote, of round r for a block of the next height.
Ballot(n, s, t, r) ==
  /\ t.chain = s.chain /\ t.requested = s.requested
  /\ t.block_wait_timer = s.block_wait_timer
  /\ \/ t.cast = s.cast /\ t.last_vote = s.last_vote
     \/ \E b \in Block : /\ Len(b) = Height(s) + 1 /\ b \in Proposals(s)
                         /\ t.cast = s.cast \cup {Vote(b, r, n)}
                         /\ t.last_vote = <<Height(s) + 1, r>>

-----------------------------------------------------------------------------
(* The operators that do not vote *)

\* The operators on the timer of new blocks and the synchronization state.
LEMMA Timers_Voteless ==
  ASSUME NEW s \in NodeState,
         NEW t \in {start_new_block_timer(s), request_state_update(s),
                    mark_outdated(s), rollback_block(s),
                    check_mempool_transactions(s)}
  PROVE  Voteless(s, t)
BY DEF start_new_block_timer, request_state_update, mark_outdated, rollback_block,
       check_mempool_transactions, Voteless, NodeState

\* commit_block discards the votes that were received, not the memory of those cast.
LEMMA CommitBlock_Voteless ==
  ASSUME NEW s \in NodeState, NEW b \in Block, NEW env, EnvOK(env)
  PROVE  Voteless(s, commit_block(s, b, env))
<1> DEFINE failed == [s EXCEPT !.verified = FALSE]
           done == [s EXCEPT !.chain = b,
                             !.used = @ \cup (s.mempool \cap Head1(b).txns),
                             !.new_blocks = {c \in @ : Len(c) > Len(b)},
                             !.votes = {v \in @ : Len(v.block) > Len(b)},
                             !.open_block = NoBlock,
                             !.verified = FALSE]
           cleared == check_mempool_transactions(done)
<1>1. failed \in NodeState /\ Voteless(s, failed)
  BY DEF NodeState, Voteless
<1>2. done \in NodeState /\ Voteless(s, done)
  BY NoBlockProperties DEF NodeState, Voteless
<1>3. CASE ~ s.verified
  BY <1>3, Timers_Voteless DEF commit_block
<1>4. CASE s.verified /\ env.commit = "busy"
  BY <1>1, <1>4 DEF commit_block
<1>5. CASE s.verified /\ env.commit = "error"
  <2>1. commit_block(s, b, env) = mark_outdated(failed)
    BY <1>5 DEF commit_block
  <2> HIDE DEF failed
  <2> QED BY <1>1, <2>1, Timers_Voteless DEF Voteless
<1>6. CASE s.verified /\ env.commit = "ok"
  <2>1. commit_block(s, b, env) = start_new_block_timer(cleared)
    BY <1>6 DEF commit_block
  <2> HIDE DEF done
  <2>2. cleared \in NodeState /\ Voteless(done, cleared)
    BY <1>2, Timers_Voteless DEF check_mempool_transactions, NodeState
  <2> HIDE DEF cleared
  <2> QED BY <1>2, <2>1, <2>2, Timers_Voteless DEF Voteless
<1> QED BY <1>3, <1>4, <1>5, <1>6 DEF EnvOK

\* Nor does it matter whether the winner had to be verified first.
LEMMA CommitWinner_Voteless ==
  ASSUME NEW s \in NodeState, NEW b \in Block, NEW env, EnvOK(env)
  PROVE  Voteless(s, commit_winner(s, b, env))
<1> DEFINE t == rollback_block(s)
           u == [t EXCEPT !.open_block = b, !.verified = TRUE]
<1>1. t \in NodeState /\ Voteless(s, t)
  BY NoBlockProperties, Timers_Voteless DEF rollback_block, NodeState
<1>2. CASE b = s.open_block
  BY <1>2, CommitBlock_Voteless DEF commit_winner
<1>3. CASE b # s.open_block
  <2>1. commit_winner(s, b, env) \in
          {t, mark_outdated(t), commit_block(u, b, env)}
    BY <1>3 DEF commit_winner, verify_failed
  <2> HIDE DEF t
  <2>2. u \in NodeState /\ Voteless(t, u)
    BY <1>1 DEF NodeState, Voteless
  <2> HIDE DEF u
  <2>3. Voteless(t, mark_outdated(t)) /\ Voteless(u, commit_block(u, b, env))
    BY <1>1, <2>2, Timers_Voteless, CommitBlock_Voteless
  <2> QED BY <1>1, <2>1, <2>2, <2>3 DEF Voteless
<1> QED BY <1>2, <1>3

\* check_for_winner_block in the second round only commits.
LEMMA CheckForWinnerBlock1_Voteless ==
  ASSUME NEW s \in NodeState, NEW env, EnvOK(env)
  PROVE  Voteless(s, check_for_winner_block_1(s, env))
<1>1. ASSUME Winners(s, 1) # {}
      PROVE  Voteless(s, commit_winner(s, PickFirst(Winners(s, 1), env), env))
  <2>1. PickFirst(Winners(s, 1), env) \in Winners(s, 1)
    BY <1>1, PickFirstIsMember
  <2>2. PickFirst(Winners(s, 1), env) \in Block
    BY <2>1 DEF Winners, Proposals, NodeState
  <2> QED BY <2>2, CommitWinner_Voteless
<1>2. Voteless(s, s)
  BY DEF Voteless
<1> QED BY <1>1, <1>2 DEF check_for_winner_block_1

-----------------------------------------------------------------------------
(* Voting *)

\* open_and_vote casts one vote at most, for a proposal at the next height.
LEMMA OpenAndVote_Ballot ==
  ASSUME NEW n \in Node, NEW s \in NodeState, NEW r \in Round, NEW env
  PROVE  Ballot(n, s, open_and_vote(n, s, r, env), r)
<1> DEFINE best == MinWait(Proposals(s))
           present == {b \in Proposals(s) : TxnsPresent(s, b)}
           verifiable == {b \in present : Verifies(s, b, env)}
           good == MinWait(verifiable)
           winner == PickFirst(good, env)
           failed == {b \in present : ~ Verifies(s, b, env) /\
                                        (good = {} \/ Before(b, winner, env))}
           t == IF failed \subseteq env.locked THEN rollback_block(s)
                ELSE mark_outdated(rollback_block(s))
           u == [t EXCEPT !.open_block = winner, !.verified = TRUE]
<1>1. ASSUME NEW q \in NodeState, NEW b \in Proposals(s), Voteless(s, q),
             q.chain = s.chain
      PROVE  Ballot(n, s, vote_on_block(n, q, r, b), r)
  <2>1. b \in Block /\ Len(b) = Height(s) + 1
    BY DEF Proposals, NodeState
  <2> QED BY <1>1, <2>1 DEF vote_on_block, Ballot, Voteless, NodeState
<1>2. t \in NodeState /\ Voteless(s, t) /\ t.chain = s.chain
  <2> DEFINE q == rollback_block(s)
  <2>1. q \in NodeState /\ Voteless(s, q) /\ q.chain = s.chain
    BY NoBlockProperties, Timers_Voteless DEF rollback_block, NodeState
  <2> HIDE DEF q
  <2>2. /\ mark_outdated(q) \in NodeState /\ Voteless(q, mark_outdated(q))
        /\ mark_outdated(q).chain = q.chain
    BY <2>1, Timers_Voteless DEF mark_outdated, NodeState, SyncState
  <2>3. t \in {q, mark_outdated(q)}
    BY DEF q
  <2> HIDE DEF t
  <2> QED BY <2>1, <2>2, <2>3 DEF Voteless
<1>3. ASSUME best # {}, PickFirst(best, env) = s.open_block
      PROVE  Ballot(n, s, vote_on_block(n, s, r, s.open_block), r)
  <2>1. s.open_block \in Proposals(s)
    BY <1>3, PickFirstIsMember DEF MinWait
  <2> HIDE DEF best
  <2> QED BY <1>1, <2>1 DEF Voteless
<1>4. ASSUME good # {}
      PROVE  Ballot(n, s, vote_on_block(n, u, r, winner), r)
  <2>1. winner \in Proposals(s)
    BY <1>4, PickFirstIsMember DEF MinWait
  <2>2. winner \in Block
    BY <2>1 DEF Proposals, NodeState
  <2> HIDE DEF t, winner
  <2>3. u \in NodeState /\ Voteless(t, u) /\ u.chain = t.chain
    BY <1>2, <2>2 DEF NodeState, Voteless
  <2> HIDE DEF u
  <2> QED BY <1>1, <1>2, <2>1, <2>3 DEF Voteless
<1>5. Ballot(n, s, s, r)
  BY DEF Ballot
<1>6. Ballot(n, s, t, r)
  <2> HIDE DEF t
  <2> QED BY <1>2 DEF Ballot, Voteless
<1>7. open_and_vote(n, s, r, env) =
        IF best = {} THEN s
        ELSE IF PickFirst(best, env) = s.open_block
             THEN vote_on_block(n, s, r, s.open_block)
        ELSE IF good = {} THEN t
        ELSE vote_on_block(n, u, r, winner)
  BY DEF open_and_vote
<1> HIDE DEF best, good, t, u, winner
<1> QED BY <1>3, <1>4, <1>5, <1>6, <1>7

\* A node that casts no vote stays disciplined, at its height or at a later one.
LEMMA VotelessDisciplined ==
  ASSUME NEW s \in NodeState, NEW t \in NodeState, Disciplined(s),
         t.cast = s.cast, t.last_vote = s.last_vote, t.requested = {},
         Len(s.chain) <= Len(t.chain),
         t.block_wait_timer => s.block_wait_timer \/ s.last_vote[1] # Height(s) + 1
  PROVE  Disciplined(t)
<1>1. Len(s.chain) \in Nat /\ Len(t.chain) \in Nat /\ s.last_vote[1] \in Nat
  BY LenProperties DEF NodeState, Block
<1>2. t.block_wait_timer => t.last_vote[1] # Height(t) + 1
  BY <1>1 DEF Disciplined, Height
<1>3. t.last_vote[1] <= Height(t) + 1
  BY <1>1 DEF Disciplined, Height
<1> QED BY <1>2, <1>3 DEF Disciplined

\* A vote that is later than the last one is the only one of its round.
LEMMA BallotDisciplined ==
  ASSUME NEW n \in Node, NEW s \in NodeState, NEW t \in NodeState, NEW r \in Round,
         Disciplined(s), Ballot(n, s, t, r), ~ s.block_wait_timer,
         s.last_vote[1] = Height(s) + 1 => s.last_vote[2] < r
  PROVE  Disciplined(t)
<1>1. Height(s) \in Nat /\ s.last_vote \in Nat \X Round /\ s.cast \subseteq VoteSet
  BY LenProperties DEF NodeState, Block, Height
<1>2. CASE t.cast = s.cast /\ t.last_vote = s.last_vote
  BY <1>2 DEF Disciplined, Ballot, Height
<1>3. ASSUME NEW b \in Block, Len(b) = Height(s) + 1,
             t.cast = s.cast \cup {Vote(b, r, n)},
             t.last_vote = <<Height(s) + 1, r>>
      PROVE  Disciplined(t)
  <2> DEFINE new == Vote(b, r, n)
  <2>1. new.block = b /\ new.round = r
    BY DEF Vote
  <2> HIDE DEF new
  <2>2. t.last_vote[1] = Height(s) + 1 /\ t.last_vote[2] = r /\ r \in {0, 1}
    BY <1>3 DEF Round
  <2>3. ASSUME NEW v \in s.cast
        PROVE  UpTo(v, t.last_vote) /\ ~ (Len(v.block) = Len(b) /\ v.round = r)
    <3>1. UpTo(v, s.last_vote)
      BY DEF Disciplined
    <3>2. Len(v.block) \in Nat /\ v.round \in {0, 1}
      BY <1>1, LenProperties DEF VoteSet, Block, Round
    <3>3. s.last_vote[1] \in Nat /\ s.last_vote[2] \in {0, 1} /\ s.last_vote[1] <= Height(s) + 1
      BY <1>1 DEF Disciplined, Round
    <3>4. \/ s.last_vote[1] < Height(s) + 1
          \/ s.last_vote[1] = Height(s) + 1 /\ s.last_vote[2] < r
      BY <1>1, <3>3
    <3> QED BY <1>1, <1>3, <2>2, <3>1, <3>2, <3>3, <3>4 DEF UpTo
  <2>4. \A v \in t.cast : UpTo(v, t.last_vote)
    BY <1>3, <2>1, <2>2, <2>3 DEF UpTo, new
  <2>5. SingleVotes(t.cast)
    BY <1>3, <2>1, <2>3 DEF SingleVotes, Disciplined, new
  <2>6. Height(t) = Height(s) /\ t.requested = {} /\ ~ t.block_wait_timer
    BY DEF Ballot, Height, Disciplined
  <2> QED BY <1>1, <2>2, <2>4, <2>5, <2>6 DEF Disciplined
<1> QED BY <1>2, <1>3 DEF Ballot

\* A commit leaves a node disciplined.
LEMMA CommitWinner_Disciplined ==
  ASSUME NEW n, NEW W, NEW s, Sound(n, s, W), Tidy(s), Disciplined(s),
         ~ s.is_updating_state, NEW r \in Round, NEW b \in Winners(s, r),
         NEW env, EnvOK(env)
  PROVE  Disciplined(commit_winner(s, b, env)) /\ commit_winner(s, b, env).cast = s.cast
<1> DEFINE t == commit_winner(s, b, env)
<1>1. s \in NodeState /\ t \in NodeState
  BY CommitWinner_Keeps DEF Keeps, Sound
<1>2. Moves(s, t)
  BY CommitWinner_Tidy DEF Grows, Moves
<1>3. Voteless(s, t)
  BY <1>1, WinnerHasQuorum, CommitWinner_Voteless
<1> HIDE DEF t
<1>4. Len(s.chain) <= Len(t.chain)
  BY <1>1, <1>2, MovesIsLonger
<1> QED BY <1>1, <1>3, <1>4, VotelessDisciplined DEF Voteless, Disciplined, t

\* So does check_for_winner_block in the second round.
LEMMA CheckForWinnerBlock1_Disciplined ==
  ASSUME NEW n, NEW W, NEW s, Sound(n, s, W), Tidy(s), Disciplined(s),
         NEW env, EnvOK(env)
  PROVE  /\ Disciplined(check_for_winner_block_1(s, env))
         /\ check_for_winner_block_1(s, env).cast = s.cast
<1>1. ASSUME Winners(s, 1) # {}, ~ s.is_updating_state
      PROVE  LET t == commit_winner(s, PickFirst(Winners(s, 1), env), env)
             IN Disciplined(t) /\ t.cast = s.cast
  BY <1>1, PickFirstIsMember, CommitWinner_Disciplined DEF Round
<1> QED BY <1>1 DEF check_for_winner_block_1

\* The second round is not before the last vote when it was not voted in.
LEMMA ChooseBlockToVote1_Disciplined ==
  ASSUME NEW n \in Node, NEW W, NEW s, Sound(n, s, W), Tidy(s), Disciplined(s),
         ~ s.block_wait_timer, NEW env, EnvOK(env)
  PROVE  Disciplined(choose_block_to_vote_1(n, s, env))
<1> DEFINE t == open_and_vote(n, s, 1, env)
<1>1. ASSUME s.last_vote # <<Height(s) + 1, 1>>, ~ s.is_updating_state
      PROVE  Disciplined(check_for_winner_block_1(t, env))
  <2>0. Sound(n, t, W) /\ Tidy(t)
    BY <1>1, OpenAndVote_Keeps, OpenAndVote_Tidy DEF Round, Keeps
  <2>1. t \in NodeState /\ s \in NodeState
    <3> HIDE DEF t
    <3> QED BY <2>0 DEF Sound
  <2>2. Ballot(n, s, t, 1)
    BY <2>1, OpenAndVote_Ballot DEF Round
  <2>3. s.last_vote[1] = Height(s) + 1 => s.last_vote[2] < 1
    <3>1. s.last_vote \in Nat \X {0, 1}
      BY <2>1 DEF NodeState, Round
    <3> QED BY <1>1, <3>1
  <2> HIDE DEF t
  <2>4. Disciplined(t)
    BY <2>1, <2>2, <2>3, BallotDisciplined DEF Round
  <2> QED BY <2>0, <2>4, CheckForWinnerBlock1_Disciplined
<1> QED BY <1>1 DEF choose_block_to_vote_1

\* check_for_winner_block goes to the second round when the timer does not run.
LEMMA CheckForWinnerBlock0_Disciplined ==
  ASSUME NEW n \in Node, NEW W, NEW s, Sound(n, s, W), Tidy(s), Disciplined(s),
         NEW env, EnvOK(env)
  PROVE  Disciplined(check_for_winner_block_0(n, s, env))
<1>1. ASSUME Winners(s, 0) # {}, ~ s.is_updating_state
      PROVE  Disciplined(commit_winner(s, PickFirst(Winners(s, 0), env), env))
  BY <1>1, PickFirstIsMember, CommitWinner_Disciplined DEF Round
<1> QED BY <1>1, ChooseBlockToVote1_Disciplined DEF check_for_winner_block_0

\* The first round starts when the node has not voted at this height.
LEMMA ChooseBlockToVote0_Disciplined ==
  ASSUME NEW n \in Node, NEW W, NEW s, Sound(n, s, W), Tidy(s), Disciplined(s),
         ~ s.block_wait_timer, s.last_vote[1] # Height(s) + 1, NEW env, EnvOK(env)
  PROVE  Disciplined(choose_block_to_vote_0(n, s, env))
<1> DEFINE t == open_and_vote(n, s, 0, env)
<1>1. ASSUME ~ s.is_updating_state
      PROVE  Disciplined(check_for_winner_block_0(n, t, env))
  <2>0. Sound(n, t, W) /\ Tidy(t)
    BY <1>1, OpenAndVote_Keeps, OpenAndVote_Tidy DEF Round, Keeps
  <2>1. t \in NodeState /\ s \in NodeState
    <3> HIDE DEF t
    <3> QED BY <2>0 DEF Sound
  <2>2. Ballot(n, s, t, 0)
    BY <2>1, OpenAndVote_Ballot DEF Round
  <2> HIDE DEF t
  <2>3. Disciplined(t)
    BY <2>1, <2>2, BallotDisciplined DEF Round
  <2> QED BY <2>0, <2>3, CheckForWinnerBlock0_Disciplined
<1> QED BY <1>1 DEF choose_block_to_vote_0

-----------------------------------------------------------------------------
(* The steps that do not vote *)

\* The step from s to t casts no vote, requests nothing, and starts the timer
\* of the first round only for a height that is not voted on.
Quiet(s, t) ==
  /\ t.cast = s.cast /\ t.last_vote = s.last_vote /\ t.requested \subseteq s.requested
  /\ t.block_wait_timer => s.block_wait_timer \/ s.last_vote[1] # Height(s) + 1

\* No step makes any chain shorter.
LEMMA ChainsGrow ==
  ASSUME TypeOK, TypeOK', OneMoves, NEW n \in Node
  PROVE  /\ Len(node[n].chain) \in Nat /\ Len(node'[n].chain) \in Nat
         /\ Len(node[n].chain) <= Len(node'[n].chain)
<1>1. node[n] \in NodeState /\ node'[n] \in NodeState
  BY DEF TypeOK
<1>2. Moves(node[n], node'[n])
  BY DEF OneMoves, Moves
<1> QED BY <1>1, <1>2, MovesIsLonger

\* A quiet step keeps the discipline.
LEMMA QuietDisciplined ==
  ASSUME TypeOK, TypeOK', OneMoves, NEW n \in Node, Disciplined(node[n]),
         Quiet(node[n], node'[n])
  PROVE  Disciplined(node'[n])
<1>1. node[n] \in NodeState /\ node'[n] \in NodeState
  BY DEF TypeOK
<1>2. node'[n].requested = {}
  BY DEF Disciplined, Quiet
<1> QED BY <1>1, <1>2, ChainsGrow, VotelessDisciplined DEF Quiet

\* A new transaction that was not requested starts a timer at most.
LEMMA NewTransaction_Quiet ==
  ASSUME TypeOK, NEW n \in Node, Disciplined(node[n]), NEW t \in Txn,
         send_local_transactions(n, t) \/ on_new_remote_transaction(n, t)
  PROVE  Quiet(node[n], node'[n])
<1> DEFINE q == node[n]
           s == [q EXCEPT !.submitted = @ \cup {t}]
           m(p) == [p EXCEPT !.mempool = @ \cup {t}, !.requested = @ \ {t}]
<1>1. q \in NodeState /\ q.requested = {}
  BY DEF TypeOK, Disciplined
<1>2. PICK env : \/ Become(n, process_new_transaction(n, s, t, env))
                 \/ Become(n, process_new_transaction(n, q, t, env))
  BY DEF send_local_transactions, on_new_remote_transaction
<1>3. ASSUME NEW p \in NodeState, p.requested = {}, Voteless(q, p)
      PROVE  Voteless(q, process_new_transaction(n, p, t, env))
  <2>1. process_new_transaction(n, p, t, env) = start_new_block_timer(m(p))
    BY <1>3 DEF process_new_transaction
  <2>2. m(p) \in NodeState /\ Voteless(p, m(p))
    BY <1>3 DEF NodeState, Voteless
  <2> HIDE DEF m
  <2> QED BY <1>3, <2>1, <2>2, Timers_Voteless DEF Voteless
<1> HIDE DEF q
<1>4. s \in NodeState /\ s.requested = {} /\ Voteless(q, s) /\ Voteless(q, q)
  BY <1>1 DEF NodeState, Voteless
<1> HIDE DEF s
<1>5. Voteless(q, node'[n])
  BY <1>1, <1>2, <1>3, <1>4 DEF Become, TypeOK
<1> QED BY <1>5 DEF Voteless, Quiet, q

\* A proposal starts the timer of the first round only before the vote.
LEMMA NewBlockTimerCb_Quiet ==
  ASSUME TypeOK, NEW n \in Node, new_block_timer_cb(n)
  PROVE  Quiet(node[n], node'[n])
<1> DEFINE q == node[n]
           stopped == [q EXCEPT !.new_block_timer = FALSE]
           s == rollback_block(stopped)
           b == Append(s.chain, [creator |-> n, txns |-> Unused(s), run |-> s.run])
           again == [s EXCEPT !.new_block_timer = TRUE]
           opened == [s EXCEPT !.new_blocks = @ \cup {b}, !.created = @ \cup {b},
                               !.open_block = b, !.verified = TRUE,
                               !.last_created = Len(b)]
<1>1. Become(n, s) \/ Become(n, again) \/ Become(n, start_block_wait_timer(opened))
  BY DEF new_block_timer_cb
<1>2. q \in NodeState
  BY DEF TypeOK
<1> HIDE DEF q, b
<1>3. /\ Voteless(q, s) /\ Voteless(q, again) /\ Voteless(q, opened)
      /\ opened.chain = q.chain /\ q.chain = s.chain
  BY <1>2 DEF NodeState, Voteless, rollback_block
<1>4. opened.block_wait_timer \in BOOLEAN /\ DOMAIN opened = DOMAIN q
  BY <1>2 DEF NodeState, rollback_block
<1>5. start_block_wait_timer(opened) \in
        {opened, [opened EXCEPT !.block_wait_timer = TRUE]}
  BY DEF start_block_wait_timer
<1>6. LET u == start_block_wait_timer(opened)
      IN /\ u.cast = opened.cast /\ u.last_vote = opened.last_vote
         /\ u.requested = opened.requested
         /\ u = opened \/ opened.last_vote[1] # Height(opened) + 1
  BY DEF start_block_wait_timer
<1> HIDE DEF s, again, opened
<1>7. node'[n] \in {s, again, start_block_wait_timer(opened)}
  BY <1>1 DEF Become, TypeOK
<1> QED BY <1>3, <1>6, <1>7 DEF Voteless, Quiet, Height, q

\* The steps of the state update, and the other timers, cast no vote.
LEMMA StateUpdate_Quiet ==
  ASSUME TypeOK, NEW n \in Node, Undisturbed(n),
         \/ \E t \in Txn : request_transaction_finished(n, t)
         \/ process_transactions_timer_cb(n)
         \/ on_update_db_page(n)
         \/ on_apply_state_update(n)
         \/ on_state_update_node_timeout(n)
         \/ plugin_init(n)
  PROVE  Quiet(node[n], node'[n])
<1> DEFINE q == node[n]
           w == [q EXCEPT !.chain = q.update,
                          !.new_blocks = {b \in @ : Len(b) > Len(q.update)},
                          !.votes = {v \in @ : Len(v.block) > Len(q.update)}]
           t == check_mempool_transactions(w)
<1>1. q \in NodeState
  BY DEF TypeOK
<1>2. ~ plugin_init(n)
  <2>1. q.run \in Nat
    BY <1>1, BoundAssumption DEF NodeState, Run
  <2> QED BY <2>1 DEF plugin_init, Undisturbed
<1>3. \/ node'[n] = request_state_update(q)
      \/ \E r \in Txn : node'[n] = [q EXCEPT !.requested = @ \ {r}]
      \/ node'[n] = [rollback_block(q) EXCEPT !.is_updating_state = TRUE]
      \/ \E p \in {q, rollback_block(q), t} : node'[n] \in request_state_update_next(p)
  BY <1>2 DEF request_transaction_finished, process_transactions_timer_cb,
     on_update_db_page, on_apply_state_update, on_state_update_node_timeout, Become, TypeOK
<1> HIDE DEF q
<1>4. Voteless(q, rollback_block(q)) /\ Voteless(q, t) /\ Voteless(q, q)
  <2>1. Voteless(q, rollback_block(q)) /\ Voteless(q, q)
    BY <1>1 DEF rollback_block, Voteless, NodeState
  <2>2. w \in NodeState /\ Voteless(q, w)
    BY <1>1 DEF Voteless, NodeState
  <2> HIDE DEF w
  <2> QED BY <2>1, <2>2, Timers_Voteless DEF Voteless
<1>5. \A r \in Txn : Quiet(q, [q EXCEPT !.requested = @ \ {r}])
  BY <1>1 DEF Quiet, NodeState
<1>6. Quiet(q, request_state_update(q))
  BY <1>1 DEF request_state_update, Quiet, NodeState
<1>7. Quiet(q, [rollback_block(q) EXCEPT !.is_updating_state = TRUE])
  BY <1>1 DEF rollback_block, Quiet, NodeState
<1>8. rollback_block(q) \in NodeState /\ t \in NodeState
  <2>1. rollback_block(q) \in NodeState /\ w \in NodeState
    BY <1>1, NoBlockProperties DEF rollback_block, NodeState
  <2> HIDE DEF w
  <2> QED BY <2>1 DEF check_mempool_transactions, NodeState
<1> HIDE DEF t
<1>9. ASSUME NEW p \in {q, rollback_block(q), t}, NEW u \in request_state_update_next(p)
      PROVE  Quiet(q, u)
  <2>1. p \in NodeState /\ Voteless(q, p)
    BY <1>1, <1>4, <1>8
  <2>2. Voteless(p, u)
    BY <2>1 DEF request_state_update_next, Voteless, NodeState
  <2> QED BY <2>1, <2>2 DEF Voteless, Quiet
<1> QED BY <1>3, <1>5, <1>6, <1>7, <1>9 DEF q

\* Nor do those of a peer that serves a state update.
LEMMA OnRequestStateUpdate_Quiet ==
  ASSUME TypeOK, NEW m \in Node, NEW n \in Node, on_request_state_update(m, n),
         NEW k \in Node
  PROVE  Quiet(node[k], node'[k])
<1> DEFINE p == node[m]
           q == node[n]
           t == [q EXCEPT !.update = p.chain]
<1>1. /\ node'[n] = t /\ node'[m] = rollback_block(p)
      /\ k \notin {m, n} => node'[k] = node[k]
  BY DEF on_request_state_update, TypeOK
<1>2. p \in NodeState /\ q \in NodeState
  BY DEF TypeOK
<1>3. Quiet(node[k], node[k])
  BY DEF Quiet
<1>4. Quiet(p, rollback_block(p))
  <2> HIDE DEF p
  <2> QED BY <1>2 DEF rollback_block, Quiet, NodeState
<1>5. Quiet(q, t)
  <2> HIDE DEF q
  <2> QED BY <1>2 DEF Quiet, NodeState
<1> QED BY <1>1, <1>3, <1>4, <1>5

-----------------------------------------------------------------------------
(* The second round *)

\* No node has two votes among V for different blocks of a height and round.
OneVote(V) ==
  \A v, w \in V :
    v.voter = w.voter /\ Len(v.block) = Len(w.block) /\ v.round = w.round
      => v.block = w.block

\* The size of a set of nodes is a number, and no more than that of a larger set.
LEMMA NodeSets ==
  ASSUME NEW S \in SUBSET Node
  PROVE  /\ IsFiniteSet(S) /\ Cardinality(S) \in Nat
         /\ \A T \in SUBSET S : Cardinality(T) <= Cardinality(S)
<1>1. IsFiniteSet(S)
  BY FS_Subset, NodeAssumption
<1> QED BY <1>1, FS_Subset, FS_CardinalityType

\* The votes of round 0 that a node has are no more than their voters.
LEMMA VotesAndVoters ==
  ASSUME NEW V, OneVote(V), NEW s \in NodeState, s.votes \subseteq V
  PROVE  LET K == {v \in s.votes : v.round = 0 /\ v.block \in Proposals(s)}
             A == {m \in Node : \E v \in K : v.voter = m}
         IN Cardinality(K) \in Nat /\ Cardinality(K) <= Cardinality(A)
<1> DEFINE K == {v \in s.votes : v.round = 0 /\ v.block \in Proposals(s)}
           A == {m \in Node : \E v \in K : v.voter = m}
           f == [v \in K |-> v.voter]
<1>1. s.votes \subseteq VoteSet
  BY DEF NodeState
<1>2. \A v \in K : v.voter \in A
  BY <1>1 DEF VoteSet
<1>3. ASSUME NEW v \in K, NEW w \in K, v.voter = w.voter
      PROVE  v = w
  <2>1. Len(v.block) = Len(w.block) /\ v.round = w.round
    BY DEF Proposals
  <2>2. v.block = w.block
    BY <1>3, <2>1 DEF OneVote
  <2> QED BY <1>1, <1>3, <2>1, <2>2 DEF VoteSet
<1> HIDE DEF K, A
<1>4. f \in Injection(K, A)
  BY <1>2, <1>3 DEF Injection, IsInjective
<1>5. IsFiniteSet(A)
  BY NodeSets DEF A
<1>6. IsFiniteSet(K) /\ Cardinality(K) <= Cardinality(A)
  <2> HIDE DEF f
  <2> QED BY <1>4, <1>5, FS_Injection
<1> QED BY <1>6, FS_CardinalityType DEF K, A

\* When a node finds that no proposal it knows can win the first round, no block
\* of this height can, known to it or not.
LEMMA FirstRoundIsLost ==
  ASSUME NEW V, OneVote(V), NEW s \in NodeState, s.votes \subseteq V,
         ~ CanStillWin(s), Proposals(s) # {},
         NEW c \in Block, Len(c) = Height(s) + 1
  PROVE  Cardinality(MayFirst(V, c)) < Majority
<1> DEFINE K == {v \in s.votes : v.round = 0 /\ v.block \in Proposals(s)}
           A == {m \in Node : \E v \in K : v.voter = m}
           B == {m \in Node : \E v \in K : v.voter = m /\ v.block # c}
           X == Voters(s, c, 0)
           M == MayFirst(V, c)
           N == Cardinality(Node)
<1>1. Cardinality(K) \in Nat /\ Cardinality(K) <= Cardinality(A)
  BY VotesAndVoters
<1>2. A \in SUBSET Node /\ B \in SUBSET Node /\ X \in SUBSET Node /\ M \in SUBSET Node
  BY DEF Voters, MayFirst
<1>3. M \subseteq Node \ B
  <2> SUFFICES ASSUME NEW m \in M, NEW v \in K, v.voter = m, v.block # c
               PROVE  FALSE
    BY <1>2
  <2>1. v \in V /\ v.round = 0 /\ Len(v.block) = Len(c)
    BY DEF Proposals
  <2> QED BY <2>1 DEF MayFirst
<1>4. A \subseteq B \cup X
  <2> SUFFICES ASSUME NEW v \in K, v.voter \in Node, v.block = c
               PROVE  v.voter \in X
    OBVIOUS
  <2>1. v \in VoteSet /\ v.round = 0
    BY DEF NodeState
  <2>2. v = Vote(c, 0, v.voter)
    BY <2>1 DEF VoteSet, Vote
  <2> QED BY <2>2 DEF Voters
<1>5. c \notin Proposals(s) => A \subseteq B
  OBVIOUS
<1>6. \A b \in Proposals(s) : NumVotes(s, b, 0) + (N - Cardinality(K)) < Majority
  <2>1. N \in Nat /\ Majority \in Nat
    BY MajorityIsMoreThanHalf
  <2>2. \A b \in Proposals(s) : NumVotes(s, b, 0) \in Nat
    BY NodeSets DEF NumVotes, Voters
  <2>3. RemainingVotes(s) = N - Cardinality(K)
    BY DEF RemainingVotes
  <2> HIDE DEF K
  <2> QED BY <1>1, <2>1, <2>2, <2>3 DEF CanStillWin
<1>7. c \in Proposals(s) => Cardinality(X) + (N - Cardinality(K)) < Majority
  BY <1>6 DEF NumVotes
<1>8. N - Cardinality(K) < Majority
  <2>1. PICK b \in Proposals(s) : NumVotes(s, b, 0) + (N - Cardinality(K)) < Majority
    BY <1>6
  <2>2. NumVotes(s, b, 0) \in Nat /\ N \in Nat /\ Majority \in Nat
    BY NodeSets, MajorityIsMoreThanHalf DEF NumVotes, Voters
  <2> HIDE DEF K
  <2> QED BY <1>1, <2>1, <2>2
<1> HIDE DEF K, A, B, X, M
<1>9. /\ N \in Nat /\ Majority \in Nat
      /\ Cardinality(A) \in Nat /\ Cardinality(B) \in Nat
      /\ Cardinality(X) \in Nat /\ Cardinality(M) \in Nat
  BY <1>2, NodeSets, MajorityIsMoreThanHalf
<1>10. Cardinality(M) <= N - Cardinality(B)
  <2>1. Cardinality(Node \ B) = N - Cardinality(Node \cap B)
    BY FS_Difference, NodeAssumption
  <2>2. Node \cap B = B
    BY <1>2
  <2>3. Cardinality(M) <= Cardinality(Node \ B)
    BY <1>3, NodeSets
  <2> QED BY <2>1, <2>2, <2>3
<1>11. Cardinality(A) <= Cardinality(B) + Cardinality(X)
  <2>1. IsFiniteSet(B) /\ IsFiniteSet(X)
    BY <1>2, NodeSets
  <2>2. Cardinality(B \cup X) = Cardinality(B) + Cardinality(X) - Cardinality(B \cap X)
    BY <2>1, FS_Union
  <2>3. B \cup X \in SUBSET Node /\ B \cap X \in SUBSET Node
    BY <1>2
  <2>4. Cardinality(A) <= Cardinality(B \cup X) /\ Cardinality(B \cap X) \in Nat
    BY <1>4, <2>3, NodeSets
  <2> QED BY <1>9, <2>2, <2>4
<1>12. ASSUME c \in Proposals(s)
       PROVE  Cardinality(M) < Majority
  BY <1>1, <1>7, <1>9, <1>10, <1>11, <1>12
<1>13. ASSUME c \notin Proposals(s)
       PROVE  Cardinality(M) < Majority
  <2>1. Cardinality(A) <= Cardinality(B)
    BY <1>2, <1>5, <1>13, NodeSets
  <2> QED BY <1>1, <1>8, <1>9, <1>10, <2>1
<1>14. Cardinality(M) < Majority
  BY <1>12, <1>13
<1> QED BY <1>14 DEF M

\* More votes leave fewer nodes that may vote for a block first.
LEMMA MayFirstShrinks ==
  ASSUME NEW V, NEW V2, V \subseteq V2, NEW b, Cardinality(MayFirst(V, b)) < Majority
  PROVE  Cardinality(MayFirst(V2, b)) < Majority
<1>1. MayFirst(V2, b) \subseteq MayFirst(V, b) /\ MayFirst(V, b) \in SUBSET Node
  BY DEF MayFirst
<1>2. /\ Cardinality(MayFirst(V2, b)) <= Cardinality(MayFirst(V, b))
      /\ Cardinality(MayFirst(V2, b)) \in Nat /\ Cardinality(MayFirst(V, b)) \in Nat
  BY <1>1, NodeSets
<1> QED BY <1>2, MajorityIsMoreThanHalf

\* Between the sent votes W and the votes of node n in state s, all is in order.
Careful(n, s, W) ==
  /\ Sound(n, s, W) /\ Tidy(s) /\ Disciplined(s)
  /\ OneVote(W) /\ \A v \in W : v.voter = n => v \in s.cast
  /\ SecondSafe(W \cup s.cast)

\* A disciplined node does not vote against what it has sent.
LEMMA CarefulVotesOnce ==
  ASSUME NEW n, NEW W, NEW s, Careful(n, s, W)
  PROVE  OneVote(W \cup s.cast)
<1>1. \A v \in s.cast : v.voter = n
  BY DEF Careful, Sound
<1> QED BY <1>1 DEF Careful, OneVote, Disciplined, SingleVotes

\* A vote of the first round makes no second-round vote wrong.
LEMMA FirstBallot_Safe ==
  ASSUME NEW n, NEW W, NEW s, NEW t, SecondSafe(W \cup s.cast), Ballot(n, s, t, 0)
  PROVE  SecondSafe(W \cup t.cast)
<1> DEFINE V == W \cup s.cast
           V2 == W \cup t.cast
<1>1. /\ V \subseteq V2
      /\ \A v \in V2 : v \in V \/ v.round = 0
  BY DEF Ballot, Vote
<1>2. SecondSafe(V)
  OBVIOUS
<1> HIDE DEF V, V2
<1>3. ASSUME NEW v \in V2, v.round = 1, NEW b \in Block, Len(b) = Len(v.block)
      PROVE  Cardinality(MayFirst(V2, b)) < Majority
  <2>1. v \in V
    BY <1>1, <1>3
  <2>2. Cardinality(MayFirst(V, b)) < Majority
    BY <1>2, <1>3, <2>1 DEF SecondSafe
  <2> QED BY <1>1, <2>2, MayFirstShrinks
<1>4. SecondSafe(V2)
  BY <1>3 DEF SecondSafe
<1> QED BY <1>4 DEF V2

\* Nor is one of the second round wrong that is cast when the first is lost.
LEMMA SecondBallot_Safe ==
  ASSUME NEW n, NEW W, NEW s, Careful(n, s, W), ~ CanStillWin(s),
         NEW t, Ballot(n, s, t, 1)
  PROVE  SecondSafe(W \cup t.cast)
<1> DEFINE V == W \cup s.cast
           V2 == W \cup t.cast
<1>1. /\ SecondSafe(V) /\ OneVote(V)
      /\ s \in NodeState /\ s.votes \subseteq V
  BY CarefulVotesOnce DEF Careful, Sound
<1>2. /\ V \subseteq V2
      /\ \A v \in V2 : v \in V \/ (Len(v.block) = Height(s) + 1 /\ Proposals(s) # {})
  BY DEF Ballot, Vote
<1> HIDE DEF V, V2
<1>3. ASSUME NEW v \in V2, v.round = 1, NEW b \in Block, Len(b) = Len(v.block)
      PROVE  Cardinality(MayFirst(V, b)) < Majority
  <2>1. CASE v \in V
    BY <1>1, <1>3, <2>1 DEF SecondSafe
  <2>2. CASE v \notin V
    BY <1>1, <1>2, <1>3, <2>2, FirstRoundIsLost
  <2> QED BY <2>1, <2>2
<1>4. SecondSafe(V2)
  BY <1>2, <1>3, MayFirstShrinks DEF SecondSafe
<1> QED BY <1>4 DEF V2

\* choose_block_to_vote in the second round is called when the first is lost.
LEMMA ChooseBlockToVote1_Safe ==
  ASSUME NEW n \in Node, NEW W, NEW s, Careful(n, s, W), ~ CanStillWin(s),
         NEW env, EnvOK(env)
  PROVE  SecondSafe(W \cup choose_block_to_vote_1(n, s, env).cast)
<1> DEFINE t == open_and_vote(n, s, 1, env)
<1>1. ASSUME ~ s.is_updating_state
      PROVE  SecondSafe(W \cup check_for_winner_block_1(t, env).cast)
  <2>1. Sound(n, t, W)
    BY <1>1, OpenAndVote_Keeps DEF Careful, Round, Keeps
  <2>2. Ballot(n, s, t, 1)
    BY OpenAndVote_Ballot DEF Careful, Sound, Round
  <2> HIDE DEF t
  <2>3. check_for_winner_block_1(t, env).cast = t.cast
    BY <2>1, CheckForWinnerBlock1_Voteless DEF Sound, Voteless
  <2> QED BY <2>2, <2>3, SecondBallot_Safe
<1> QED BY <1>1 DEF choose_block_to_vote_1, Careful

\* check_for_winner_block goes to the second round only then.
LEMMA CheckForWinnerBlock0_Safe ==
  ASSUME NEW n \in Node, NEW W, NEW s, Careful(n, s, W), NEW env, EnvOK(env)
  PROVE  SecondSafe(W \cup check_for_winner_block_0(n, s, env).cast)
<1>1. ASSUME Winners(s, 0) # {}, ~ s.is_updating_state
      PROVE  commit_winner(s, PickFirst(Winners(s, 0), env), env).cast = s.cast
  BY <1>1, PickFirstIsMember, CommitWinner_Disciplined DEF Round, Careful
<1>2. SecondSafe(W \cup s.cast)
  BY DEF Careful
<1>3. CASE ~ s.is_updating_state /\ Winners(s, 0) # {}
  BY <1>1, <1>2, <1>3 DEF check_for_winner_block_0
<1>4. CASE s.is_updating_state \/ Winners(s, 0) = {}
  BY <1>2, <1>4, ChooseBlockToVote1_Safe DEF check_for_winner_block_0
<1> QED BY <1>3, <1>4

\* A vote of the first round is followed by a look at all of them.
LEMMA ChooseBlockToVote0_Safe ==
  ASSUME NEW n \in Node, NEW W, NEW s, Careful(n, s, W),
         ~ s.block_wait_timer, s.last_vote[1] # Height(s) + 1, NEW env, EnvOK(env)
  PROVE  SecondSafe(W \cup choose_block_to_vote_0(n, s, env).cast)
<1> DEFINE t == open_and_vote(n, s, 0, env)
<1>1. ASSUME ~ s.is_updating_state
      PROVE  SecondSafe(W \cup check_for_winner_block_0(n, t, env).cast)
  <2>1. Sound(n, t, W) /\ Tidy(t) /\ s.cast \subseteq t.cast
    BY <1>1, OpenAndVote_Keeps, OpenAndVote_Tidy DEF Careful, Round, Keeps
  <2>2. Ballot(n, s, t, 0)
    BY OpenAndVote_Ballot DEF Careful, Sound, Round
  <2> HIDE DEF t
  <2>3. Disciplined(t)
    BY <2>1, <2>2, BallotDisciplined DEF Careful, Sound, Round
  <2>4. SecondSafe(W \cup t.cast)
    BY <2>2, FirstBallot_Safe DEF Careful
  <2>5. Careful(n, t, W)
    BY <2>1, <2>3, <2>4 DEF Careful
  <2> QED BY <2>5, CheckForWinnerBlock0_Safe
<1> QED BY <1>1 DEF choose_block_to_vote_0, Careful

-----------------------------------------------------------------------------
(* The steps that vote *)

\* A vote of node n is one that n has cast.
LEMMA OwnVotes ==
  ASSUME Inv, NEW n \in Node
  PROVE  \A v \in SentVotes : v.voter = n => v \in node[n].cast
<1> SUFFICES ASSUME NEW m \in Node, NEW v \in node[m].cast, v.voter = n
             PROVE  v \in node[n].cast
  BY DEF SentVotes
<1>1. v.voter = m
  BY DEF Inv, Sound
<1> QED BY <1>1

\* A handler starts with all in order, when it touches no vote before it votes.
LEMMA CarefulStart ==
  ASSUME Inv, NEW n \in Node, NEW s, Sound(n, s, SentVotes), Tidy(s), Disciplined(s),
         s.cast = node[n].cast, OneVote(SentVotes), SecondSafe(SentVotes)
  PROVE  Careful(n, s, SentVotes)
<1>1. SentVotes \cup s.cast = SentVotes
  BY DEF SentVotes
<1> QED BY <1>1, OwnVotes DEF Careful

\* The node has its discipline after the step, and no second-round vote is wrong.
VotesWell(n) ==
  /\ Disciplined(node'[n]) /\ node[n].cast \subseteq node'[n].cast
  /\ OneVote(SentVotes) /\ SecondSafe(SentVotes) =>
       SecondSafe(SentVotes \cup node'[n].cast)

\* The wait timer expires before the node has voted at this height.
LEMMA OnBlockWaitTimeout_Votes ==
  ASSUME TypeOK, Inv, ChainInv, NEW n \in Node, Disciplined(node[n]),
         on_block_wait_timeout(n)
  PROVE  VotesWell(n)
<1> DEFINE q == node[n]
           s == [q EXCEPT !.block_wait_timer = FALSE, !.new_block_timer = FALSE]
<1>1. PICK env \in Environment(q) : node'[n] = choose_block_to_vote_0(n, s, env)
  BY DEF on_block_wait_timeout, Become, TypeOK
<1>2. Sound(n, q, SentVotes) /\ Tidy(q) /\ EnvOK(env) /\ q.block_wait_timer
  BY EnvironmentOK DEF Inv, ChainInv, on_block_wait_timeout
<1>3. Disciplined(q)
  OBVIOUS
<1> HIDE DEF q
<1>4. Sound(n, s, SentVotes) /\ Tidy(s) /\ s.cast = q.cast
  BY <1>2 DEF Sound, NodeState, Tidy, Listed
<1>5. Disciplined(s) /\ ~ s.block_wait_timer /\ s.last_vote[1] # Height(s) + 1
  BY <1>2, <1>3 DEF Sound, NodeState, Disciplined, Height
<1> HIDE DEF s
<1>6. Disciplined(node'[n])
  BY <1>1, <1>2, <1>4, <1>5, ChooseBlockToVote0_Disciplined
<1>7. q.cast \subseteq node'[n].cast
  BY <1>1, <1>2, <1>4, ChooseBlockToVote0_Keeps DEF Keeps
<1>8. ASSUME OneVote(SentVotes), SecondSafe(SentVotes)
      PROVE  SecondSafe(SentVotes \cup node'[n].cast)
  <2>1. Careful(n, s, SentVotes)
    BY <1>4, <1>5, <1>8, CarefulStart DEF q
  <2> QED BY <1>1, <1>2, <1>5, <2>1, ChooseBlockToVote0_Safe
<1> QED BY <1>6, <1>8, <1>7 DEF VotesWell, q

\* The node of a block has all its transactions, so it requests none.
LEMMA OnNewBlock_Votes ==
  ASSUME TypeOK, Inv, ChainInv, NEW n \in Node, Undisturbed(n), Disciplined(node[n]),
         NEW b \in SentBlocks, on_new_block(n, b)
  PROVE  VotesWell(n)
<1> DEFINE q == node[n]
           missing == Head1(b).txns \ q.mempool
           t == [q EXCEPT !.new_blocks = @ \cup {b}, !.requested = @ \cup missing]
           u == start_block_wait_timer(t)
<1>1. PICK env \in Environment(t) :
        node'[n] = IF Len(b) > Height(q) + 1 THEN request_state_update(t)
                   ELSE IF missing # {} THEN u
                   ELSE check_for_winner_block_0(n, u, env)
  BY DEF on_new_block, Become, TypeOK
<1>2. /\ Sound(n, q, SentVotes) /\ Tidy(q) /\ EnvOK(env) /\ Disciplined(q)
      /\ {n} \X missing \subseteq Late
  BY EnvironmentOK DEF Inv, ChainInv, on_new_block
<1>3. b \in Block /\ Once(b)
  BY SentIsTyped DEF SentBlocks, ChainInv, Tidy, Listed
<1> HIDE DEF q, missing
<1>4. missing = {}
  <2>1. \A x \in missing : <<n, x>> \in Late
    BY <1>2
  <2>2. \A x : <<n, x>> \notin Late
    BY FaultAssumption DEF Undisturbed
  <2> QED BY <2>1, <2>2
<1>5. /\ Sound(n, t, SentVotes) /\ Tidy(t) /\ Disciplined(t) /\ t.cast = q.cast
      /\ t \in NodeState
  BY <1>2, <1>3, <1>4 DEF Sound, NodeState, Tidy, Listed, Disciplined, Height
<1> HIDE DEF t
<1>6. /\ Sound(n, u, SentVotes) /\ Tidy(u)
  BY <1>5, StartBlockWaitTimer_Keeps, Timers_Tidy DEF Keeps
<1>7. Disciplined(u) /\ u.cast = q.cast
  BY <1>5 DEF start_block_wait_timer, Disciplined, Height, NodeState
<1>8. Disciplined(request_state_update(t)) /\ request_state_update(t).cast = q.cast
  BY <1>5 DEF request_state_update, Disciplined, Height, NodeState
<1> HIDE DEF u
<1>9. Disciplined(node'[n])
  BY <1>1, <1>2, <1>6, <1>7, <1>8, CheckForWinnerBlock0_Disciplined
<1>10. q.cast \subseteq node'[n].cast
  BY <1>1, <1>2, <1>5, <1>6, <1>7, <1>8, CheckForWinnerBlock0_Keeps DEF Keeps
<1>11. ASSUME OneVote(SentVotes), SecondSafe(SentVotes)
       PROVE  SecondSafe(SentVotes \cup node'[n].cast)
  <2>1. Careful(n, u, SentVotes)
    BY <1>6, <1>7, <1>11, CarefulStart DEF q
  <2>2. SentVotes \cup q.cast = SentVotes
    BY DEF SentVotes, q
  <2> QED BY <1>1, <1>2, <1>7, <1>8, <1>11, <2>1, <2>2, CheckForWinnerBlock0_Safe
<1> QED BY <1>9, <1>10, <1>11 DEF VotesWell, q

\* A vote that arrives may decide the first round, or end it.
LEMMA OnBlockVote_Votes ==
  ASSUME TypeOK, Inv, ChainInv, NEW n \in Node, Disciplined(node[n]),
         NEW v \in SentVotes, on_block_vote(n, v)
  PROVE  VotesWell(n)
<1> DEFINE q == node[n]
           t == [q EXCEPT !.votes = @ \cup {v}]
<1>1. PICK env \in Environment(t) :
        node'[n] = IF v.block \notin q.new_blocks
                   THEN IF Len(v.block) > Height(q) + 1 THEN request_state_update(t) ELSE t
                   ELSE IF v.round = 0 THEN check_for_winner_block_0(n, t, env)
                   ELSE check_for_winner_block_1(t, env)
  BY DEF on_block_vote, Become, TypeOK
<1>2. /\ Sound(n, q, SentVotes) /\ Tidy(q) /\ EnvOK(env) /\ Disciplined(q)
      /\ v \in VoteSet
  BY EnvironmentOK, SentIsTyped DEF Inv, ChainInv
<1> HIDE DEF q
<1>3. /\ Sound(n, t, SentVotes) /\ Tidy(t) /\ Disciplined(t) /\ t.cast = q.cast
      /\ t \in NodeState
  BY <1>2 DEF Sound, NodeState, Tidy, Listed, Disciplined, Height
<1> HIDE DEF t
<1>4. Disciplined(request_state_update(t)) /\ request_state_update(t).cast = q.cast
  BY <1>3 DEF request_state_update, Disciplined, Height, NodeState
<1>5. /\ Disciplined(check_for_winner_block_0(n, t, env))
      /\ Disciplined(check_for_winner_block_1(t, env))
      /\ check_for_winner_block_1(t, env).cast = q.cast
  BY <1>2, <1>3, CheckForWinnerBlock0_Disciplined, CheckForWinnerBlock1_Disciplined
<1>6. Disciplined(node'[n])
  BY <1>1, <1>3, <1>4, <1>5
<1>7. q.cast \subseteq node'[n].cast
  BY <1>1, <1>2, <1>3, <1>4, <1>5, CheckForWinnerBlock0_Keeps DEF Keeps
<1>8. ASSUME OneVote(SentVotes), SecondSafe(SentVotes)
      PROVE  SecondSafe(SentVotes \cup node'[n].cast)
  <2>1. Careful(n, t, SentVotes)
    BY <1>3, <1>8, CarefulStart DEF q
  <2>2. SentVotes \cup q.cast = SentVotes
    BY DEF SentVotes, q
  <2> QED BY <1>1, <1>2, <1>3, <1>4, <1>5, <1>8, <2>1, <2>2, CheckForWinnerBlock0_Safe
<1> QED BY <1>6, <1>8, <1>7 DEF VotesWell, q

\* A step that casts no vote changes no part of it.
LEMMA QuietVotesWell ==
  ASSUME TypeOK, TypeOK', OneMoves, NEW n \in Node, Disciplined(node[n]),
         Quiet(node[n], node'[n])
  PROVE  VotesWell(n)
<1>1. Disciplined(node'[n])
  BY QuietDisciplined
<1>2. node'[n].cast = node[n].cast /\ SentVotes \cup node[n].cast = SentVotes
  BY DEF Quiet, SentVotes
<1> QED BY <1>1, <1>2 DEF VotesWell

\* The steps of Next that node k makes, or is served.
StepOf(k) ==
  \/ \E t \in Txn : send_local_transactions(k, t)
  \/ \E t \in Txn : on_new_remote_transaction(k, t)
  \/ \E t \in Txn : request_transaction_finished(k, t)
  \/ new_block_timer_cb(k)
  \/ on_block_wait_timeout(k)
  \/ \E b \in SentBlocks : on_new_block(k, b)
  \/ \E v \in SentVotes : on_block_vote(k, v)
  \/ process_transactions_timer_cb(k)
  \/ \E m \in Node : on_request_state_update(m, k)
  \/ on_update_db_page(k)
  \/ on_apply_state_update(k)
  \/ on_state_update_node_timeout(k)
  \/ plugin_init(k)

\* A step changes one node, but for the peer that serves an update.
LEMMA StepIsOfOneNode ==
  ASSUME NEW k \in Node, StepOf(k)
  PROVE  (\E s : Become(k, s)) \/ \E m \in Node : on_request_state_update(m, k)
BY DEF StepOf, send_local_transactions, on_new_remote_transaction,
   request_transaction_finished, new_block_timer_cb, on_block_wait_timeout,
   on_new_block, on_block_vote, process_transactions_timer_cb, on_update_db_page,
   on_apply_state_update, on_state_update_node_timeout, plugin_init

\* In every step a disciplined node that is not disturbed votes well, whatever
\* the other nodes do.
LEMMA DisciplineNext ==
  ASSUME TypeOK, Inv, ChainInv, Next, NEW n \in Node, Undisturbed(n), Disciplined(node[n])
  PROVE  VotesWell(n)
<1>1. TypeOK' /\ OneMoves
  BY InvNext, ChainNext
<1>2. CASE Quiet(node[n], node'[n])
  BY <1>1, <1>2, QuietVotesWell
<1>3. ASSUME \/ \E t \in Txn : send_local_transactions(n, t) \/ on_new_remote_transaction(n, t)
             \/ \E t \in Txn : request_transaction_finished(n, t)
             \/ new_block_timer_cb(n)
             \/ process_transactions_timer_cb(n)
             \/ on_update_db_page(n)
             \/ on_apply_state_update(n)
             \/ on_state_update_node_timeout(n)
             \/ plugin_init(n)
             \/ \E k, m \in Node : on_request_state_update(m, k)
      PROVE  VotesWell(n)
  BY <1>2, <1>3, NewTransaction_Quiet, NewBlockTimerCb_Quiet, StateUpdate_Quiet,
     OnRequestStateUpdate_Quiet
<1>4. ASSUME \/ on_block_wait_timeout(n)
             \/ \E b \in SentBlocks : on_new_block(n, b)
             \/ \E v \in SentVotes : on_block_vote(n, v)
      PROVE  VotesWell(n)
  BY <1>4, OnBlockWaitTimeout_Votes, OnNewBlock_Votes, OnBlockVote_Votes
<1>5. ASSUME NEW k \in Node, k # n, NEW s, Become(k, s)
      PROVE  VotesWell(n)
  <2>1. node'[n] = node[n]
    BY <1>5 DEF Become, TypeOK
  <2> QED BY <1>2, <2>1 DEF Quiet
<1>6. PICK k \in Node : StepOf(k)
  BY DEF Next, StepOf
<1>7. (\E s : Become(k, s)) \/ \E m \in Node : on_request_state_update(m, k)
  BY <1>6, StepIsOfOneNode
<1> QED BY <1>3, <1>4, <1>5, <1>6, <1>7 DEF StepOf

\* One node at most votes in a step.
LEMMA OneCasts ==
  ASSUME TypeOK, Next
  PROVE  \E k \in Node : \A m \in Node \ {k} : node'[m].cast = node[m].cast
<1>1. ASSUME NEW k \in Node, NEW s, Become(k, s)
      PROVE  \A m \in Node \ {k} : node'[m].cast = node[m].cast
  BY <1>1 DEF Become, TypeOK
<1>2. ASSUME NEW n \in Node, NEW m \in Node, on_request_state_update(m, n)
      PROVE  \A k \in Node : node'[k].cast = node[k].cast
  BY <1>2, OnRequestStateUpdate_Quiet DEF Quiet
<1>3. PICK k \in Node : StepOf(k)
  BY DEF Next, StepOf
<1> QED BY <1>1, <1>2, <1>3, StepIsOfOneNode

-----------------------------------------------------------------------------
(* Discipline *)

AllUndisturbed == \A n \in Node : Undisturbed(n)

\* The inductive invariant of the votes: every node is disciplined, and no vote
\* of the second round is wrong.
VotingInv == (\A n \in Node : Disciplined(node[n])) /\ SecondSafe(SentVotes)

\* No node has voted at the start.
LEMMA DisciplinedInit ==
  ASSUME Init, NEW n \in Node
  PROVE  Disciplined(node[n]) /\ node[n].cast = {}
<1>1. node[n] = Start(0)
  BY DEF Init
<1>2. Height(Start(0)) = 1
  BY DEF Start, Genesis, Height
<1>3. /\ Start(0).requested = {} /\ Start(0).last_vote = <<0, 0>>
      /\ Start(0).block_wait_timer = FALSE /\ Start(0).cast = {}
  BY DEF Start
<1> QED BY <1>1, <1>2, <1>3 DEF Disciplined, SingleVotes

\* So no vote was sent.
LEMMA VotingInvInit == Init => VotingInv
<1> SUFFICES ASSUME Init PROVE VotingInv
  OBVIOUS
<1>1. SentVotes = {}
  BY DisciplinedInit DEF SentVotes
<1> QED BY <1>1, DisciplinedInit DEF VotingInv, SecondSafe

\* Disciplined nodes have one vote each among all the votes that were sent.
LEMMA DisciplineGivesOneVote ==
  ASSUME Inv, \A n \in Node : Disciplined(node[n])
  PROVE  OneVote(SentVotes) /\ OneVotePerRound
<1>1. OneVotePerRound
  BY DEF Disciplined, SingleVotes, OneVotePerRound
<1>2. ASSUME NEW m \in Node, NEW v \in node[m].cast,
             NEW n \in Node, NEW w \in node[n].cast,
             v.voter = w.voter, Len(v.block) = Len(w.block), v.round = w.round
      PROVE  v.block = w.block
  <2>1. v.voter = m /\ w.voter = n
    BY DEF Inv, Sound
  <2>2. v \in node[m].cast /\ w \in node[m].cast
    BY <1>2, <2>1
  <2> QED BY <1>1, <1>2, <2>2 DEF OneVotePerRound
<1> QED BY <1>1, <1>2 DEF OneVote, SentVotes

\* A step in which every node votes well keeps the second round safe.
LEMMA VotingInvNext ==
  ASSUME AllUndisturbed, TypeOK, Inv, ChainInv, VotingInv, [Next]_node
  PROVE  VotingInv'
<1>1. CASE UNCHANGED node
  BY <1>1 DEF VotingInv, SentVotes
<1>2. CASE Next
  <2>1. \A n \in Node : VotesWell(n)
    BY <1>2, DisciplineNext DEF AllUndisturbed, VotingInv
  <2>2. PICK k \in Node : \A m \in Node \ {k} : node'[m].cast = node[m].cast
    BY <1>2, OneCasts
  <2>3. SentVotes' = SentVotes \cup node'[k].cast
    BY <2>1, <2>2 DEF SentVotes, VotesWell
  <2>4. SecondSafe(SentVotes \cup node'[k].cast)
    BY <2>1, DisciplineGivesOneVote DEF VotesWell, VotingInv
  <2> QED BY <2>1, <2>3, <2>4 DEF VotesWell, VotingInv
<1> QED BY <1>1, <1>2

\* What is safe for the votes that were sent is what the property says.
LEMMA VotingInvImpliesSecondRoundSafe ==
  ASSUME TypeOK, Inv, VotingInv
  PROVE  SecondRoundSafe
<1> SUFFICES ASSUME NEW v \in SentVotes, NEW w \in SentVotes,
                    v.round = 1, Len(w.block) = Len(v.block)
             PROVE  Cardinality(MayVoteFirst(w.block)) < Majority
  BY DEF SecondRoundSafe
<1>1. w.block \in Block
  BY SentIsTyped DEF VoteSet
<1>2. Cardinality(MayFirst(SentVotes, w.block)) < Majority
  BY <1>1 DEF VotingInv, SecondSafe
<1>3. MayVoteFirst(w.block) \subseteq MayFirst(SentVotes, w.block)
  BY OwnVotes DEF MayVoteFirst, MayFirst
<1>4. MayFirst(SentVotes, w.block) \in SUBSET Node
  BY DEF MayFirst
<1>5. /\ Cardinality(MayVoteFirst(w.block)) <= Cardinality(MayFirst(SentVotes, w.block))
      /\ Cardinality(MayVoteFirst(w.block)) \in Nat
      /\ Cardinality(MayFirst(SentVotes, w.block)) \in Nat
  BY <1>3, <1>4, NodeSets
<1> QED BY <1>2, <1>5, MajorityIsMoreThanHalf

\* A node that is not restarted, and gets every transaction before a block names
\* it, votes for at most one block of a height in each round, whatever becomes of
\* the other nodes: the height and round of its last vote are enough to remember.
THEOREM UndisturbedVotesOnce ==
  ASSUME NEW n \in Node, Undisturbed(n)
  PROVE  Spec => [](\A v, w \in node[n].cast :
           Len(v.block) = Len(w.block) /\ v.round = w.round => v.block = w.block)
<1> DEFINE D == Disciplined(node[n])
           S == \A v, w \in node[n].cast :
                  Len(v.block) = Len(w.block) /\ v.round = w.round => v.block = w.block
<1>1. Init => D
  BY DisciplinedInit
<1>2. D => S
  BY DEF Disciplined, SingleVotes
<1>3. TypeOK /\ Inv /\ ChainInv /\ D /\ [Next]_node => D'
  <2>1. CASE UNCHANGED node
    BY <2>1
  <2>2. CASE Next
    BY <2>2, DisciplineNext DEF VotesWell
  <2> QED BY <2>1, <2>2
<1> HIDE DEF D, S
<1>4. Spec => []S
  BY <1>1, <1>2, <1>3, InitTypeOK, InvInit, ChainInvInit, ChainInvNext, PTL DEF Spec
<1> QED BY <1>4 DEF S

\* The invariants of a network of which no node is disturbed.
LEMMA VotingInvariant ==
  ASSUME AllUndisturbed
  PROVE  Spec => [](TypeOK /\ Inv /\ ChainInv /\ VotingInv)
<1>1. TypeOK /\ Inv /\ ChainInv /\ VotingInv /\ [Next]_node => VotingInv'
  BY VotingInvNext
<1> QED BY <1>1, InitTypeOK, InvInit, ChainInvInit, ChainInvNext, VotingInvInit, PTL
    DEF Spec

\* A node votes for at most one block of a height in each round.
THEOREM VotesOnce ==
  ASSUME AllUndisturbed
  PROVE  Spec => []OneVotePerRound
<1>1. TypeOK /\ Inv /\ ChainInv /\ VotingInv => OneVotePerRound
  BY DisciplineGivesOneVote DEF VotingInv
<1> QED BY <1>1, VotingInvariant, PTL

\* When a node votes in the second round, no block of this height can get a
\* majority in the first any more, although the node knows only some of the votes.
THEOREM SecondRoundIsSafe ==
  ASSUME AllUndisturbed
  PROVE  Spec => []SecondRoundSafe
<1>1. TypeOK /\ Inv /\ ChainInv /\ VotingInv => SecondRoundSafe
  BY VotingInvImpliesSecondRoundSafe
<1> QED BY <1>1, VotingInvariant, PTL

\* No two nodes commit different blocks at the same height, whatever fails, with
\* any wait times and in any order of messages.
THEOREM NodesAgree ==
  ASSUME AllUndisturbed
  PROVE  Spec => []Agreement
<1>1. TypeOK /\ Inv /\ ChainInv /\ VotingInv => Agreement
  BY DisciplineGivesOneVote, VotingInvImpliesSecondRoundSafe, VotingRulesGiveAgreement
     DEF VotingInv
<1> QED BY <1>1, VotingInvariant, PTL

-----------------------------------------------------------------------------
(* One ledger *)

\* All chains with majorities among the votes V agree where both have a block.
Agreeing(V) ==
  \A b, c \in Block : Certified(V, b) /\ Certified(V, c) =>
    \A h \in Nat : 1 <= h /\ h <= Len(b) /\ h <= Len(c) => b[h] = c[h]

\* Some node has the longest chain.
HasLongest == \E m \in Node : \A n \in Node : Len(node[n].chain) <= Len(node[m].chain)

\* The ledger is the chain of every node that has the longest one.
LongestIsLedger ==
  \A m \in Node : (\A n \in Node : Len(node[n].chain) <= Len(node[m].chain))
                    => LongestChain = node[m].chain

\* What the rules on the votes give for all chains, those of a later state included.
LEMMA VotingInvImpliesAgreeing ==
  TypeOK /\ Inv /\ VotingInv => Agreeing(SentVotes)
BY DisciplineGivesOneVote, VotingInvImpliesSecondRoundSafe, CertifiedChainsAgree
   DEF VotingInv, Agreeing

\* A chain that agrees with a longer one is the beginning of it.
LEMMA BeginningOfChain ==
  ASSUME NEW b \in Block, NEW c \in Block, Len(b) <= Len(c),
         \A h \in Nat : 1 <= h /\ h <= Len(b) /\ h <= Len(c) => b[h] = c[h]
  PROVE  SubSeq(c, 1, Len(b)) = b
<1> DEFINE k == Len(b)
           p == SubSeq(c, 1, k)
<1>1. k \in Nat /\ 1 \in Int /\ Len(c) \in Nat /\ k <= Len(c)
  BY LenProperties DEF Block
<1>2. \A i \in 1 .. k : c[i] \in Body
  BY <1>1, ElementOfSeq DEF Block
<1>3. \A i \in 1 .. k : b[i] = c[i]
  BY <1>1
<1> HIDE DEF k
<1>4. /\ p \in Seq(Body)
      /\ Len(p) = IF 1 <= k THEN k - 1 + 1 ELSE 0
      /\ \A i \in 1 .. k - 1 + 1 : p[i] = c[1 + i - 1]
  BY <1>1, <1>2, SubSeqProperties
<1>5. Len(p) = k
  BY <1>1, <1>4
<1>6. \A i \in 1 .. k : p[i] = c[i]
  BY <1>1, <1>4
<1> HIDE DEF p
<1>7. p = b
  BY <1>3, <1>4, <1>5, <1>6, SeqEqual DEF Block, k
<1> QED BY <1>7 DEF p, k

\* The votes that were sent stay in the network.
LEMMA SentVotesGrow ==
  ASSUME AllUndisturbed, TypeOK, Inv, ChainInv, VotingInv, Next
  PROVE  SentVotes \subseteq SentVotes'
<1>1. \A n \in Node : node[n].cast \subseteq node'[n].cast
  BY DisciplineNext DEF AllUndisturbed, VotingInv, VotesWell
<1> QED BY <1>1 DEF SentVotes

\* The chain of a node after a step continues the one it had.
LEMMA ChainsContinue ==
  ASSUME AllUndisturbed, TypeOK, Inv, ChainInv, VotingInv, Next,
         TypeOK', Inv', Agreeing(SentVotes)', NEW n \in Node
  PROVE  /\ Len(node[n].chain) <= Len(node'[n].chain)
         /\ SubSeq(node'[n].chain, 1, Len(node[n].chain)) = node[n].chain
<1> DEFINE b == node[n].chain
           c == node'[n].chain
           V == SentVotes'
<1>1. b \in Block /\ Certified(SentVotes, b)
  BY ChainsAreCertified
<1>2. c \in Block /\ Certified(V, c)
  <2>1. V \cup node'[n].cast = V
    BY DEF SentVotes
  <2>2. Certified(V \cup node'[n].cast, c) /\ c \in Block
    BY DEF Inv, Sound, TypeOK, NodeState
  <2> QED BY <2>1, <2>2
<1>3. Certified(V, b)
  BY <1>1, SentVotesGrow, CertifiedMonotonic
<1>4. Len(b) <= Len(c)
  BY ChainNext, ChainsGrow
<1>5. Agreeing(V)
  OBVIOUS
<1> HIDE DEF b, c, V
<1>6. SubSeq(c, 1, Len(b)) = b
  BY <1>1, <1>2, <1>3, <1>4, <1>5, BeginningOfChain DEF Agreeing
<1> QED BY <1>4, <1>6 DEF b, c

\* Nothing a node has committed is ever replaced, by a commit or a state update.
THEOREM CommittedForEver ==
  ASSUME AllUndisturbed
  PROVE  Spec => Finality
<1> DEFINE F == \A n \in Node :
                  /\ Len(node[n].chain) <= Len(node'[n].chain)
                  /\ SubSeq(node'[n].chain, 1, Len(node[n].chain)) = node[n].chain
           I == TypeOK /\ Inv /\ ChainInv /\ VotingInv
<1>1. I => Agreeing(SentVotes)
  BY VotingInvImpliesAgreeing
<1>2. I /\ I' /\ Agreeing(SentVotes)' /\ [Next]_node => [F]_node
  BY ChainsContinue
<1>3. Spec => []I
  BY VotingInvariant
<1> HIDE DEF F, I
<1>4. Spec => [][F]_node
  BY <1>1, <1>2, <1>3, PTL DEF Spec
<1> QED BY <1>4 DEF F, Finality

\* At the start every node has the longest chain.
LEMMA HasLongestInit == Init => HasLongest
<1> SUFFICES ASSUME Init PROVE HasLongest
  OBVIOUS
<1>1. \A n \in Node : node[n].chain = Genesis
  BY DEF Init, Start
<1>2. Len(Genesis) <= Len(Genesis)
  BY DEF Genesis
<1> QED BY <1>1, <1>2, NodeAssumption DEF HasLongest

\* The chain that grows in a step may become the longest.
LEMMA HasLongestNext ==
  ASSUME TypeOK, TypeOK', OneMoves, HasLongest
  PROVE  HasLongest'
<1> DEFINE old(n) == Len(node[n].chain)
           new(n) == Len(node'[n].chain)
<1>1. PICK m \in Node : \A n \in Node : old(n) <= old(m)
  BY DEF HasLongest
<1>2. PICK k \in Node : \A n \in Node \ {k} : new(n) = old(n)
  BY DEF OneMoves
<1>3. \A n \in Node : old(n) \in Nat /\ new(n) \in Nat /\ old(n) <= new(n)
  BY ChainsGrow
<1> SUFFICES \E l \in Node : \A n \in Node : new(n) <= new(l)
  BY DEF HasLongest
<1> HIDE DEF old, new
<1>4. \A n \in Node \ {k} : new(n) <= new(m)
  BY <1>1, <1>2, <1>3
<1>5. CASE new(k) <= new(m)
  BY <1>4, <1>5
<1>6. CASE new(m) <= new(k)
  BY <1>3, <1>4, <1>6
<1> QED BY <1>3, <1>5, <1>6

\* Under agreement there is one longest chain, whichever nodes have it.
LEMMA OneLongestChain ==
  TypeOK /\ Inv /\ Agreeing(SentVotes) => LongestIsLedger
<1> SUFFICES ASSUME TypeOK, Inv, Agreeing(SentVotes), NEW m \in Node,
                    \A n \in Node : Len(node[n].chain) <= Len(node[m].chain)
             PROVE  LongestChain = node[m].chain
  BY DEF LongestIsLedger
<1> DEFINE S == {node[n].chain : n \in Node}
           P(c) == \A n \in Node : Len(node[n].chain) <= Len(c)
           l == LongestChain
<1>1. node[m].chain \in S /\ P(node[m].chain)
  OBVIOUS
<1>2. l \in S /\ P(l)
  BY <1>1 DEF LongestChain
<1>3. PICK k \in Node : l = node[k].chain
  BY <1>2
<1> HIDE DEF l
<1>4. /\ l \in Block /\ Certified(SentVotes, l)
      /\ node[m].chain \in Block /\ Certified(SentVotes, node[m].chain)
  BY <1>3, ChainsAreCertified
<1>5. Len(l) = Len(node[m].chain) /\ Len(l) \in Nat
  <2>1. Len(l) <= Len(node[m].chain) /\ Len(node[m].chain) <= Len(l)
    BY <1>2, <1>3
  <2> QED BY <1>4, <2>1, LenProperties DEF Block
<1>6. \A h \in 1 .. Len(l) : l[h] = node[m].chain[h]
  BY <1>4, <1>5 DEF Agreeing
<1>7. l = node[m].chain
  BY <1>4, <1>5, <1>6, SeqEqual DEF Block
<1> QED BY <1>7 DEF l

\* A chain that gets no longer than the longest one is learned from the ledger.
LEMMA LearnStep ==
  ASSUME TypeOK, TypeOK', LongestIsLedger, LongestIsLedger',
         NEW m \in Node, \A n \in Node : Len(node[n].chain) <= Len(node[m].chain),
         NEW k \in Node, \A n \in Node \ {k} : node'[n].chain = node[n].chain,
         Len(node[k].chain) < Len(node'[k].chain),
         Len(node'[k].chain) <= Len(node[m].chain)
  PROVE  L!Next
<1> DEFINE old(n) == Len(node[n].chain)
           new(n) == Len(node'[n].chain)
           l == node[m].chain
<1>1. \A n \in Node : old(n) \in Nat /\ new(n) \in Nat
  BY LenProperties DEF TypeOK, NodeState, Block
<1>2. m # k /\ node'[m].chain = l
  BY <1>1
<1>3. LongestChain = l
  BY DEF LongestIsLedger
<1>4. \A n \in Node : new(n) <= new(m)
  BY <1>2
<1>5. LongestChain' = l
  <2>1. \A n \in Node : Len(node'[n].chain) <= Len(node'[m].chain)
    BY <1>4
  <2> QED BY <1>2, <2>1 DEF LongestIsLedger
<1>6. /\ [n \in Node |-> old(n)][k] < new(k)
      /\ [n \in Node |-> new(n)] = [[n \in Node |-> old(n)] EXCEPT ![k] = new(k)]
  OBVIOUS
<1>7. new(k) \in 1 .. Len(l)
  BY <1>1
<1> QED BY <1>3, <1>5, <1>6, <1>7 DEF L!Next, L!Learn

\* The node with the longest chain adds a block of new transactions to the ledger.
LEMMA ExtendStep ==
  ASSUME TypeOK, TypeOK', ChainInv', LongestIsLedger, LongestIsLedger', NEW k \in Node,
         \A n \in Node : Len(node[n].chain) <= Len(node[k].chain),
         \A n \in Node \ {k} : node'[n].chain = node[n].chain,
         Extends(node'[k].chain, node[k].chain)
  PROVE  L!Next
<1> DEFINE old(n) == Len(node[n].chain)
           new(n) == Len(node'[n].chain)
           l == node[k].chain
           c == node'[k].chain
<1>1. \A n \in Node : old(n) \in Nat /\ new(n) \in Nat
  BY LenProperties DEF TypeOK, NodeState, Block
<1>2. l \in Block /\ c \in Block /\ Extends(c, l) /\ Once(c)
  BY DEF TypeOK, NodeState, ChainInv, Tidy, Listed
<1>3. LongestChain = l
  BY DEF LongestIsLedger
<1> HIDE DEF l, c
<1>4. Len(c) = Len(l) + 1 /\ Len(l) \in Nat
  BY <1>2, ExtendsIsLonger
<1>5. LongestChain' = c
  <2>1. \A n \in Node : Len(node'[n].chain) <= Len(node'[k].chain)
    BY <1>1, <1>4 DEF l, c
  <2> QED BY <2>1 DEF c, LongestIsLedger
<1>6. Head1(c) \in Body /\ c = Append(l, Head1(c)) /\ \A i \in DOMAIN l : c[i] = l[i]
  <2>1. Len(c) \in 1 .. Len(c) /\ Len(c) >= 1
    BY <1>4
  <2>2. Head1(c) \in Body
    BY <1>2, <2>1, ElementOfSeq DEF Block, Head1
  <2>3. \A i \in 1 .. Len(l) : c[i] = l[i]
    BY <1>2, <1>4, <2>1, ParentProperties DEF Extends
  <2>4. DOMAIN l = 1 .. Len(l)
    BY <1>2, LenProperties DEF Block
  <2> DEFINE d == Append(l, Head1(c))
  <2>5. d \in Block /\ Len(d) = Len(l) + 1 /\ d[Len(l) + 1] = Head1(c)
        /\ \A i \in 1 .. Len(l) : d[i] = l[i]
    BY <1>2, <1>4, <2>2 DEF Block
  <2> HIDE DEF d
  <2>6. \A i \in 1 .. Len(c) : c[i] = d[i]
    BY <1>4, <2>3, <2>5 DEF Head1
  <2>7. c = d
    BY <1>2, <1>4, <2>5, <2>6, SeqEqual DEF Block
  <2> QED BY <2>2, <2>3, <2>4, <2>7 DEF d
<1>7. \A i \in DOMAIN l : l[i].txns \cap Head1(c).txns = {}
  <2>1. DOMAIN l = 1 .. Len(l) /\ DOMAIN c = 1 .. Len(c)
    BY <1>2, LenProperties DEF Block
  <2>2. \A i \in DOMAIN l : i \in DOMAIN c /\ Len(c) \in DOMAIN c /\ i # Len(c)
    BY <1>4, <2>1
  <2> QED BY <1>2, <1>6, <2>2 DEF Once, Head1
<1>8. /\ [n \in Node |-> old(n)][k] = Len(l)
      /\ [n \in Node |-> new(n)] = [[n \in Node |-> old(n)] EXCEPT ![k] = Len(l) + 1]
  BY <1>4 DEF l, c
<1> QED BY <1>3, <1>5, <1>6, <1>7, <1>8 DEF L!Next, L!Extend

\* Every step of the nodes is one of the ledger, or none.
LEMMA LedgerStep ==
  ASSUME TypeOK, TypeOK', ChainInv, ChainInv', OneMoves, HasLongest,
         LongestIsLedger, LongestIsLedger'
  PROVE  [L!Next]_<<LongestChain, [n \in Node |-> Len(node[n].chain)]>>
<1>1. PICK m \in Node : \A n \in Node : Len(node[n].chain) <= Len(node[m].chain)
  BY DEF HasLongest
<1>2. PICK k \in Node : /\ Moves(node[k], node'[k])
                        /\ \A n \in Node \ {k} : node'[n].chain = node[n].chain
  BY DEF OneMoves
<1> DEFINE old(n) == Len(node[n].chain)
           new(n) == Len(node'[n].chain)
<1>3. \A n \in Node : old(n) \in Nat /\ new(n) \in Nat /\ node[n].chain \in Block
  BY LenProperties DEF TypeOK, NodeState, Block
<1>4. CASE node'[k].chain = node[k].chain
  <2>1. \A n \in Node : node'[n].chain = node[n].chain
    BY <1>2, <1>4
  <2>2. LongestChain' = node'[m].chain /\ LongestChain = node[m].chain
    BY <1>1, <2>1 DEF LongestIsLedger
  <2> QED BY <2>1, <2>2
<1>5. CASE old(k) < new(k) /\ new(k) <= old(m)
  BY <1>1, <1>2, <1>5, LearnStep
<1>6. CASE Extends(node'[k].chain, node[k].chain)
  <2>1. new(k) = old(k) + 1
    BY <1>3, <1>6, ExtendsIsLonger
  <2>2. CASE old(k) = old(m)
    BY <1>1, <1>2, <1>6, <2>2, ExtendStep
  <2>3. CASE old(k) # old(m)
    <3>1. old(k) <= old(m)
      BY <1>1
    <3>2. old(k) < new(k) /\ new(k) <= old(m)
      <4>1. old(k) \in Nat /\ old(m) \in Nat
        BY <1>3
      <4> HIDE DEF old, new
      <4> QED BY <2>1, <2>3, <3>1, <4>1
    <3> QED BY <1>5, <3>2
  <2> QED BY <2>2, <2>3
<1>7. CASE node'[k].chain = node[k].update /\ Len(node[k].update) > old(k)
  <2>1. PICK p \in Node : Len(node[k].update) <= old(p)
    BY DEF ChainInv, Served
  <2>2. new(k) <= old(p) /\ old(p) <= old(m) /\ old(k) < new(k)
    BY <1>1, <1>3, <1>7, <2>1
  <2>3. old(p) \in Nat /\ old(m) \in Nat /\ new(k) \in Nat
    BY <1>3
  <2> HIDE DEF old, new
  <2>4. old(k) < new(k) /\ new(k) <= old(m)
    BY <2>2, <2>3
  <2> QED BY <1>5, <2>4
<1> QED BY <1>2, <1>4, <1>6, <1>7 DEF Moves

\* The nodes start with the first block only, as the ledger does.
LEMMA LedgerInit == Init => L!Init
<1> SUFFICES ASSUME Init PROVE L!Init
  OBVIOUS
<1>1. \A n \in Node : node[n].chain = Genesis
  BY DEF Init, Start
<1>2. {node[n].chain : n \in Node} = {Genesis}
  BY <1>1, NodeAssumption
<1>3. \A n \in Node : Len(node[n].chain) <= Len(Genesis)
  <2>1. Len(Genesis) <= Len(Genesis)
    BY DEF Genesis
  <2> QED BY <1>1, <2>1
<1>4. LongestChain = Genesis
  BY <1>2, <1>3 DEF LongestChain
<1> QED BY <1>1, <1>4 DEF L!Init

\* The nodes implement one ledger, which only grows, takes in every transaction
\* once, and of which each node executes a prefix.
THEOREM NodesImplementLedger ==
  ASSUME AllUndisturbed
  PROVE  Spec => ImplementsLedger
<1> DEFINE I == TypeOK /\ Inv /\ ChainInv /\ VotingInv
           v == <<LongestChain, [n \in Node |-> Len(node[n].chain)]>>
           U == LongestIsLedger
<1>1. Spec => []I
  BY VotingInvariant
<1>2. I => U
  BY VotingInvImpliesAgreeing, OneLongestChain
<1>3. I /\ I' /\ HasLongest /\ [Next]_node => HasLongest'
  BY ChainNext, HasLongestNext DEF HasLongest
<1>4. I /\ I' /\ HasLongest /\ U /\ U' /\ [Next]_node => [L!Next]_v
  <2> SUFFICES ASSUME I, I', HasLongest, U, U', [Next]_node
               PROVE  [L!Next]_v
    OBVIOUS
  <2>1. CASE Next
    BY <2>1, ChainNext, LedgerStep
  <2>2. CASE UNCHANGED node
    BY <2>2 DEF LongestChain
  <2> QED BY <2>1, <2>2
<1> HIDE DEF I, U, v
<1>5. Spec => L!Init /\ [][L!Next]_v
  BY <1>1, <1>2, <1>3, <1>4, LedgerInit, HasLongestInit, PTL DEF Spec
<1> QED BY <1>5, PTL DEF v, ImplementsLedger, L!Spec
=============================================================================
