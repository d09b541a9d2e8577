-------------------------- MODULE NodeThreadProofs --------------------------
(***************************************************************************)
(* For any number of transactions: the worker thread finds no command when *)
(* it stops, and the plugin is released after the thread returned.  The    *)
(* invariant says where one thread can be while the other is at a place:   *)
(* the exit command is the last one, and the thread leaves its loop only   *)
(* because of it or because it could not start.                            *)
(***************************************************************************)
EXTENDS NodeThread, TLAPS, SequenceTheorems

Starting == {"none", "created", "binding", "loading"}
Looping == {"running", "processing"}
Leaving == {"leaving", "closing", "loop closed", "returned"}

\* The thread has no command, and gets none, before it is active.
StartInv ==
  /\ app.pc = "opening" <=> worker.pc = "none"
  /\ worker.pc \in Starting =>
       /\ worker_cb.queue = <<>> /\ ~ worker.stop /\ ~ worker.failed
       /\ app.pc \notin {"sending", "signaling", "joining"}

\* The application sends to a thread that is in its loop.
SendInv ==
  app.pc = "sending" \/ (app.pc = "signaling" /\ app.cmd # WORKER_THREAD_EXIT) =>
    worker.pc \in Looping /\ ~ worker.stop

\* The exit command is the last one.
ExitInv ==
  /\ app.cmd = WORKER_THREAD_EXIT => app.pc \in {"waiting", "sending", "signaling", "joining", "closed"}
  /\ app.pc \in {"waiting", "joining", "closed"} => app.cmd = WORKER_THREAD_EXIT
  /\ \A i \in 1 .. Len(worker_cb.queue) : worker_cb.queue[i] = WORKER_THREAD_EXIT =>
       /\ i = Len(worker_cb.queue)
       /\ app.cmd = WORKER_THREAD_EXIT /\ app.pc \in {"signaling", "joining"}
  /\ worker.stop =>
       /\ worker_cb.queue = <<>>
       /\ app.cmd = WORKER_THREAD_EXIT /\ app.pc \in {"signaling", "joining", "closed"}

\* The thread leaves its loop with an empty queue.
LeaveInv ==
  /\ worker.pc \in Leaving => worker_cb.queue = <<>> /\ (worker.failed \/ worker.stop)
  /\ worker.failed => worker.pc \in Leaving /\ app.pc \notin {"sending", "signaling", "joining"}
  /\ worker_cb.inactive => worker.pc \in Leaving

\* The flag tells that the thread runs, except to an application that has just
\* created it and when the start has failed.
RunningInv ==
  /\ ~ thread_running => app.pc \in {"opening", "thread created"} \/ worker.pc = "returned"
  /\ worker.pc = "returned" /\ worker.stop => ~ thread_running

ThreadInv ==
  TypeOK /\ StartInv /\ SendInv /\ ExitInv /\ LeaveInv /\ RunningInv /\ ClosedWhenReturned

\* A command that is added to a queue without the exit command is the last one.
LEMMA QueueAppend ==
  ASSUME NEW q \in Seq(Command), NEW c \in Command
  PROVE  /\ Append(q, c) \in Seq(Command)
         /\ (\A i \in 1 .. Len(q) : q[i] # WORKER_THREAD_EXIT) =>
              \A i \in 1 .. Len(Append(q, c)) : Append(q, c)[i] = WORKER_THREAD_EXIT =>
                i = Len(Append(q, c)) /\ c = WORKER_THREAD_EXIT
<1>1. Len(q) \in Nat /\ Append(q, c) \in Seq(Command) /\ Len(Append(q, c)) = Len(q) + 1
  OBVIOUS
<1>2. /\ \A i \in 1 .. Len(q) : Append(q, c)[i] = q[i]
      /\ Append(q, c)[Len(q) + 1] = c
  OBVIOUS
<1>3. \A i \in 1 .. Len(q) + 1 : i \in 1 .. Len(q) \/ i = Len(q) + 1
  BY <1>1
<1> QED BY <1>1, <1>2, <1>3

\* The first command is followed by the others.
LEMMA QueueTail ==
  ASSUME NEW q \in Seq(Command), q # <<>>
  PROVE  /\ Head(q) \in Command /\ Head(q) = q[1] /\ 1 \in 1 .. Len(q)
         /\ Tail(q) \in Seq(Command)
         /\ Len(Tail(q)) = Len(q) - 1
         /\ Len(q) = 1 => Tail(q) = <<>>
         /\ \A i \in 1 .. Len(Tail(q)) : i + 1 \in 1 .. Len(q) /\ Tail(q)[i] = q[i + 1]
<1>1. Len(q) \in Nat /\ Len(q) # 0
  BY EmptySeq
<1>2. Head(q) = q[1]
  OBVIOUS
<1>3. /\ Head(q) \in Command /\ Tail(q) \in Seq(Command) /\ Len(Tail(q)) = Len(q) - 1
      /\ \A i \in 1 .. Len(Tail(q)) : Tail(q)[i] = q[i + 1]
  BY HeadTailProperties
<1>4. Len(q) = 1 => Tail(q) = <<>>
  <2>1. \A t \in Seq(Command) : Len(t) = 0 => t = <<>>
    BY EmptySeq
  <2>2. Len(q) = 1 => Len(Tail(q)) = 0
    BY <1>1, <1>3
  <2> QED BY <1>3, <2>1, <2>2, Zenon
<1> QED BY <1>1, <1>2, <1>3, <1>4

\* An empty queue has no position.
LEMMA NoIndex == 1 .. Len(<<>>) = {}
  OBVIOUS

\* A number of a transaction below the bound has a next one.
LEMMA SmallerNumber ==
  ASSUME NEW m \in 0 .. Commits, m < Commits
  PROVE  m + 1 \in 1 .. Commits /\ m + 1 \in 0 .. Commits
  BY CommitsAssumption

\* No transaction is a number of transactions.
LEMMA NothingMade == 0 \in 0 .. Commits
  BY CommitsAssumption

\* Appending to the list of special transactions and taking its first one.
LEMMA ListProperties ==
  ASSUME NEW S, NEW s \in Seq(S)
  PROVE  /\ \A x \in S : Append(s, x) \in Seq(S)
         /\ s # <<>> => Tail(s) \in Seq(S)
         /\ Range(s) \subseteq S
<1>1. Range(s) \subseteq S
  BY DEF Range
<1>2. s # <<>> => Tail(s) \in Seq(S)
  BY HeadTailProperties
<1> QED BY <1>1, <1>2

\* The invariant holds when plugin_init begins.
LEMMA InitialThread == Init => ThreadInv
<1> SUFFICES ASSUME Init PROVE ThreadInv
  OBVIOUS
<1> USE DEF Init, Initialized, Starting, Looping, Leaving, Command,
        WORKER_THREAD_NEW_TRANSACTION, WORKER_THREAD_EXIT
<1>1. TypeOK
  <2>1. <<>> \in Seq(Command) /\ <<>> \in Seq(1 .. Commits)
    BY EmptySeq
  <2>2. worker_cb \in [queue : Seq(Command), async : BOOLEAN, idle : BOOLEAN, inactive : BOOLEAN]
    BY <2>1
  <2>3. unsignaled \subseteq 1 .. Commits /\ made \in 0 .. Commits
    BY NothingMade
  <2>4. /\ app \in [pc : AppPlaces, cmd : Command]
        /\ worker \in [pc : WorkerPlaces, stop : BOOLEAN, failed : BOOLEAN]
    BY DEF AppPlaces, WorkerPlaces
  <2>5. ~ thread_active /\ worker.pc \notin {"running", "processing"}
    OBVIOUS
  <2> QED BY <2>1, <2>2, <2>3, <2>4, <2>5 DEF TypeOK
<1>2. StartInv /\ SendInv
  BY DEF StartInv, SendInv
<1>3. ExitInv
  <2>1. 1 .. Len(worker_cb.queue) = {}
    BY NoIndex
  <2> QED BY <2>1 DEF ExitInv
<1>4. LeaveInv /\ RunningInv /\ ClosedWhenReturned
  BY DEF LeaveInv, RunningInv, ClosedWhenReturned
<1> QED BY <1>1, <1>2, <1>3, <1>4 DEF ThreadInv

\* A command is handled, or there is none.
LEMMA DispatchStep ==
  ASSUME ThreadInv, worker.pc = "running",
         NEW cb \in [queue : Seq(Command), async : BOOLEAN, idle : BOOLEAN, inactive : BOOLEAN],
         cb.queue = worker_cb.queue, cb.inactive = worker_cb.inactive,
         Dispatch(cb),
         UNCHANGED <<app, thread_running, thread_active, special_txn, made, unsignaled>>
  PROVE  ThreadInv'
<1> DEFINE q == worker_cb.queue
<1> USE DEF Starting, Looping, Leaving
<1>0. q \in Seq(Command) /\ worker \in [pc : WorkerPlaces, stop : BOOLEAN, failed : BOOLEAN]
  BY DEF ThreadInv, TypeOK
<1>1. CASE q = <<>>
  <2>1. worker' = worker /\ worker_cb' = [cb EXCEPT !.idle = FALSE]
    BY <1>1 DEF Dispatch
  <2>2. worker_cb' \in [queue : Seq(Command), async : BOOLEAN, idle : BOOLEAN, inactive : BOOLEAN]
    BY <2>1
  <2>3. worker_cb'.queue = q /\ worker_cb'.inactive = worker_cb.inactive
    BY <2>1
  <2>4. TypeOK'
    BY <2>1, <2>2 DEF ThreadInv, TypeOK
  <2>5. StartInv' /\ SendInv' /\ LeaveInv' /\ RunningInv' /\ ClosedWhenReturned'
    BY <2>1, <2>3 DEF ThreadInv, StartInv, SendInv, LeaveInv, RunningInv, ClosedWhenReturned
  <2>6. ExitInv'
    BY <2>1, <2>3 DEF ThreadInv, ExitInv
  <2> QED BY <2>4, <2>5, <2>6 DEF ThreadInv
<1>2. CASE q # <<>>
  <2>1. worker_cb' = [cb EXCEPT !.queue = Tail(q), !.idle = TRUE] /\ worker_thread_on_thread_message(Head(q))
    BY <1>2 DEF Dispatch, dequeue_call, check_again
  <2>2. /\ Head(q) \in Command /\ Head(q) = q[1] /\ 1 \in 1 .. Len(q)
        /\ Tail(q) \in Seq(Command) /\ Len(Tail(q)) = Len(q) - 1 /\ (Len(q) = 1 => Tail(q) = <<>>)
        /\ \A i \in 1 .. Len(Tail(q)) : i + 1 \in 1 .. Len(q) /\ Tail(q)[i] = q[i + 1]
    BY <1>0, <1>2, QueueTail
  <2>3. worker_cb' \in [queue : Seq(Command), async : BOOLEAN, idle : BOOLEAN, inactive : BOOLEAN]
    BY <2>1, <2>2
  <2>4. worker_cb'.queue = Tail(q) /\ worker_cb'.inactive = worker_cb.inactive
    BY <2>1
  <2>5. ~ worker.stop /\ ~ worker.failed /\ ~ worker_cb.inactive /\ app.pc # "closed" /\ app.pc # "opening"
    BY <1>2 DEF ThreadInv, StartInv, ExitInv, LeaveInv, ClosedWhenReturned
  <2>6. CASE Head(q) = WORKER_THREAD_EXIT
    <3>1. worker' = [worker EXCEPT !.stop = TRUE]
      BY <2>1, <2>6 DEF worker_thread_on_thread_message
    <3>2. worker'.pc = "running" /\ worker'.stop /\ ~ worker'.failed
          /\ worker' \in [pc : WorkerPlaces, stop : BOOLEAN, failed : BOOLEAN]
      BY <1>0, <3>1, <2>5
    <3>3. Tail(q) = <<>> /\ app.cmd = WORKER_THREAD_EXIT /\ app.pc \in {"signaling", "joining"}
      BY <2>2, <2>6 DEF ThreadInv, ExitInv
    <3>4. TypeOK'
      BY <2>3, <3>2 DEF ThreadInv, TypeOK
    <3>5. ExitInv'
      <4>1. 1 .. Len(worker_cb'.queue) = {}
        BY <2>4, <3>3
      <4> QED BY <2>4, <3>2, <3>3, <4>1 DEF ThreadInv, ExitInv
    <3>6. StartInv' /\ SendInv' /\ LeaveInv' /\ RunningInv' /\ ClosedWhenReturned'
      BY <2>4, <2>5, <3>2, <3>3 DEF ThreadInv, StartInv, SendInv, LeaveInv, RunningInv, ClosedWhenReturned
    <3> QED BY <3>4, <3>5, <3>6 DEF ThreadInv
  <2>7. CASE Head(q) # WORKER_THREAD_EXIT
    <3>1. \E pc \in {"running", "processing"} : worker' = [worker EXCEPT !.pc = pc]
      BY <2>1, <2>7 DEF worker_thread_on_thread_message, Reaches
    <3>2. worker'.pc \in {"running", "processing"} /\ ~ worker'.stop /\ ~ worker'.failed
          /\ worker' \in [pc : WorkerPlaces, stop : BOOLEAN, failed : BOOLEAN]
      BY <1>0, <3>1, <2>5 DEF WorkerPlaces
    <3>3. TypeOK'
      BY <2>3, <3>2 DEF ThreadInv, TypeOK
    <3>4. ExitInv'
      BY <2>2, <2>4, <3>2, <1>0 DEF ThreadInv, ExitInv
    <3>5. StartInv' /\ SendInv' /\ LeaveInv' /\ RunningInv' /\ ClosedWhenReturned'
      BY <2>4, <2>5, <3>2 DEF ThreadInv, StartInv, SendInv, LeaveInv, RunningInv, ClosedWhenReturned
    <3> QED BY <3>3, <3>4, <3>5 DEF ThreadInv
  <2> QED BY <2>6, <2>7
<1> QED BY <1>1, <1>2

\* Every step of the application's threads keeps the invariant.
LEMMA ApplicationStep ==
  ASSUME ThreadInv, Application \/ on_new_local_transaction \/ close_worker_thread
  PROVE  ThreadInv'
<1> USE DEF ThreadInv, StartInv, SendInv, ExitInv, LeaveInv, RunningInv, ClosedWhenReturned,
        Command, Starting, Looping, Leaving, Goes,
        WORKER_THREAD_NEW_TRANSACTION, WORKER_THREAD_EXIT
<1>0. /\ app \in [pc : AppPlaces, cmd : Command]
      /\ worker \in [pc : WorkerPlaces, stop : BOOLEAN, failed : BOOLEAN]
      /\ worker_cb \in [queue : Seq(Command), async : BOOLEAN, idle : BOOLEAN, inactive : BOOLEAN]
      /\ thread_active <=> worker.pc \in {"running", "processing"}
      /\ thread_running \in BOOLEAN /\ thread_active \in BOOLEAN
      /\ special_txn \in Seq(1 .. Commits) /\ made \in 0 .. Commits /\ unsignaled \subseteq 1 .. Commits
  BY DEF TypeOK
<1>1. CASE plugin_init
  <2>1. CASE app.pc = "opening"
    <3>1. app'.pc = "thread created" /\ worker'.pc = "created"
          /\ app' \in [pc : AppPlaces, cmd : Command] /\ worker' \in [pc : WorkerPlaces, stop : BOOLEAN, failed : BOOLEAN]
      BY <1>0, <1>1, <2>1 DEF plugin_init, AppPlaces, WorkerPlaces
    <3>2. UNCHANGED <<thread_running, thread_active, worker_cb, special_txn, made, unsignaled>>
      BY <1>1, <2>1 DEF plugin_init
    <3>3. TypeOK'
      BY <1>0, <3>1, <3>2, <2>1 DEF TypeOK
    <3> QED BY <1>0, <1>1, <2>1, <3>1, <3>2, <3>3 DEF plugin_init
  <2>2. CASE app.pc = "thread created"
    <3>1. app'.pc = "ready" /\ app'.cmd = app.cmd /\ app' \in [pc : AppPlaces, cmd : Command]
      BY <1>0, <1>1, <2>2 DEF plugin_init, AppPlaces
    <3>2. UNCHANGED <<worker, thread_active, worker_cb, special_txn, made, unsignaled>> /\ thread_running' = TRUE
      BY <1>1, <2>2 DEF plugin_init
    <3>3. TypeOK'
      BY <1>0, <3>1, <3>2 DEF TypeOK
    <3> QED BY <1>0, <2>2, <3>1, <3>2, <3>3
  <2> QED BY <1>1, <2>1, <2>2 DEF plugin_init
<1>2. CASE on_new_local_transaction
  <2>1. app' = [pc |-> "made", cmd |-> WORKER_THREAD_NEW_TRANSACTION] /\ made' = made + 1 /\ app.pc = "ready"
        /\ special_txn' \in {special_txn, Append(special_txn, made + 1)}
        /\ UNCHANGED <<worker, thread_running, thread_active, worker_cb, unsignaled>>
    BY <1>2 DEF on_new_local_transaction
  <2>2. made' \in 1 .. Commits /\ made' \in 0 .. Commits
    BY <1>0, <1>2, SmallerNumber DEF on_new_local_transaction
  <2>3. special_txn' \in Seq(1 .. Commits)
    <3>1. Append(special_txn, made + 1) \in Seq(1 .. Commits)
      BY <1>0, <2>1, <2>2, ListProperties
    <3> QED BY <1>0, <2>1, <3>1
  <2>4. TypeOK'
    BY <1>0, <2>1, <2>2, <2>3 DEF TypeOK, AppPlaces
  <2> QED BY <1>0, <2>1, <2>4
<1>3. CASE check_thread_active
  <2>1. app'.pc = (IF thread_active THEN "sending" ELSE "ready") /\ app'.cmd = app.cmd
        /\ app' \in [pc : AppPlaces, cmd : Command] /\ app.pc = "made"
        /\ UNCHANGED <<worker, thread_running, thread_active, worker_cb, special_txn, made>>
    BY <1>0, <1>3 DEF check_thread_active, AppPlaces
  <2>2. unsignaled' \subseteq 1 .. Commits
    <3>1. Range(special_txn) \subseteq 1 .. Commits
      BY <1>0, ListProperties
    <3> QED BY <1>0, <1>3, <3>1 DEF check_thread_active
  <2>3. TypeOK'
    BY <1>0, <2>1, <2>2 DEF TypeOK
  <2> QED BY <1>0, <2>1, <2>3
<1>4. CASE close_worker_thread
  BY <1>4 DEF close_worker_thread, TypeOK, AppPlaces, WorkerPlaces
<1>5. CASE wait_thread_active
  BY <1>5 DEF wait_thread_active, Activated, TypeOK, AppPlaces, WorkerPlaces
<1>6. CASE uv_callback_fire
  <2>1. CASE app.pc = "sending"
    <3>1. thread_running /\ ~ worker_cb.inactive
      BY <2>1
    <3>2. worker_cb' = [worker_cb EXCEPT !.queue = Append(worker_cb.queue, app.cmd)]
          /\ app'.pc = "signaling" /\ app'.cmd = app.cmd /\ app' \in [pc : AppPlaces, cmd : Command]
          /\ UNCHANGED <<worker, thread_running, thread_active, special_txn, made, unsignaled>>
      BY <1>0, <1>6, <2>1, <3>1 DEF uv_callback_fire, Enqueued, AppPlaces
    <3>3. /\ Append(worker_cb.queue, app.cmd) \in Seq(Command)
          /\ \A i \in 1 .. Len(Append(worker_cb.queue, app.cmd)) :
               Append(worker_cb.queue, app.cmd)[i] = WORKER_THREAD_EXIT =>
                 i = Len(Append(worker_cb.queue, app.cmd)) /\ app.cmd = WORKER_THREAD_EXIT
      <4>1. \A i \in 1 .. Len(worker_cb.queue) : worker_cb.queue[i] # WORKER_THREAD_EXIT
        BY <2>1
      <4>2. worker_cb.queue \in Seq(Command) /\ app.cmd \in Command
        BY <1>0
      <4> QED BY <4>1, <4>2, QueueAppend
    <3>4. /\ worker_cb'.queue = Append(worker_cb.queue, app.cmd) /\ worker_cb'.inactive = worker_cb.inactive
          /\ worker_cb' \in [queue : Seq(Command), async : BOOLEAN, idle : BOOLEAN, inactive : BOOLEAN]
      BY <1>0, <3>2, <3>3
    <3>5. TypeOK'
      BY <1>0, <3>2, <3>4 DEF TypeOK
    <3>6. ExitInv'
      <4>2. \A i \in 1 .. Len(worker_cb'.queue) : worker_cb'.queue[i] = WORKER_THREAD_EXIT =>
              i = Len(worker_cb'.queue) /\ app.cmd = WORKER_THREAD_EXIT
        BY <3>3, <3>4
      <4> QED BY <2>1, <3>2, <4>2
    <3>7. StartInv' /\ SendInv' /\ LeaveInv' /\ RunningInv' /\ ClosedWhenReturned'
      BY <2>1, <3>2, <3>4
    <3> QED BY <3>5, <3>6, <3>7
  <2>2. CASE app.pc = "signaling"
    <3>1. worker_cb' = [worker_cb EXCEPT !.async = TRUE] /\ app' = [app EXCEPT !.pc = Sent]
          /\ UNCHANGED <<worker, thread_running, thread_active, special_txn, made, unsignaled>>
      BY <1>6, <2>2 DEF uv_callback_fire
    <3>2. worker_cb'.queue = worker_cb.queue /\ worker_cb'.inactive = worker_cb.inactive
          /\ worker_cb' \in [queue : Seq(Command), async : BOOLEAN, idle : BOOLEAN, inactive : BOOLEAN]
      BY <1>0, <3>1
    <3>3. app'.pc = (IF app.cmd = WORKER_THREAD_EXIT THEN "joining" ELSE "ready") /\ app'.cmd = app.cmd
          /\ app' \in [pc : AppPlaces, cmd : Command]
      BY <1>0, <3>1 DEF Sent, AppPlaces
    <3>4. TypeOK'
      BY <1>0, <3>1, <3>2, <3>3 DEF TypeOK
    <3>5. StartInv' /\ SendInv' /\ LeaveInv' /\ RunningInv' /\ ClosedWhenReturned'
      BY <2>2, <3>1, <3>2, <3>3
    <3>6. ExitInv'
      BY <2>2, <3>1, <3>2, <3>3
    <3> QED BY <3>4, <3>5, <3>6
  <2> QED BY <1>6, <2>1, <2>2 DEF uv_callback_fire
<1>7. CASE join_worker_thread
  <2>1. app'.pc = "closed" /\ app'.cmd = app.cmd /\ app' \in [pc : AppPlaces, cmd : Command]
        /\ app.pc = "joining" /\ worker.pc = "returned"
        /\ UNCHANGED <<worker, thread_running, thread_active, worker_cb, special_txn, made, unsignaled>>
    BY <1>0, <1>7 DEF join_worker_thread, AppPlaces
  <2>2. worker.stop /\ worker_cb.queue = <<>> /\ app.cmd = WORKER_THREAD_EXIT
    BY <2>1
  <2>3. TypeOK'
    BY <1>0, <2>1 DEF TypeOK
  <2>4. ExitInv'
    <3>1. 1 .. Len(worker_cb'.queue) = {}
      BY <2>1, <2>2, NoIndex
    <3> QED BY <2>1, <2>2, <3>1
  <2>5. StartInv' /\ SendInv' /\ LeaveInv' /\ RunningInv' /\ ClosedWhenReturned'
    BY <1>0, <2>1, <2>2
  <2> QED BY <2>3, <2>4, <2>5
<1> QED BY <1>1, <1>2, <1>3, <1>4, <1>5, <1>6, <1>7 DEF Application

\* Every step of the worker thread keeps the invariant.
LEMMA WorkerStep ==
  ASSUME ThreadInv, node_thread
  PROVE  ThreadInv'
<1> USE DEF ThreadInv, TypeOK, StartInv, SendInv, ExitInv, LeaveInv, RunningInv, ClosedWhenReturned,
        AppPlaces, WorkerPlaces, Command, Starting, Looping, Leaving, Reaches,
        WORKER_THREAD_NEW_TRANSACTION, WORKER_THREAD_EXIT
<1>1. CASE node_thread_start
  BY <1>1 DEF node_thread_start, Initialized
<1>2. CASE node_thread_bind
  BY <1>2 DEF node_thread_bind
<1>3. CASE node_thread_active
  BY <1>3 DEF node_thread_active
<1>4. CASE uv_callback_async_cb
  <2> DEFINE cb == [worker_cb EXCEPT !.async = FALSE]
  <2>1. /\ cb \in [queue : Seq(Command), async : BOOLEAN, idle : BOOLEAN, inactive : BOOLEAN]
        /\ cb.queue = worker_cb.queue /\ cb.inactive = worker_cb.inactive
    OBVIOUS
  <2>2. /\ worker.pc = "running" /\ Dispatch(cb)
        /\ UNCHANGED <<app, thread_running, thread_active, special_txn, made, unsignaled>>
    BY <1>4 DEF uv_callback_async_cb
  <2> HIDE DEF cb, ThreadInv
  <2> QED BY <2>1, <2>2, DispatchStep
<1>5. CASE uv_callback_idle_cb
  <2>1. /\ worker.pc = "running" /\ Dispatch(worker_cb)
        /\ UNCHANGED <<app, thread_running, thread_active, special_txn, made, unsignaled>>
    BY <1>5 DEF uv_callback_idle_cb
  <2>2. worker_cb \in [queue : Seq(Command), async : BOOLEAN, idle : BOOLEAN, inactive : BOOLEAN]
    OBVIOUS
  <2> HIDE DEF ThreadInv
  <2> QED BY <2>1, <2>2, DispatchStep
<1>6. CASE process_new_special_transaction
  <2>1. special_txn' \in Seq(1 .. Commits)
    <3>1. special_txn \in Seq(1 .. Commits)
      OBVIOUS
    <3>2. special_txn # <<>> => Tail(special_txn) \in Seq(1 .. Commits)
      BY <3>1, ListProperties
    <3>3. special_txn' = special_txn \/ (special_txn # <<>> /\ special_txn' = Tail(special_txn))
      BY <1>6 DEF process_new_special_transaction
    <3> QED BY <3>1, <3>2, <3>3
  <2>2. \E pc \in {"running", "processing"} : worker' = [worker EXCEPT !.pc = pc]
    BY <1>6 DEF process_new_special_transaction
  <2>3. /\ worker.pc = "processing"
        /\ UNCHANGED <<app, thread_running, thread_active, worker_cb, made, unsignaled>>
    BY <1>6 DEF process_new_special_transaction
  <2>4. TypeOK'
    BY <2>1, <2>2, <2>3
  <2> QED BY <2>2, <2>3, <2>4
<1>7. CASE node_thread_stop
  BY <1>7 DEF node_thread_stop
<1>8. CASE uv_callback_stop_all
  BY <1>8 DEF uv_callback_stop_all
<1>9. CASE node_thread_return
  <2>1. CASE worker.pc = "closing"
    BY <1>9, <2>1 DEF node_thread_return, RunningWhileClosing
  <2>2. CASE worker.pc = "loop closed"
    BY <1>9, <2>2 DEF node_thread_return
  <2> QED BY <1>9, <2>1, <2>2 DEF node_thread_return
<1> QED BY <1>1, <1>2, <1>3, <1>4, <1>5, <1>6, <1>7, <1>8, <1>9 DEF node_thread

\* The invariant that ties the places of the two threads to the shared variables
\* and to the queue of uv_callback.c holds in every order of their steps.
THEOREM ThreadInvariant == Spec => []ThreadInv
<1>1. ThreadInv /\ [Next]_vars => ThreadInv'
  <2>1. ASSUME ThreadInv, UNCHANGED vars PROVE ThreadInv'
    BY <2>1 DEF vars, ThreadInv, TypeOK, StartInv, SendInv, ExitInv, LeaveInv, RunningInv, ClosedWhenReturned
  <2> QED BY <2>1, ApplicationStep, WorkerStep DEF Next
<1> QED BY InitialThread, <1>1, PTL DEF Spec

\* The worker thread finds no command when it stops, and the variables keep their
\* types, whatever the order of the two threads.
THEOREM ThreadTypeCorrect == Spec => []TypeOK
<1>1. ThreadInv => TypeOK
  BY DEF ThreadInv
<1> QED BY <1>1, ThreadInvariant, PTL

\* The plugin is released only after node_thread returned.
THEOREM ReleasedAfterReturn == Spec => []ClosedWhenReturned
<1>1. ThreadInv => ClosedWhenReturned
  BY DEF ThreadInv
<1> QED BY <1>1, ThreadInvariant, PTL
=============================================================================
