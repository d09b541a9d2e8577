----------------------------- MODULE NodeThread -----------------------------
(***************************************************************************)
(* The application and the worker thread of a node: how the thread is      *)
(* started and closed, and the commands that the application sends to it   *)
(* (plugin_init, close_worker_thread and node_thread of no-leader.c,       *)
(* on_new_local_transaction of transactions.c and the queue of             *)
(* uv_callback.c).  A step is what a thread does between two accesses to   *)
(* the memory that they share.                                             *)
(***************************************************************************)
EXTENDS Integers, Sequences, Functions

CONSTANTS
  Commits,   \* bound: how many transactions the application makes
  Refused    \* the special transactions that fail when they are processed

ASSUMPTION CommitsAssumption == Commits \in Nat /\ Refused \subseteq 1 .. Commits

VARIABLES
  app,             \* where the application is, and the command it sends
  worker,          \* where the worker thread is, and if its start failed
  thread_running,  \* the two flags of the plugin
  thread_active,
  worker_cb,       \* the callback that carries the commands
  special_txn,     \* the special transactions for the worker thread
  made,            \* how many transactions were made
  unsignaled       \* the special ones made while the thread was not active

vars == <<app, worker, thread_running, thread_active, worker_cb, special_txn, made, unsignaled>>

WORKER_THREAD_NEW_TRANSACTION == "new transaction"
WORKER_THREAD_EXIT == "exit"
Command == {WORKER_THREAD_NEW_TRANSACTION, WORKER_THREAD_EXIT}

-----------------------------------------------------------------------------
(* The queue of commands *)

Initialized == [queue |-> <<>>, async |-> FALSE, idle |-> FALSE, inactive |-> FALSE]

\* (mutant) The newest command is the next.
newest_call(queue) == [cmd |-> queue[Len(queue)], rest |-> SubSeq(queue, 1, Len(queue) - 1)]

\* The next command is the oldest one, and what is left.
dequeue_call(queue) == [cmd |-> Head(queue), rest |-> Tail(queue)]

\* (mutant) The first command found is the only one of an event.
call_once(cb) == cb

\* There may be other commands: one event may stand for several of them.
check_again(cb) == [cb EXCEPT !.idle = TRUE]

-----------------------------------------------------------------------------
(* The application *)

Goes(pc) == app' = [app EXCEPT !.pc = pc]

plugin_init ==
  \/ /\ app.pc = "opening" /\ Goes("thread created")
     /\ worker' = [worker EXCEPT !.pc = "created"]
     /\ UNCHANGED <<thread_running, thread_active, worker_cb, special_txn, made, unsignaled>>
  \/ /\ app.pc = "thread created" /\ Goes("ready")
     /\ thread_running' = TRUE
     /\ UNCHANGED <<worker, thread_active, worker_cb, special_txn, made, unsignaled>>

\* A transaction is committed; a special one goes to the list of the worker.
on_new_local_transaction ==
  /\ app.pc = "ready" /\ made < Commits
  /\ made' = made + 1
  /\ app' = [pc |-> "made", cmd |-> WORKER_THREAD_NEW_TRANSACTION]
  /\ special_txn' \in {special_txn, Append(special_txn, made + 1)}
  /\ UNCHANGED <<worker, thread_running, thread_active, worker_cb, unsignaled>>

\* The worker is told of it when it is active.
check_thread_active ==
  /\ app.pc = "made"
  /\ Goes(IF thread_active THEN "sending" ELSE "ready")
  /\ unsignaled' = IF thread_active THEN unsignaled ELSE unsignaled \cup ({made} \cap Range(special_txn))
  /\ UNCHANGED <<worker, thread_running, thread_active, worker_cb, special_txn, made>>

\* The application closes the database: it waits for the thread to be active.
close_worker_thread ==
  /\ app.pc = "ready"
  /\ app' = [pc |-> IF thread_running THEN "waiting" ELSE "closed", cmd |-> WORKER_THREAD_EXIT]
  /\ UNCHANGED <<worker, thread_running, thread_active, worker_cb, special_txn, made, unsignaled>>

Activated == thread_active

wait_thread_active ==
  /\ app.pc = "waiting" /\ Activated
  /\ Goes("sending")
  /\ UNCHANGED <<worker, thread_running, thread_active, worker_cb, special_txn, made, unsignaled>>

\* (mutant) A command that is already in the queue stands for the new one.
EnqueuedOnce(queue, cmd) == IF cmd \in Range(queue) THEN queue ELSE Append(queue, cmd)

Enqueued(queue, cmd) == Append(queue, cmd)

\* What the application does once the command is sent.
Sent == IF app.cmd = WORKER_THREAD_EXIT THEN "joining" ELSE "ready"

\* The command goes to the queue and then the event is signaled, in two steps.
uv_callback_fire ==
  \/ /\ app.pc = "sending"
     /\ IF thread_running /\ ~ worker_cb.inactive
        THEN /\ worker_cb' = [worker_cb EXCEPT !.queue = Enqueued(@, app.cmd)]
             /\ Goes("signaling")
        ELSE Goes(Sent) /\ UNCHANGED worker_cb
     /\ UNCHANGED <<worker, thread_running, thread_active, special_txn, made, unsignaled>>
  \/ /\ app.pc = "signaling" /\ Goes(Sent)
     /\ worker_cb' = [worker_cb EXCEPT !.async = TRUE]
     /\ UNCHANGED <<worker, thread_running, thread_active, special_txn, made, unsignaled>>

\* The thread is joined; plugin_end releases the plugin after that.
join_worker_thread ==
  /\ app.pc = "joining" /\ worker.pc = "returned"
  /\ Goes("closed")
  /\ UNCHANGED <<worker, thread_running, thread_active, worker_cb, special_txn, made, unsignaled>>

-----------------------------------------------------------------------------
(* The worker thread *)

Reaches(pc) == worker' = [worker EXCEPT !.pc = pc]

node_thread_start ==
  /\ worker.pc = "created" /\ Reaches("binding")
  /\ worker_cb' = Initialized
  /\ UNCHANGED <<app, thread_running, thread_active, special_txn, made, unsignaled>>

\* The address may be in use.
node_thread_bind ==
  /\ worker.pc = "binding"
  /\ \/ Reaches("loading")
     \/ worker' = [worker EXCEPT !.pc = "leaving", !.failed = TRUE]
  /\ UNCHANGED <<app, thread_running, thread_active, worker_cb, special_txn, made, unsignaled>>

\* The state is loaded and the event loop runs.
node_thread_active ==
  /\ worker.pc = "loading" /\ Reaches("running")
  /\ thread_active' = TRUE
  /\ UNCHANGED <<app, thread_running, worker_cb, special_txn, made, unsignaled>>

worker_thread_on_thread_message(cmd) ==
  IF cmd = WORKER_THREAD_EXIT THEN worker' = [worker EXCEPT !.stop = TRUE]
  ELSE Reaches(IF special_txn # <<>> THEN "processing" ELSE "running")

\* The next command, if there is one.
Dispatch(cb) ==
  IF cb.queue = <<>>
  THEN worker_cb' = [cb EXCEPT !.idle = FALSE] /\ UNCHANGED worker
  ELSE LET call == dequeue_call(cb.queue)
       IN /\ worker_cb' = check_again([cb EXCEPT !.queue = call.rest])
          /\ worker_thread_on_thread_message(call.cmd)

\* The loop sees that the event was signaled, once for all the signals.
uv_callback_async_cb ==
  /\ worker.pc = "running" /\ worker_cb.async
  /\ Dispatch([worker_cb EXCEPT !.async = FALSE])
  /\ UNCHANGED <<app, thread_running, thread_active, special_txn, made, unsignaled>>

uv_callback_idle_cb ==
  /\ worker.pc = "running" /\ worker_cb.idle
  /\ Dispatch(worker_cb)
  /\ UNCHANGED <<app, thread_running, thread_active, special_txn, made, unsignaled>>

\* The transactions are taken from the list one by one until one fails; more may
\* be added meanwhile.
process_new_special_transaction ==
  /\ worker.pc = "processing"
  /\ IF special_txn = <<>> THEN Reaches("running") /\ UNCHANGED special_txn
     ELSE /\ special_txn' = Tail(special_txn)
          /\ Reaches(IF Head(special_txn) \in Refused THEN "running" ELSE "processing")
  /\ UNCHANGED <<app, thread_running, thread_active, worker_cb, made, unsignaled>>

node_thread_stop ==
  /\ worker.pc = "running" /\ worker.stop
  /\ Reaches("leaving")
  /\ thread_active' = FALSE
  /\ UNCHANGED <<app, thread_running, worker_cb, special_txn, made, unsignaled>>

\* The calls in the queue are to be discarded.  All of them are for this callback,
\* and after the removal of the first one dequeue_all_from_callback follows a
\* pointer that is null.
uv_callback_stop_all ==
  /\ worker.pc = "leaving"
  /\ Reaches(IF worker_cb.queue = <<>> THEN "closing" ELSE "crashed")
  /\ worker_cb' = [worker_cb EXCEPT !.inactive = TRUE]
  /\ UNCHANGED <<app, thread_running, thread_active, special_txn, made, unsignaled>>

\* (mutant) The flag is cleared before the handles are closed.
NotRunning == FALSE

\* The flag while the handles and the loop are being closed.
RunningWhileClosing == thread_running

node_thread_return ==
  /\ \/ /\ worker.pc = "closing" /\ Reaches("loop closed")
        /\ thread_running' = RunningWhileClosing
     \/ /\ worker.pc = "loop closed" /\ Reaches("returned")
        /\ thread_running' = FALSE
  /\ UNCHANGED <<app, thread_active, worker_cb, special_txn, made, unsignaled>>

-----------------------------------------------------------------------------

Init ==
  /\ app = [pc |-> "opening", cmd |-> WORKER_THREAD_NEW_TRANSACTION]
  /\ worker = [pc |-> "none", stop |-> FALSE, failed |-> FALSE]
  /\ thread_running = FALSE /\ thread_active = FALSE
  /\ worker_cb = Initialized
  /\ special_txn = <<>> /\ made = 0 /\ unsignaled = {}

\* What the application has begun.
Application ==
  \/ plugin_init
  \/ check_thread_active
  \/ wait_thread_active
  \/ uv_callback_fire
  \/ join_worker_thread

node_thread ==
  \/ node_thread_start
  \/ node_thread_bind
  \/ node_thread_active
  \/ uv_callback_async_cb
  \/ uv_callback_idle_cb
  \/ process_new_special_transaction
  \/ node_thread_stop
  \/ uv_callback_stop_all
  \/ node_thread_return

Next == Application \/ node_thread \/ on_new_local_transaction \/ close_worker_thread

Spec == Init /\ [][Next]_vars

\* Both threads run.
FairSpec == Spec /\ WF_vars(Application) /\ WF_vars(node_thread)

-----------------------------------------------------------------------------
(* Properties *)

AppPlaces == {"opening", "thread created", "ready", "made", "sending", "signaling",
              "waiting", "joining", "closed"}
WorkerPlaces == {"none", "created", "binding", "loading", "running", "processing",
                 "leaving", "closing", "loop closed", "returned"}

\* The variables keep their types, the worker thread never follows a null pointer
\* (it finds no command when it stops: dequeue_all_from_callback) and only it is
\* marked as active by itself.
TypeOK ==
  /\ app \in [pc : AppPlaces, cmd : Command]
  /\ worker \in [pc : WorkerPlaces, stop : BOOLEAN, failed : BOOLEAN]
  /\ thread_running \in BOOLEAN /\ thread_active \in BOOLEAN
  /\ thread_active <=> worker.pc \in {"running", "processing"}
  /\ worker_cb \in [queue : Seq(Command), async : BOOLEAN, idle : BOOLEAN, inactive : BOOLEAN]
  /\ special_txn \in Seq(1 .. Commits) /\ made \in 0 .. Commits
  /\ unsignaled \subseteq 1 .. Commits

\* When close_worker_thread returns and plugin_end releases the plugin, the thread
\* no longer uses it: the assertions that follow uv_thread_join, which hold as
\* well when the function returns because the thread is not running.
ClosedWhenReturned ==
  app.pc = "closed" => worker.pc = "returned" /\ ~ thread_active /\ ~ thread_running

\* A special transaction that is made while the thread is active is processed,
\* also when others fail, many commands come as one event or the database is
\* closed at once.
SpecialsProcessed ==
  \A t \in 1 .. Commits :
    t \in Range(special_txn) ~> t \notin Range(special_txn) \/ unsignaled # {}

\* close_worker_thread returns unless the thread could not start.
CloseReturns == app.cmd = WORKER_THREAD_EXIT ~> app.pc = "closed" \/ worker.failed
=============================================================================
