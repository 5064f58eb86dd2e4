# Formal model of vanguard-runner

TLA+ specifications of the parts of vanguard-runner whose correctness depends on
concurrency, failures and order, the TLC runs that check them on small instances,
and theorems checked by TLAPS. `PROJECT.json` lists the components, the runs, the
source lines each definition stands for, the hazards and the theorems.

## 1. Inventory

### 1.1 Parts and their state

Paths are under `src/`; `core/` is `packages/engine/src/core/`.

| part | source | state it keeps | operations |
|---|---|---|---|
| Master service | `apps/master/application/services/workflow_service.py` | none; one coroutine per HTTP request, one background task per batch | submit one or a batch, cancel one or a batch, retry one or a batch, compensate a failed batch dispatch |
| Task table | `apps/master/domain/`, `apps/worker/infrastructure/db/task_status_store.py` | per task: status, worker_id, retry_count, max_retries, timestamps | insert, ORM update (master), unconditional UPDATE (worker), conditional UPDATE (recovery), queries |
| Redis | `packages/shared/infrastructure/redis_client.py`, `apps/worker/infrastructure/redis/master_gateway.py` | `task:<id>` (24 h TTL), `worker:<id>` (60 s TTL) | HSET of single fields, EXPIRE, DEL, scan |
| Kafka producer | `packages/shared/infrastructure/kafka_producer.py` | sends in the background | `send_task` (replies before the send), `send_tasks_batch` (waits) |
| Worker runtime | `apps/worker/runtime/main.py` | one event loop: heartbeat, recovery sweep, consumer loop, one coroutine per message, a semaphore | register, heartbeat, consume, execute, record, commit, recover, shut down |
| Workflow executor | `apps/worker/executors/workflow_executor.py` | one engine thread per task | run the engine, assemble the report |
| Result callback | `apps/worker/infrastructure/callback/` | none | post a report, whole or in parts, with retries |
| Streams | `apps/master/api/routes/workflow_router.py` | per request | status, event stream, console stream |
| Engine | `packages/engine/workflow_engine.py`, `packages/engine/src/context.py` | node results, variables, steps, shards | order nodes, test conditions, skip, run, finalise |
| Engine variants | `core/checkpoint.py`, `core/streaming_executor.py`, `core/advanced_executor.py` | checkpoint file per execution_id | run, die, resume |
| Debugger | `core/workflow_debugger.py` | index, results, snapshots, breakpoints, saved session | step, continue, roll back, restart, save, load |
| Step log collectors | `core/log_collector.py` | one collector per node id for the whole process | start, sink, stop, read |
| Browser session | `core/ui/playwright/ui_manager.py` | one browser, contexts, pages, the current ones, for all engine threads | launch, new context or page, switch, get, close |
| Node processors | `core/processors/` | none; variables in the context | one handler per operation of a node |
| Loop node | `core/processors/workflow/loop_processor.py` | the variables of its rounds | count, while, foreach |
| MySQL node | `core/processors/data/mysql_processor.py` | the transaction of a connection | one statement or a list, in one transaction or one each |
| MySQL connection pool | `core/connection_pool.py` | per pool: a queue, a counter, a map of wrappers, a lock | create, borrow, put back, clean up, health check |
| Splitter, tokens, credentials, error manager, settings | see `PROJECT.json` | | |

How they interact: the master commits a row, seeds the hash, and leaves a message
with the producer; a worker takes the message, checks the hash twice, writes
running to the hash and then to the row, runs the engine in a thread, calls the
result back, writes the outcome to the hash and then to the row, and commits the
offset. The hash decides whether a message is executed; the row decides whether a
task may be cancelled, retried or recovered. Nothing keeps the two together, and
every worker also sweeps the table for rows whose worker has no key in Redis. The
engine walks the sorted nodes and hands each to its processor. Engine threads of
one worker process share the connection pools, the log collectors and the browser
session.

### 1.2 What is hard

Each await of the master and of the workers is a point where others run; hash and
row are written one after the other; offsets are committed explicitly for one
message, for skipped messages, and for everything fetched; partitions move; a
worker that blocks or drains looks dead to the others; a send fails after its
request was answered; a batch is half sent when a store fails; a resumed walk has
to agree with an uninterrupted one; pool threads use the queue with and without the
lock; a node is a row of calls each of which may fail after the others took
effect. some errors are raised, others swallowed where nobody reads the answer.
`PROJECT.json` lists 40 such hazards at their lines, with the properties that cover
each; for the ten without a property it gives the reason.

### 1.3 What makes each part correct

* Lifecycle: a submitted task reaches a terminal row; a row over does not run
  again without a retry; a running row has a runner or is recovered; a pending row
  has something on its way to run it; retries are bounded.
* Batch: every pending task of a batch has a message or a handler that will send or
  mark it; no task is sent more often than its row, and the updates of it that were
  lost, account for.
* Reports: what a client, the callback or the console was told agrees with what is
  recorded in the end, and nothing is left out of it.
* Engine: exactly the nodes a path of open edges leads to are run; the report has
  every node once, with its own output. Resuming keeps that.
* Debugger: results, position and snapshots agree after any rollback.
* Node: it succeeds only with its work done, and leaves variables behind only in
  success.
* MySQL node: what is answered is what is committed; a SELECT sees the latest.
* Shared objects of a process: a connection is lent once and never closed under its
  user; a page that is found is open; a step's log is its own. For the last two this
  takes operations that do not overlap on the same context or node.

## 2. Modules

| module | models | uses |
|---|---|---|
| `TaskStores` | the row and the hash, and each write of them | |
| `MasterService` | submit, retry and cancel of one task, the background sends, a crash of the master | `TaskStores` |
| `KafkaGroup` | partitions, positions, committed offsets, ownership (external) | `TaskStores` |
| `WorkerRuntime` | a worker process: heartbeat, consumer loop, coroutines, sweep, crash, shutdown | `KafkaGroup` |
| `TaskLifecycle` | the composition of the four, its fairness and its properties | `MasterService`, `WorkerRuntime`, instance of `DurableStatus` |
| `DurableStatus` | abstract: what the row promises its readers | |
| `MCTaskLifecycle` | symmetries for TLC | `TaskLifecycle` |
| `BatchDispatch` | a batch: background dispatch, cancel and retry of a batch, workers | `TaskStores` |
| `TaskReports` | one task's outcome on its way to the callback, hash, row, streams | |
| `ConnectionPool` | one pool, its borrowers, its clean-up and its health check | |
| `WorkflowGraph` | workflows, branches, live paths | |
| `WorkflowEngine` | the engine's walk and the worker's report of it | `WorkflowGraph` |
| `LibraryExecutors` | the streaming, advanced, resumable and metrics executors with their checkpoints | `WorkflowGraph` |
| `WorkflowDebugger` | a debugging session over the same workflows | `WorkflowGraph` |
| `StepLogs` | log collectors of concurrent engine threads | |
| `HandlerSteps` | the vocabulary of a handler: calls, acts, waits, variables | |
| `UIHandlers`, `UIToolHandlers`, `ServiceHandlers` | the handlers of the UI, the UI tools, and the service and computing processors, as sequences of steps | `HandlerSteps` |
| `NodeHandlers` | one node in its handler, every step of which may fail | the three |
| `LoopNodes` | one loop node with its sub-nodes | |
| `SqlBatch` | MySQL nodes one after another on pooled connections, with other clients | |
| `UISession` | the browser session, await by await | |
| `SystemParts` | the parts that share no state with each other, for one run | `LibraryExecutors`, `WorkflowDebugger`, `StepLogs`, `NodeHandlers`, `LoopNodes`, `SqlBatch`, `UISession`, `TaskReports` |
| `TaskLifecycleProofs`, `BatchDispatchProofs`, `TaskReportsProofs`, `ConnectionPoolProofs`, `WorkflowEngineProofs`, `LibraryExecutorsProofs`, `NodeHandlersProofs` | theorems | the module of that name |
| `PartsProofs` | theorems | `WorkflowDebugger`, `StepLogs`, `LoopNodes`, `SqlBatch`, `UISession` |

`SystemParts` is the sum of eight specifications: a behaviour chooses a `part`
(run, debug, logs, node, loop, sql, browser, reports) and is a behaviour of that
module, the variables of the others standing still. It composes nothing: those parts
do not share state within one task, and one run checks them with one set of bounds.

### 2.1 State and actions against the code

**Lifecycle.** `dbStatus`, `dbWorker`, `dbRetry` are columns of the row; `aged` holds
the running rows older than `TASK_RECOVERY_MIN_AGE_SECONDS`; `redis` is the status
field of the hash. A transaction is one step, and so is an HSET; the HSETs that
follow the one of the status write fields no control reads. `request[c]` is a
handler between two awaits: `Submit` (row committed), `SeedRedis`, `Dispatch` (the
send is left to a background task, counted in `outbox`); `RetryRead`, `RetrySave`,
then the same two; `CancelRead`, `CancelSave`, `CancelMark`. `SendFails`,
`RequestFails`, `UpdateIsLost` and `MasterCrash` are its failures: `update_task_status`
swallows what the database raises, so that a retry or a cancellation goes on to the
hash, and the retry to its send, with the row unchanged. `attempt[s]` is a coroutine of
`execute_task_with_semaphore`: queued at the semaphore, claimed (second check
passed), marked (hash running), executing (row running), cancelling (the deadline
passed, the engine still runs and the event loop stands still), redisOutcome,
dbOutcome, ack. Its outcome `large` is a success of more than 50 steps, whose status
is not written to Redis; `raised` is the failure recorded by the outermost handler.
`polling[w]` holds the offsets that the loop will commit for messages it skipped.
`CommitIdle` is `commit()` without offsets. `sweep[w]` is a recovery sweep: the
worker keys are scanned with the cut-off (`SweepScan`), then the rows are listed
(`SweepQuery`), then each is reset by the conditional UPDATE (`SweepReset`), and
only then its hash (`SweepMark`). `Faults` says which failures an instance may have:
crash, shutdown, rebalance, timeout, sendFail, masterCrash, dbError, redisError,
expiry. A restarted worker has a new id, so it is another element of `Workers`.

**Batch.** `dispatch` is `process_batch_tasks_async`: rows saved, hashes seeded,
then part by part the gathered sends, whose failures are put together, then the
marks in hash and row; an exception leads to `_handle_batch_dispatch_failure`.
`call` is the cancel or retry request that is being served, one at a time, with the
tasks still to do, its one commit at the end, and the tasks whose update of the row
was swallowed (`unwritten`; `CallUpdateFails`, `MarkRowsUnwritten`,
`CallMarkRowsUnwritten`). `lost` counts the retries this has happened to. `inbox` and `run` are messages and the coroutines of
workers, `sent` counts confirmed sends. A worker is reduced to what the batch can
see of it: it checks the hash, writes running and an outcome.

**Reports.** `worker` is `execute_task` after the engine: callback (whole, or in
parts of `BATCH_SIZE` steps with attempts), progress, hash, row, log sink, the counters
of the caller. `code` says who writes: `execute_task`, its `except`, the branch of the
deadline, or the `except` of `execute_task_with_semaphore`; `record` is the status it
writes. `server` is what the receiver of the callback knows. `sse` is the event stream, polling the hash;
`console` polls the log file: it measures it, then reads. A behaviour has one of the
sets in `Troubles`: a lost post, a post whose answer is lost, a raised exception, the
deadline, a write of the hash that raises (`BeginRaises`, `HashRaises`,
`HandlerGivesUp`; swallowed for the status and the result of a success), a write of the
row that is swallowed (`Written`).

**Pool.** `queue` is the `Queue`, `current` the counter `current_connections`,
`wrapped` the keys of the map of wrappers, `borrower[b]` the point of
`get_connection` a thread is at with its local `connection` and whether its local
`wrapper` is set, and `cleaner` the clean-up thread with its `temp_connections`.
`Queue` operations are one step each with or without the lock.

**Engine.** `wf` gives each pair of nodes no edge, a plain one or a branch; nodes are
numbered in the order of the topological sort, so edges go forward. `next` is the
loop's node, `result` `context._node_results`, `steps` the report's list, `store`
the shard storage by index, `phase` and `report` what `execute()` and then
`execute_workflow` return. A step of the loop is one action: the node is skipped
(`Skip`), succeeds, raises, answers with a failure, or its condition has no answer
(`RaiseOnCondition`, outside the node's try).

**Executors.** `executor` is the class and method, `mode` where the process is
(running, down, failed, finished and the writing of a checkpoint), `at`, `completed`
and `result` its walk, `loaded` the checkpoint it started from, `file` the one on
disk, which a death during the write leaves broken. `ranNow` and `startedOver` are
history.

**Debugger.** `context`, `index`, `done`, `snapshots`, `breakpoints` are its fields,
`session` what was saved. A step is one action; `continue_execution` is the steps
it takes.

**Nodes.** In `HandlerSteps` a handler is a sequence of steps, each a kind of call
(may it fail, does it act, is it awaited, is its failure swallowed) or a variable
set; `NodeHandlers` walks it, any call failing, and ends with the handler's answer.
What is computed from a page or a reply is left out. `LoopNodes` runs the sub-nodes
of each round with the one context they share. `SqlBatch` has `tx`, the transaction
of each connection (its snapshot and its writes), `queue`, the order the pool lends
them in, and `node`, the list of statements of the node under way; `version` and
`others` are what the database has committed. `UISession` has the maps of `UIManager`
and a `job` per thread: the operation it is in. Each await is two steps, what it does to
the browser (`PageMade`, `ContextClosed`, ...) and the code behind it (`PageListed`,
`ContextRemoved`, ...), so that other threads, which have event loops of their own, come
between the two; before its effect it may raise. `crossed` is the history of what a
thread was closing while another one was at work with it.

**Logs.** `collectors[id]` has the flag, the thread that started it and its lines;
`thread[t]` runs one step after another, each of any node id, as two runs of one
workflow do; `abandoned` holds ids whose collection an exception left open, `overlapped`
the threads whose present or last step another thread's step of the same node has
overlapped with.

## 3. Runs

| run | instance | checks | result |
|---|---|---|---|
| `lifecycle_retry` | 2 workers of one permit, 2 clients, submit and retry, SIGTERM | `PendingIsDispatched`, `RetryBound`, `EveryTaskFinishes` | hold |
| `lifecycle_crash` | 2 workers, crash of a worker and of the master, failing sends | `StaleRunningRecovered`, `RefinesDurableStatus` | hold |
| `lifecycle_rebalance` | 2 workers, crash, moving partitions | `RunningRowHasRunner`, `ReopenedByRetry` | hold |
| `lifecycle_stores` | 1 worker of one permit; submit, retry, cancel; MySQL and Redis errors, raised or swallowed, timeouts, expiry | `TypeOK`, `MessageHasRow` | hold |
| `batch` | 3 tasks sent two at a time; cancel or retry of the batch; failing sends, MySQL (raised or swallowed), Redis, master | `BatchPendingIsOnItsWay`, `SendsAreCounted`, `BatchFinishes` | hold |
| `pool` | 3 threads, 1 to 2 connections, failing connects, 1 drop by the server | `LentOnce`, `InUseIsNotClosed`, `CountIsExact`, `AtMostMaxUntilDrop`, `PoolMakesProgress` | hold |
| `engine` | every workflow of 4 nodes, shards on or off | `LivePathsDecide`, `StepsAreComplete`, `OwnOutputUnlessSkipped`, `RunEnds` | hold |
| `parts` | the parts of `SystemParts`, each with its own bounds | see the table below | hold |
| `lifecycle_cancel` | 1 worker, no fault | `CancelledStaysCancelled` | violated |
| `lifecycle_lost_recovery` | 2 workers, one crash | `RecoveredIsDispatched` | violated |
| `lifecycle_large_result` | 1 worker, no fault | `ReportedRunningEnds` | violated |
| `pool_over_max` | 2 threads, 1 connection, 1 drop | `AtMostMaxConnections` | violated |

What `parts` checks:

| part | instance | properties |
|---|---|---|
| run | every workflow of 3 nodes, five executors, up to 3 processes of one execution_id, each killed anywhere | `ResumeRunsNoCompletedNode`, `CheckpointIsConsistent`, `FinishedRunsLivePaths`, `ProcessEnds` |
| debug | the same workflows, a breakpoint, failing nodes and callbacks, rollback, save and load | `NoResultAhead`, `HistoryIsReachable` |
| logs | 2 threads, 2 steps each of either of 2 nodes, 2 lines each, exceptions | `StepLogsAreOwn` |
| node | one node of any operation of 16 processors, any call failing | `SuccessMeansDone`, `VariableMeansSuccess` |
| loop | every loop of up to 2 rounds and 3 sub-nodes | `ReadersSeeTheirRound` |
| sql | 2 nodes of up to 2 statements on 2 connections, another client, failing statements and commits | `SelectSeesLatest`, `SuccessMeansCommitted`, `StopMeansNothing`, `PooledHoldsNoWrites` |
| browser | 2 threads, the default context and another, up to 3 objects, every await may raise, another thread between it and the code behind it | `PagesAreOpen` |
| reports | up to 2 steps, 2 posts of each part, lost and repeated posts, the deadline, failing writes of hash and row, one reader | `ToldIsRecorded`, `AcknowledgedIsDelivered`, `ConsoleHasNoGap` |

Deadlock is checked in `engine`. In the others requests, borrowers and failures are
never promised, so a system at rest has no step to take.

The four violations:

* `lifecycle_cancel`: a worker that passed its checks writes running over a
  committed cancellation, and the task runs.
* `lifecycle_lost_recovery`: the sweep returns a task to pending, as
  `docs/state-model.md` says, for redelivery or a manual retry; the message may be
  committed already and `retry_task` refuses a pending row.
* `lifecycle_large_result`: the hash of a successful workflow of more than 50 steps
  stays running, against the document's "differ briefly".
* `pool_over_max`: a replacement for a dropped connection is connected outside the
  lock of the capacity test.

### 3.1 Where the passing properties stop holding

The conditions below were found by checking larger or faultier instances; each is
a behaviour of the code, not of the model.

* `PendingIsDispatched` needs that no process crashes between the hash and the row,
  that sends succeed, that hashes do not lose a failed write, and that no
  cancellation writes its hash after a retry.
* `RefinesDurableStatus` needs at most one sweeper. Of two, the slower resets a run
  started after the faster one's reset, for the UPDATE does not test the worker.
  With retries it needs two conditions more, and so does running a task in one
  coroutine at a time. Two requests that both found the row retryable each dispatch
  the task, and the later commit reopens a row that the other's message is running.
  And where workers crash, the message of the first run may be delivered again after
  the reset of the hash, next to the retry's own.
* `StaleRunningRecovered` needs that a crash is the only way to lose a worker. A
  worker whose key expired while it was blocked or drained creates it again without
  a TTL by any HSET, and if it dies before the EXPIRE it is active for ever.
* `RunningRowHasRunner` needs stores that answer: a failed write of an outcome is
  ignored.
* `BatchPendingIsOnItsWay` and `BatchFinishes` need stores that answer and a master
  that lives: their exception leaves hashes changed over rows that were rolled back,
  or ends the loop over the later parts. The first also needs retries that come
  after the dispatch (`EarlyRetry` = FALSE): a retry while the dispatch still
  writes failed into the hashes of refused tasks leaves a pending row under a failed
  hash. And no behaviour of `Batch.cfg` both cancels and retries the batch: the
  message of a cancelled task is still there, `retry_batch_tasks` resets the hash
  first and commits the row last, and in between a worker may run the task to its
  end from the old message. The commit then reopens the row, the hash says success,
  and the new message is thrown away. With `{"cancel", "retry"}` among the
  `Workloads` TLC finds this.
* `SendsAreCounted` counts apart the retries whose update of the row failed
  (`lost`): `update_task_status` answers False, `retry_batch_tasks` does not read it,
  resets the hash and sends, and `retry_count` stays what it was.
* `ToldIsRecorded` names what may come between telling and recording: the deadline
  (the row says timeout); Redis, which raises at the progress, at a status other than
  that of a success or at the counters of the caller (the row says failed over a told
  success); and a swallowed write of the row (it still says running, or pending).
  Nothing else makes them differ.
* `CountIsExact` and `AtMostMaxConnections` need a server that drops no connection.
  `PoolMakesProgress` also needs min_connections > 0.
* `OwnOutputUnlessSkipped` ends at the first step that was skipped or not stored: the
  report loads a shard by the index among all steps, the storage counts stored ones.
* The properties of resumed runs are about processes that go on at a checkpoint.
  `execute()` of the advanced executor restores the context and begins at the first
  node (`startedOver`). `FinishedRunsLivePaths` also takes that every condition ran:
  one that was skipped counts as "false".
* `StepLogsAreOwn` excludes a step that a step of the same node in another thread
  overlaps with, as when two runs of one workflow are in one worker: the second
  `start()` returns at once and the first `stop()` ends both. The steps behind it are
  covered again. It also needs collections that were stopped.
* The two properties of `NodeHandlers` leave out the operations in `SucceedInVain` (a
  failure is swallowed, a call not awaited, or nothing is called: scrolling in a
  direction that is none of the four, the recorded steps of a processor made for the
  node) and in `SaveTooEarly` (the variable is set before the reply is looked at, or by
  a script that raises behind it). With `WithKnown` = TRUE they are included, and each
  violates its property. An operation that can only fail, such as a key press with
  modifiers, is a row like any other: it violates neither.
* `ReadersSeeTheirRound` excludes rounds in which a sub-node raised, and the index
  behind a nested loop, which leaves its own `loop_index` in the context.
* `SelectSeesLatest` takes nodes without a SELECT given as a plain execute, which is
  not committed and keeps its snapshot for the connection's next user.
* `StopMeansNothing` names the commit that was made and raised.
* `PagesAreOpen` needs a `browser.close()` that has not raised: the maps then keep
  pages of a closed browser. And it excludes contexts and browsers that one thread was
  closing while another one was at work with them (`crossed`). Two threads suffice: one
  has made a page and not yet listed it, the other closes the context and removes it
  from the maps, and then the page is listed. With three the context may also have left
  the map when its close comes back, so that nothing is removed. `run_async` gives each
  operation an event loop of its own, and nothing keeps them apart.

### 3.2 Bounds

One task is enough for the lifecycle: tasks share nothing but workers, permits and
partitions, and the second message of a retry or a redelivery is what competes for
them. Two slots let both messages of a task be in coroutines at once; with
`Capacity` = 1 one waits at the semaphore. Two workers give a crashed or draining
one and its successor. One partition suffices because messages carry no key: order
between partitions adds only interleavings of `SendConfirmed`. `MaxRetries` is 0 or
1; 1 lets two overlapping requests race for the last retry.

Three tasks sent in parts of two give a batch a full part, a last part shorter than
it, and a failure in the middle of a part, in the first or the last. `Workloads`
has an endpoint with a fault, two faults together, and the master's death. In the run
`update_task_status` fails in one request or marking at most once, for any set of its
tasks (`LoseAgain` = FALSE); in the lifecycle a retry loses its update only while
nothing else is under way (`FewMessages`), for such a retry may be repeated without
bound.

Three threads on two connections reach every path of `get_connection`, the full
queue included; `MaxDrops` and `Conns` bound the drops and the connection objects.

Four nodes (`engine`) have every join of two branches behind a condition, a skipped
condition with a successor, and a node behind a skip; three (`parts`) still have a
condition with both branches, or a chain. `MaxStarts` = 3 is two interruptions, the
second in a resumed process. `MaxSnapshots` = 3 is a failed and repeated node on top
of two. Two rounds of a loop give "the round before", three sub-nodes a source, a
disturbance and a reader. Two statements give a failure after a write, two
connections a snapshot older than another's commit. `MaxObjects` = 3 is a browser with
both contexts, or a browser replaced under one. Two steps of two lines give "an earlier step" and an
order. In `TaskReports` the constants 50 of the code are 1, as `StepsPerPost` and as
`LargeSteps`, so that 2 steps are two parts and above the limit; `Posts` = 2
stands for its three attempts, and `Troubles` keeps the troubles of the callback, those of
the stores, and the deadline apart; the theorems take any of them together. Two node ids let two threads run the same node or different
ones. The theorems of section 4 have none of these bounds.

Slots, workers and partitions are symmetric where no liveness is checked.

### 3.3 Fairness

`FairSpec` of `TaskLifecycle`: every coroutine that can proceed does (the event
loop is FIFO, and blocked only while an engine thread runs, which ends:
`TimeoutRaised` is part of `AttemptStep`); a background send is confirmed unless it
fails; an unowned partition is assigned; the heartbeat and the sweep loop; time
passes (`Age`, `KeyExpires`). All of it is weak fairness. Nothing is promised of
requests, crashes, rebalances or errors, and the deployment keeps one worker that
is not down (`Spared`).

`BatchFairSpec`: weak fairness of the background task, of the request being served,
and, for each task, of the worker that has its message; requests come or not.

`FairSpec` of `ConnectionPool`: weak fairness of a thread inside `get_connection`
or in the caller's block (its statements have read and write timeouts) and of the
clean-up thread inside a round. Strong fairness only that the waiting threads,
taken together, are not for ever preceded by clean-up rounds, which are 30 s apart
while `queue.put` wakes a waiter at once. The timeout of `queue.get` is not relied
upon.

`FairSpec` of `WorkflowEngine`: the one thread that runs goes on. `PartsSpec`: a
process of an executor that is not killed goes on (`LibStep`); whether it is killed
or started again is not promised, and the user of a debugger may stop any time.

## 4. Theorems

The assumptions are the named ones of the modules (`StoresAssumption` and so on),
nothing else. Each theorem is about its module's own specification, for every value
of its constants; where the code's bound is a constant, it is arbitrary.

`TaskLifecycleProofs`, for any faults unless said:

* `TypeCorrect`: `Spec => []TypeOK`. One lemma per group of actions. The one
  conjunct that is not local is in `Attempt`: a coroutine that records an outcome
  has one, so that `Recorded` yields a status.
* `OnlyRetryReopens`: `Spec => ReopenedByRetry`. `RowStep` shows what each step may
  do to a row; only `RetrySave` and the conditional UPDATE write pending.
* `RetriesBounded`: `Spec => []RetryBound`. By itself not inductive: `RetryInv` adds
  that a handler about to save read a count below `MaxRetries`.
* `CarriedTasksHaveRows`: `Spec => []MessageHasRow`. `Carried(t)` names every place
  a task can be; `CarriedStep` shows that a step carries only what was carried or
  has a row, and rows are never removed.
* `RunningRowsHaveRunners`: `StoresAnswer => (Spec => []RunningRowHasRunner)`.
  `RunnerInv` adds that a coroutine belongs to a live worker and has a task, so that
  the coroutine that wrote running is there until it writes an outcome.
* `PendingRowsAreDispatched`: `NothingIsLost => (Spec => []PendingIsDispatched)`. The
  assumption excludes cancellations, crashes, failing sends and failing stores, each of
  which breaks the property (section 3.1); retries, drains, rebalances, timeouts and
  expiring hashes are in. `PendingIsDispatched` is not inductive: it counts messages
  that will be thrown away, because they are read again or because the hash says
  running. `DispatchInv` replaces it by `OnItsWay`: a request that will reset the hash,
  a coroutine past its checks, or a hash that lets through what is still to come, be
  it a request, a send, a message nobody has fetched or a coroutine at the semaphore.
  A running row has a coroutine (`Works`), which is what a sweep returns to when it
  resets the row of a worker that only looked dead.
* `TasksRunOnceAtATime` and `DurableStatusImplemented`, from `OnceInv`, under
  `SubmittedOnce`: rows are submitted only, workers and master may crash and sends
  fail, and where workers crash there are two at most, so that a sweep which finds a
  stale row is the only one (section 3.1). The first says that no task is in two
  coroutines that run it; the second is `Spec => RefinesDurableStatus`. The refinement
  needs to know that a coroutine past its checks finds the row as the checks left it
  (`OnceStores`), and so that no other coroutine has the task: a task is in one
  request, one send or one message (`OnceMessages`), that message has one coroutine
  (`OnceAttempts`), and a row that runs or is over keeps its hash closed
  (`OnceStores`). A sweep only resets what nobody runs (`OnceSweeps`), since a live
  worker that is neither blocked nor drained has its key (`OnceProcesses`).
* `RetriedTasksRunOnceAtATime` and `RetriedStatusImplemented`, from `RetriedInv`,
  under `RetriedOnly`: tasks are submitted and retried, sends fail, the master dies,
  hashes expire, but no message is delivered twice (section 3.1). Both are
  `Spec /\ []RetriesApart => ...`: of the requests they suppose that no two stand
  between the check and the commit of `retry_task` for one task, and nothing about
  the requests after it. The hash plays no part here. A task is at any time in one
  request, one send, one message not fetched or one coroutine, the row tells in which
  (`RetriedMessages`, `RetriedAttempts`), and a row that is over is in none, so that
  reopening it starts with nothing left of the run before (`SettledIsFree`). No sweep
  finds anything to reset, since every worker that runs a row has its key
  (`RetriedProcesses`).

`BatchDispatchProofs`:

* `SendsCounted`: `BatchSpec => []SendsAreCounted`, for batches and parts of any
  size and any faults. What was sent says nothing of what is still to come, so
  `BatchInv` counts both: sent, still to send by the dispatch, still to send by a retry,
  together at most 1 + `retry_count` + `lost`. A retry whose update failed is
  in `lost` as soon as it fails, although it sends only behind the commit: until then
  the sends it will make are `Forgone`.
* `PendingIsSent`: `RequestsApart => (BatchSpec => []BatchPendingIsOnItsWay)`, the
  assumption being the one of section 3.1 on early retries and on cancelling and
  retrying the same batch. `WayInv` says for each task who will send, run or close
  it, that a pending task's message is thrown away only when another one has taken
  it or a cancellation is about to close it, and that the hashes still to be marked
  failed are of closed rows. Where there are retries it adds that a task has at most
  one message or coroutine, and none when its row is terminal: what a retry reopens
  is then taken by its own message.

`TaskReportsProofs`, from `ReportsInv`:

* `ToldOutcomeIsRecorded`: `ToldInv` follows who writes. What the callback has told is
  the outcome the worker holds; what the stream has told is that, or failed from one of
  the two handlers, and then an exception was raised; the row is what the present writer
  recorded, unless its write was lost.
* `AcknowledgedWasDelivered`: `PostInv` says what the receiver has while all parts so
  far were acknowledged; the arithmetic of the last part closes it.
* `ConsoleShowsAll`: `ConsoleInv` says that what is shown is a beginning of the file
  that reaches at least to the position.

`ConnectionPoolProofs`, from `PoolInv`:

* `PoolTypeCorrect`, with the lock: who is at a line under the lock holds it.
* `LentToOne`: `OnePlace` gives each connection one place, the hands of threads
  between two lines included, over `queue` operations without the lock.
* `NeverClosedInUse`: `InHandIsNotClosed` follows the connection from `queue.get` to
  the caller's block.
* `CountExactUntilDrop`, `WithinMaxUntilDrop`: `Calm` says what the counter is in
  the middle of a clean-up or of a connect, as long as there was no drop.

`WorkflowEngineProofs`, from `EngineInv`, for workflows of any size:

* `LivePathsRun`: the test before a node looks at the direct predecessors only; what
  is live is defined over paths. `ResultsInv` (a node has a result only if a live path
  leads to it, none ahead of the loop) makes the two agree.
* `StepsComplete`: `StepsInv` follows the list through the phases of a run.
* `OwnOutput`: `StoreInv` says that index and node agree while every step left a
  reference.

`LibraryExecutorsProofs`, from `LibInv`, for any number of deaths and restarts:

* `CheckpointHoldsWhatRan`, `ResumeSkipsCompleted`: `DoneInv` and `LoadedInv`
  say what the file and the process hold relative to their node.
* `ResumedRunsLivePaths`: `WalkedTo(k)` describes what a walk leaves behind that has
  come to node k; a checkpoint holds it for its next node, so that a restart
  continues it.

`NodeHandlersProofs`, for all operations, the known ones included:

* `SuccessesAreDone`: `HandlersSpec => [](op \notin SucceedInVain => SuccessMeansDone)`;
  `VariablesMeanSuccess`, with `VariableMeansSuccess` and `SaveTooEarly`. Each names
  exactly the operations that break its property, where the run leaves out all of them
  for both. `WellBuilt` says how the steps of a handler have to be arranged: nothing
  left out, no failed act swallowed, and every reply that is not looked at where it
  comes looked at later; behind a variable nothing that ends the handler. One lemma per
  table (`ActionsAreWellBuilt` and so on) shows that its handlers are; the rest never
  looks at a table again. `WalkInv` holds for any handler that is well built: what it
  went past undone was denied, and the reply that says so is still ahead (`DoneWalk`);
  what it set is behind it (`SavedWalk`).

`PartsProofs`:

* `NothingAhead`, `CourseIsReachable`, from `DebugInv`, for workflows and sessions of
  any size: `Course(index, context, snapshots)` adds that snapshots are in the order of
  their nodes, which makes the first snapshot of a node the one to cut at; the saved
  session is such a course too.
* `OwnLogs`: `LogsSpec => []StepLogsAreOwn`, for any threads and node ids, shared or
  not. `EnabledIsInUse` says that a collector is enabled only by a thread that is in a
  step of its node, or was abandoned, so that a step with the node to itself finds it
  stopped and makes it its own; `CollectorIsOwn` says what it then holds, as long as
  nothing overlaps (`OverlapIsKnown`).
* `RoundsDoNotMix`: `LoopSpec => []ReadersSeeTheirRound`, for any number of rounds and
  any list of sub-nodes. `RoundIsOwn` looks at the sub-nodes already run: behind an
  extraction none of which failed the variable is of this round, and without a nested
  loop so is the index.
* `SuccessIsCommitted`, `StoppedListLeavesNothing`, `SelectsAreCurrent`,
  `NoWriteIsLeftBehind`, from `SqlInv`, for lists of any length and any number of
  nodes, connections and other clients. `AppliedSoFar` says what the database and the
  transaction under way hold in the middle of the list, `WritesInUse` that no other
  connection holds a write or, without a plain execute of a SELECT, is in a
  transaction at all.
* `ListedPagesAreOpen`: `UISpec => []PagesAreOpen`, for any number of threads.
  `ObjectsAreOwn` says that a context is known under one id only, to the maps and to the
  threads between two awaits; `MadeIsUsable` that a page made and not yet listed is open
  or crossed; `ClosedOnceGone` that a context a thread is closing is in the map still,
  has no page, or was crossed; `ListedIsUsable` that a listed page which cannot be used
  is one of a context that has just been closed.

Only model-checked: liveness, which is out of the prover's reach.
The assumptions of the theorems exclude what section 3.1 says breaks the property.
`SubmittedOnce` excludes more: moving partitions, drains, timeouts and expired hashes,
by which two coroutines or two sweepers come to one task, and the stores' failures.
The run `lifecycle_crash` is an instance of `SubmittedOnce`. No run is one of
`RetriedOnly`: in `lifecycle_retry`, the run with retries, they overlap and workers
drain. `DurableStatus` itself is about rows that nobody cancels.

## 5. Not modelled

* Two threads in `create_pool` for one key: each makes a pool and the later one
  replaces the earlier, which stays open. The two pools share no state the properties
  relate.
* What is computed: templates and functions of the context, comparison of values,
  contents of pages and replies, formatting of reports and logs.
* `update_node_config` and its kin of the debugger (the model has no node
  configuration), its prompt, the legacy `execute` of single nodes.
* The splitter, tokens, credentials, environments, the error manager: lookups and
  conversions without a state others see. Of the error manager the handlers use that
  its answer to a failed node never says to continue.
* Authentication, metrics, the health server, queries of the master, settings,
  logging, deployment: they write nothing the modelled parts read.
* Messages that are not JSON or not workflow tasks.

Left to do: an abstract status that holds where a retried task has two messages; the
batch with several workers and the recovery sweep.
