---------------------------- MODULE BatchDispatch ----------------------------
(***************************************************************************)
(* A batch of workflows at the master: submit_batch_workflows answers,     *)
(* process_batch_tasks_async then saves, seeds and sends the tasks, a      *)
(* hundred at a time, in a background task of the same process, while      *)
(* cancel_batch_tasks and retry_batch_tasks may be called and the workers  *)
(* already run what was sent.                                              *)
(*                                                                         *)
(* The tasks are numbered in the order of the batch.  Of a worker only the *)
(* writes of one coroutine per task are kept (WorkerRuntime has the rest). *)
(***************************************************************************)
EXTENDS TaskStores, FiniteSetsExt

CONSTANTS
    BatchSize,     \* Bound: batch_size, 100 in the code
    Workloads,     \* Bound: what happens in a behaviour: which batch endpoints
                   \* are called, and which faults there are
    EarlyRetry,    \* Bound: whether a batch is retried while it is dispatched
    LoseAgain      \* Bound: whether update_task_status fails after another failure

\* A message Kafka refuses, a commit that raises, an update_task_status that
\* fails and answers False (of a request, of a row to be marked failed), Redis
\* that raises, a master that dies.
BatchFaults ==
    {"sendFail", "dbError", "updateFail", "markFail", "redisError", "masterCrash"}

ASSUME BatchAssumption ==
    /\ IsFiniteSet(Tasks) /\ Tasks # {} /\ Tasks = 1 .. Cardinality(Tasks)
    /\ BatchSize \in Nat \ {0}
    /\ Workloads \subseteq SUBSET ({"cancel", "retry"} \cup BatchFaults)
    /\ EarlyRetry \in BOOLEAN
    /\ LoseAgain \in BOOLEAN

VARIABLES
    workload,  \* the batch endpoints that are called, and the faults
    dispatch,  \* process_batch_tasks_async
    call,      \* the request that is being served
    inbox,     \* per task: messages no worker has taken
    sent,      \* history: per task: messages the broker has confirmed
    run,       \* per task: the coroutine of a worker
    lost,      \* history: per task: retries whose update of the row failed unread
    troubled   \* history: a store failed or the master died

batchVars == <<storeVars, workload, dispatch, call, inbox, sent, run, lost,
               troubled>>

Total == Cardinality(Tasks)

\* from: the first task of the current batch; task: where a loop over the
\* batch is; failed: the tasks _handle_batch_dispatch_failure was given.
DispatchAt(at, from, task, failed) ==
    [at |-> at, from |-> from, task |-> task, failed |-> failed]

\* unwritten: the tasks whose row the request failed to update.
NoCall == [at |-> "idle", op |-> "none", todo |-> {}, chosen |-> {}, failed |-> {},
           unwritten |-> {}]

BatchInit ==
    /\ StoresInit
    /\ workload \in Workloads
    /\ dispatch = DispatchAt("save", 1, 1, {})
    /\ call = NoCall
    /\ inbox = [t \in Tasks |-> 0]
    /\ sent = [t \in Tasks |-> 0]
    /\ run = [t \in Tasks |-> "idle"]
    /\ lost = [t \in Tasks |-> 0]
    /\ troubled = FALSE

-----------------------------------------------------------------------------
(* Rows written in one transaction *)

InsertRows(S) ==
    /\ dbStatus' = [t \in Tasks |-> IF t \in S THEN "pending" ELSE dbStatus[t]]
    /\ UNCHANGED <<dbWorker, dbRetry, aged>>

\* update_task_status finds no row for a task that was not saved.
CloseRows(S, status) ==
    /\ dbStatus' = [t \in Tasks |->
                       IF t \in S /\ dbStatus[t] # "absent" THEN status ELSE dbStatus[t]]
    /\ aged' = aged \ S
    /\ UNCHANGED <<dbWorker, dbRetry>>

\* A plausible slip: the retry is not counted.
ReopenRowsUncounted(S) ==
    /\ dbStatus' = [t \in Tasks |-> IF t \in S THEN "pending" ELSE dbStatus[t]]
    /\ dbWorker' = [t \in Tasks |-> IF t \in S THEN None ELSE dbWorker[t]]
    /\ aged' = aged \ S
    /\ UNCHANGED dbRetry

ReopenRows(S) ==
    /\ dbStatus' = [t \in Tasks |-> IF t \in S THEN "pending" ELSE dbStatus[t]]
    /\ dbWorker' = [t \in Tasks |-> IF t \in S THEN None ELSE dbWorker[t]]
    /\ dbRetry' = [t \in Tasks |-> IF t \in S THEN dbRetry[t] + 1 ELSE dbRetry[t]]
    /\ aged' = aged \ S

\* send_and_wait of one message: confirmed, or it raises.
Deliver(t) ==
    /\ inbox' = [inbox EXCEPT ![t] = @ + 1]
    /\ sent' = [sent EXCEPT ![t] = @ + 1]

Refuse == "sendFail" \in workload /\ UNCHANGED <<inbox, sent>>

-----------------------------------------------------------------------------
(* process_batch_tasks_async *)

LastOfBatch == Min({dispatch.from + BatchSize - 1, Total})
Batch == dispatch.from .. LastOfBatch

\* The loop over the batches goes on behind the current one.
NextBatch ==
    dispatch' = IF LastOfBatch = Total THEN DispatchAt("done", 1, 1, {})
                ELSE DispatchAt("save", LastOfBatch + 1, LastOfBatch + 1, {})

\* The loop over the batch is at its next task, and behind the last one at
\* the next stage.
NextTask(stage, after, failed) ==
    dispatch' = IF dispatch.task = LastOfBatch
                THEN DispatchAt(after, dispatch.from, dispatch.from, failed)
                ELSE DispatchAt(stage, dispatch.from, dispatch.task + 1, failed)

\* One transaction for all rows of the batch.
SaveBatch ==
    /\ dispatch.at = "save"
    /\ InsertRows(Batch)
    /\ dispatch' = [dispatch EXCEPT !.at = "seed"]
    /\ UNCHANGED <<redis, call, inbox, sent, run>>

SeedTask ==
    /\ dispatch.at = "seed"
    /\ SetRedis(dispatch.task, "pending")
    /\ NextTask("seed", "send", {})
    /\ UNCHANGED <<dbVars, call, inbox, sent, run>>

\* A plausible slip: the failures are not collected.
SendTaskUnnoticed ==
    /\ dispatch.at = "send"
    /\ Deliver(dispatch.task) \/ Refuse
    /\ NextTask("send", "sent", dispatch.failed)
    /\ UNCHANGED <<storeVars, call, run>>

\* send_tasks_batch collects the failures and goes on.
SendTask ==
    /\ dispatch.at = "send"
    /\ \/ Deliver(dispatch.task) /\ NextTask("send", "sent", dispatch.failed)
       \/ Refuse /\ NextTask("send", "sent", dispatch.failed \cup {dispatch.task})
    /\ UNCHANGED <<storeVars, call, run>>

\* The rows of those that failed, in one transaction, whatever their status.
\* update_task_status catches what the database raises: nobody reads that it
\* answers False, and the row is left out of what is committed.
MarkRowsBut(unwritten) ==
    /\ dispatch.at \in {"sent", "abort"}
    /\ IF dispatch.failed = {}
       THEN NextBatch /\ UNCHANGED dbVars
       ELSE /\ CloseRows(dispatch.failed \ unwritten, "failed")
            /\ dispatch' = [dispatch EXCEPT !.at = IF dispatch.at = "sent" THEN "markHash"
                                                                          ELSE "abortHash"]
    /\ UNCHANGED <<redis, call, inbox, sent, run>>

MarkRows == MarkRowsBut({})

MarkRowsUnwritten ==
    /\ "markFail" \in workload /\ (LoseAgain \/ ~troubled)
    /\ \E unwritten \in SUBSET dispatch.failed \ {{}} : MarkRowsBut(unwritten)
    /\ troubled' = TRUE

MarkHash ==
    /\ dispatch.at \in {"markHash", "abortHash"}
    /\ LET t == Min(dispatch.failed) IN
          /\ SetRedis(t, "failed")
          /\ IF dispatch.failed = {t} THEN NextBatch
             ELSE dispatch' = [dispatch EXCEPT !.failed = @ \ {t}]
    /\ UNCHANGED <<dbVars, call, inbox, sent, run>>

\* The commit or Redis raises.  The except branch hands the whole batch to
\* _handle_batch_dispatch_failure; when that raises too, the task is over and
\* the later batches are never reached.
DispatchRaises ==
    /\ \/ "dbError" \in workload /\ dispatch.at \in {"save", "sent", "abort"}
       \/ "redisError" \in workload /\ dispatch.at \in {"seed", "markHash", "abortHash"}
    /\ dispatch.at = "sent" => dispatch.failed # {}
    /\ dispatch' = IF dispatch.at \in {"abort", "abortHash"}
                   THEN DispatchAt("raised", 1, 1, {})
                   ELSE DispatchAt("abort", dispatch.from, dispatch.from, Batch)
    /\ troubled' = TRUE
    /\ UNCHANGED <<storeVars, call, inbox, sent, run>>

-----------------------------------------------------------------------------
(* cancel_batch_tasks and retry_batch_tasks; one request at a time *)

Listed == {t \in Tasks : dbStatus[t] # "absent"}

Enter(op, chosen) ==
    call' = [at |-> "loop", op |-> op, todo |-> chosen, chosen |-> chosen, failed |-> {},
             unwritten |-> {}]

CancelBatch ==
    /\ "cancel" \in workload
    /\ call = NoCall
    /\ \E t \in Listed : dbStatus[t] = "pending"
    /\ Enter("cancel", {t \in Listed : dbStatus[t] = "pending"})
    /\ UNCHANGED <<storeVars, dispatch, inbox, sent, run>>

RetryBatch ==
    /\ "retry" \in workload
    /\ EarlyRetry \/ dispatch.at \in {"done", "raised"}
    /\ call = NoCall
    /\ LET retryable == {t \in Listed : /\ dbStatus[t] \in {"failed", "timeout", "cancelled"}
                                        /\ dbRetry[t] < MaxRetries}
       IN  retryable # {} /\ Enter("retry", retryable)
    /\ UNCHANGED <<storeVars, dispatch, inbox, sent, run>>

\* A plausible slip: a retry leaves the hash as it was.
CallLoopUnseeded ==
    /\ call.at = "loop"
    /\ \E t \in call.todo :
          /\ IF call.op = "cancel" THEN SetRedis(t, "cancelled") ELSE UNCHANGED redis
          /\ call' = [call EXCEPT !.todo = @ \ {t},
                                  !.at = IF call.todo = {t} THEN "commit" ELSE "loop"]
    /\ UNCHANGED <<dbVars, dispatch, inbox, sent, run>>

\* A hash is written at once, its row with the others at the end.
NextOfLoop(t, unwritten) ==
    /\ SetRedis(t, IF call.op = "cancel" THEN "cancelled" ELSE "pending")
    /\ call' = [call EXCEPT !.todo = @ \ {t},
                            !.at = IF call.todo = {t} THEN "commit" ELSE "loop",
                            !.unwritten = unwritten]

CallLoop ==
    /\ call.at = "loop"
    /\ \E t \in call.todo : NextOfLoop(t, call.unwritten)
    /\ UNCHANGED <<dbVars, dispatch, inbox, sent, run>>

\* The database fails in update_task_status: False is answered and not read,
\* and the request goes on to the hash, the other tasks, the commit and the send.
CallUpdateFails ==
    /\ "updateFail" \in workload /\ (LoseAgain \/ ~troubled)
    /\ call.at = "loop"
    /\ \E t \in call.todo :
          /\ NextOfLoop(t, call.unwritten \cup {t})
          /\ lost' = IF call.op = "cancel" THEN lost ELSE [lost EXCEPT ![t] = @ + 1]
    /\ troubled' = TRUE
    /\ UNCHANGED <<dbVars, dispatch, inbox, sent, run>>

CallCommit ==
    /\ call.at = "commit"
    /\ IF call.op = "cancel"
       THEN CloseRows(call.chosen \ call.unwritten, "cancelled") /\ call' = NoCall
       ELSE /\ ReopenRows(call.chosen \ call.unwritten)
            /\ call' = [call EXCEPT !.at = "send", !.todo = call.chosen]
    /\ UNCHANGED <<redis, dispatch, inbox, sent, run>>

CallSend ==
    /\ call.at = "send"
    /\ \E t \in call.todo :
          \E refused \in BOOLEAN :
             /\ IF refused THEN Refuse ELSE Deliver(t)
             /\ call' = [call EXCEPT
                            !.todo = @ \ {t},
                            !.failed = IF refused THEN @ \cup {t} ELSE @,
                            !.at = IF call.todo = {t} THEN "sent" ELSE "send"]
    /\ UNCHANGED <<storeVars, dispatch, run>>

CallMarkRowsBut(unwritten) ==
    /\ call.at = "sent"
    /\ CloseRows(call.failed \ unwritten, "failed")
    /\ call' = IF call.failed = {} THEN NoCall
               ELSE [call EXCEPT !.at = "markHash", !.todo = call.failed]
    /\ UNCHANGED <<redis, dispatch, inbox, sent, run>>

CallMarkRows == CallMarkRowsBut({})

CallMarkRowsUnwritten ==
    /\ "markFail" \in workload /\ (LoseAgain \/ ~troubled)
    /\ \E unwritten \in SUBSET call.failed \ {{}} : CallMarkRowsBut(unwritten)
    /\ troubled' = TRUE

CallMarkHash ==
    /\ call.at = "markHash"
    /\ \E t \in call.todo :
          /\ SetRedis(t, "failed")
          /\ call' = IF call.todo = {t} THEN NoCall ELSE [call EXCEPT !.todo = @ \ {t}]
    /\ UNCHANGED <<dbVars, dispatch, inbox, sent, run>>

\* A commit or Redis raises, and the exception leaves the handler: what is not
\* committed is rolled back, the hashes stay as they are.
CallRaises ==
    /\ \/ "dbError" \in workload /\ call.at \in {"commit", "sent"}
       \/ "redisError" \in workload /\ call.at \in {"loop", "markHash"}
    /\ call.at = "sent" => call.failed # {}
    /\ call' = NoCall
    /\ troubled' = TRUE
    /\ UNCHANGED <<storeVars, dispatch, inbox, sent, run>>

\* The master dies: BackgroundTasks are in its memory only.
MasterDies ==
    /\ "masterCrash" \in workload
    /\ dispatch.at \notin {"done", "raised"}
    /\ dispatch' = DispatchAt("raised", 1, 1, {})
    /\ call' = NoCall
    /\ troubled' = TRUE
    /\ UNCHANGED <<storeVars, inbox, sent, run>>

-----------------------------------------------------------------------------
(* The worker, as far as it writes *)

\* The hash decides whether a message is thrown away; while the task runs a
\* second message of it is only thrown away.
Take(t) ==
    /\ inbox[t] > 0
    /\ redis[t] \in Skipped \/ run[t] = "idle"
    /\ inbox' = [inbox EXCEPT ![t] = @ - 1]
    /\ run' = IF redis[t] \in Skipped THEN run ELSE [run EXCEPT ![t] = "claimed"]
    /\ UNCHANGED <<storeVars, dispatch, call, sent>>

MarkRunning(t) ==
    /\ run[t] = "claimed"
    /\ SetRedis(t, "running")
    /\ run' = [run EXCEPT ![t] = "marked"]
    /\ UNCHANGED <<dbVars, dispatch, call, inbox, sent>>

SaveRunning(t) ==
    /\ run[t] = "marked"
    /\ \E w \in Workers : WorkerWritesRow(t, w, "running")
    /\ run' = [run EXCEPT ![t] = "executing"]
    /\ UNCHANGED <<redis, dispatch, call, inbox, sent>>

MarkOutcome(t) ==
    /\ run[t] = "executing"
    /\ \E outcome \in {"success", "failed"} :
          /\ SetRedis(t, outcome)
          /\ run' = [run EXCEPT ![t] = outcome]
    /\ UNCHANGED <<dbVars, dispatch, call, inbox, sent>>

SaveOutcome(t) ==
    /\ run[t] \in {"success", "failed"}
    /\ WorkerWritesRow(t, dbWorker[t], run[t])
    /\ run' = [run EXCEPT ![t] = "idle"]
    /\ UNCHANGED <<redis, dispatch, call, inbox, sent>>

DispatchStep == SaveBatch \/ SeedTask \/ SendTask \/ MarkRows \/ MarkHash
CallStep == CallLoop \/ CallCommit \/ CallSend \/ CallMarkRows \/ CallMarkHash
TaskStep(t) ==
    Take(t) \/ MarkRunning(t) \/ SaveRunning(t) \/ MarkOutcome(t) \/ SaveOutcome(t)

BatchNext ==
    /\ \/ CallUpdateFails
       \/ /\ \/ DispatchRaises \/ CallRaises \/ MasterDies
             \/ MarkRowsUnwritten \/ CallMarkRowsUnwritten
          /\ UNCHANGED lost
       \/ /\ \/ DispatchStep \/ CancelBatch \/ RetryBatch \/ CallStep
             \/ \E t \in Tasks : TaskStep(t)
          /\ UNCHANGED <<lost, troubled>>
    /\ UNCHANGED workload

BatchSpec == BatchInit /\ [][BatchNext]_batchVars

\* The background task, a request and the workers go on until they are done;
\* nobody has to cancel or retry.
BatchFairSpec ==
    /\ BatchSpec
    /\ WF_batchVars(DispatchStep /\ UNCHANGED <<workload, lost, troubled>>)
    /\ WF_batchVars(CallStep /\ UNCHANGED <<workload, lost, troubled>>)
    /\ \A t \in Tasks :
          WF_batchVars(TaskStep(t) /\ UNCHANGED <<workload, lost, troubled>>)

-----------------------------------------------------------------------------
\* Something will still move the row of t out of pending.
OnItsWay(t) ==
    \/ inbox[t] > 0 \/ run[t] # "idle"
    \/ call # NoCall /\ t \in call.todo \cup call.chosen \cup call.failed
    \/ dispatch.at \in {"seed", "send", "sent", "markHash", "abort", "abortHash"} /\ t \in Batch

(***************************************************************************)
(* However the background task, a cancellation, a retry and the workers    *)
(* overlap and whichever messages Kafka refuses, no row of the batch stays *)
(* pending with nothing on its way: retry_batch_tasks would skip it.  It   *)
(* takes stores that answer, a master that lives, retries that come after  *)
(* the dispatch, and no batch that is both cancelled and retried: the old  *)
(* message of a cancelled task may run it between the retry's write of the *)
(* hash and its commit, and the hash it leaves stops the new message.      *)
(***************************************************************************)
BatchPendingIsOnItsWay ==
    ~troubled => \A t \in Tasks : dbStatus[t] = "pending" => OnItsWay(t)

(***************************************************************************)
(* However dispatch, retry and their failures overlap, a task is sent once,*)
(* once more per counted retry, and beyond that only by a retry whose      *)
(* update of the row the database refused: update_task_status answers      *)
(* False, retry_batch_tasks does not read it and sends all the same.       *)
(***************************************************************************)
SendsAreCounted == \A t \in Tasks : sent[t] <= 1 + dbRetry[t] + lost[t]

(***************************************************************************)
(* A batch whose rows are saved comes to an end for the status endpoint,   *)
(* which then has a terminal row of every task.                            *)
(***************************************************************************)
BatchFinishes ==
    (dispatch.at # "save") ~> (troubled \/ \A t \in Tasks : dbStatus[t] \in Finished)

=============================================================================
