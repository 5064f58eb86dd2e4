----------------------------- MODULE TaskStores -----------------------------
(***************************************************************************)
(* The two places a task's status is kept (docs/state-model.md): the row   *)
(* of MySQL's task_execution table, written by the master's ORM repository *)
(* and by the worker's UPDATE statements, and the hash task:<id> of Redis. *)
(* Every write below is one transaction or one HSET, hence one step.       *)
(*                                                                         *)
(* Of a row the model keeps status, worker_id, retry_count and whether a   *)
(* running row's started_at is older than TASK_RECOVERY_MIN_AGE_SECONDS    *)
(* (aged).  Of a hash it keeps status, the only field the control reads.   *)
(***************************************************************************)
EXTENDS Naturals, Sequences, FiniteSets

CONSTANTS Tasks,       \* task identifiers
          Workers,     \* worker processes, a restarted one being a new worker
          None,        \* the absent task, worker or partition
          MaxRetries,  \* max_retries of every row (save_task's default is 3)
          Faults       \* which failures the environment may cause

FaultKinds ==
    {"crash", "shutdown", "rebalance", "timeout", "sendFail", "masterCrash",
     "dbError", "redisError", "expiry"}

ASSUME StoresAssumption ==
    /\ None \notin Tasks \cup Workers
    /\ MaxRetries \in Nat
    /\ Faults \subseteq FaultKinds

VARIABLES
    dbStatus,  \* task_execution.status, "absent" before the row is inserted
    dbWorker,  \* task_execution.worker_id
    dbRetry,   \* task_execution.retry_count
    aged,      \* rows that are running since before the recovery cut-off
    redis      \* status field of task:<id>, "absent" when there is no hash

dbVars == <<dbStatus, dbWorker, dbRetry, aged>>
storeVars == <<dbVars, redis>>

Finished == {"success", "failed", "timeout", "cancelled"}
Status == {"absent", "pending", "running"} \cup Finished

\* A finished task's message is executed again.
SkippedOnlyRunning == {"running"}

\* Statuses whose message a worker throws away.
Skipped == {"running"} \cup Finished

StoresTypeOK ==
    /\ dbStatus \in [Tasks -> Status]
    /\ dbWorker \in [Tasks -> Workers \cup {None}]
    /\ dbRetry \in [Tasks -> Nat]
    /\ aged \in SUBSET Tasks
    /\ redis \in [Tasks -> Status]

StoresInit ==
    /\ dbStatus = [t \in Tasks |-> "absent"]
    /\ dbWorker = [t \in Tasks |-> None]
    /\ dbRetry = [t \in Tasks |-> 0]
    /\ aged = {}
    /\ redis = [t \in Tasks |-> "absent"]

-----------------------------------------------------------------------------
(* Writes of the row *)

\* save_task and its commit.
InsertRow(t) ==
    /\ dbStatus' = [dbStatus EXCEPT ![t] = "pending"]
    /\ UNCHANGED <<dbWorker, dbRetry, aged>>

\* The repository's update_task_status(status = "pending"): the pending branch
\* overwrites worker, progress, both timestamps and the error.
ReopenRow(t, count) ==
    /\ dbStatus' = [dbStatus EXCEPT ![t] = "pending"]
    /\ dbWorker' = [dbWorker EXCEPT ![t] = None]
    /\ dbRetry' = [dbRetry EXCEPT ![t] = count]
    /\ aged' = aged \ {t}

\* The repository's update_task_status with another status: only the truthy
\* arguments are written, so worker_id and retry_count stay.
CloseRow(t, status) ==
    /\ dbStatus' = [dbStatus EXCEPT ![t] = status]
    /\ aged' = aged \ {t}
    /\ UNCHANGED <<dbWorker, dbRetry>>

\* The worker's update_task_status: an UPDATE by primary key, whatever the
\* row's status is by now.
WorkerWritesRow(t, w, status) ==
    /\ dbStatus' = [dbStatus EXCEPT ![t] = status]
    /\ dbWorker' = [dbWorker EXCEPT ![t] = w]
    /\ aged' = aged \ {t}
    /\ UNCHANGED dbRetry

\* A plausible slip in the recovery UPDATE: no condition on the status.
ResetRowUnguarded(t) ==
    /\ dbStatus' = [dbStatus EXCEPT ![t] = "pending"]
    /\ dbWorker' = [dbWorker EXCEPT ![t] = None]
    /\ aged' = aged \ {t}
    /\ UNCHANGED dbRetry

\* reset_task_for_recovery: UPDATE ... WHERE status = 'running'.
ResetRow(t) ==
    /\ dbStatus[t] = "running"
    /\ dbStatus' = [dbStatus EXCEPT ![t] = "pending"]
    /\ dbWorker' = [dbWorker EXCEPT ![t] = None]
    /\ aged' = aged \ {t}
    /\ UNCHANGED dbRetry

(* Write of the hash: set_task_status, or hset of the status field. *)
SetRedis(t, status) == redis' = [redis EXCEPT ![t] = status]

\* The hash's 24 hour TTL runs out.
HashExpires(t) ==
    /\ "expiry" \in Faults
    /\ redis[t] # "absent"
    /\ SetRedis(t, "absent")
    /\ UNCHANGED dbVars
=============================================================================
