--------------------------- MODULE MasterService ---------------------------
(***************************************************************************)
(* WorkflowService of the master: submit_single_workflow, cancel_task and  *)
(* retry_task.  Each is a coroutine serving one HTTP request; it awaits    *)
(* MySQL, then Redis, then hands the message to the Kafka producer, and    *)
(* other requests and the workers run between those awaits.                *)
(***************************************************************************)
EXTENDS TaskStores

CONSTANTS Clients,    \* requests served at the same time
          Operations  \* which endpoints this instance's clients call

ASSUME MasterAssumption ==
    /\ None \notin Clients
    /\ Operations \subseteq {"submit", "cancel", "retry"}

VARIABLES
    request,  \* per client: where its handler is, its task, the count it read
    outbox    \* per task: _send_task_async coroutines not yet confirmed

masterVars == <<request, outbox>>

Stages == {"idle", "seed", "dispatch", "retrySave", "cancelSave", "cancelMark"}
Request == [at : Stages, task : Tasks \cup {None}, count : Nat]

NoRequest == [at |-> "idle", task |-> None, count |-> 0]

Retryable == {"failed", "timeout", "cancelled"}

MasterTypeOK ==
    /\ request \in [Clients -> Request]
    /\ outbox \in [Tasks -> Nat]

MasterInit ==
    /\ request = [c \in Clients |-> NoRequest]
    /\ outbox = [t \in Tasks |-> 0]

Enter(c, at, t, count) ==
    request' = [request EXCEPT ![c] = [at |-> at, task |-> t, count |-> count]]

Advance(c, at) == request' = [request EXCEPT ![c].at = at]

Reply(c) == request' = [request EXCEPT ![c] = NoRequest]

-----------------------------------------------------------------------------
\* The row is forgotten: Redis is seeded and the message sent without it.
SubmitUnsaved(c, t) ==
    /\ "submit" \in Operations
    /\ request[c].at = "idle"
    /\ dbStatus[t] = "absent"
    /\ Enter(c, "seed", t, 0)
    /\ UNCHANGED <<storeVars, outbox>>

\* submit_single_workflow up to db_write.commit().
Submit(c, t) ==
    /\ "submit" \in Operations
    /\ request[c].at = "idle"
    /\ dbStatus[t] = "absent"
    /\ InsertRow(t)
    /\ Enter(c, "seed", t, 0)
    /\ UNCHANGED <<redis, outbox>>

\* Of both submit and retry: the hash becomes pending.
SeedRedis(c) ==
    /\ request[c].at = "seed"
    /\ SetRedis(request[c].task, "pending")
    /\ Advance(c, "dispatch")
    /\ UNCHANGED <<dbVars, outbox>>

\* Of both submit and retry: send_task starts a coroutine and returns True,
\* so the handler ends before anything is on the wire.
Dispatch(c) ==
    /\ request[c].at = "dispatch"
    /\ outbox' = [outbox EXCEPT ![request[c].task] = @ + 1]
    /\ Reply(c)
    /\ UNCHANGED storeVars

\* retry_task with the bound off by one.
RetryReadOneMore(c, t) ==
    /\ "retry" \in Operations
    /\ request[c].at = "idle"
    /\ dbStatus[t] \in Retryable
    /\ dbRetry[t] <= MaxRetries
    /\ Enter(c, "retrySave", t, dbRetry[t])
    /\ UNCHANGED <<storeVars, outbox>>

\* retry_task's query and checks.
RetryRead(c, t) ==
    /\ "retry" \in Operations
    /\ request[c].at = "idle"
    /\ dbStatus[t] \in Retryable
    /\ dbRetry[t] < MaxRetries
    /\ Enter(c, "retrySave", t, dbRetry[t])
    /\ UNCHANGED <<storeVars, outbox>>

\* retry_task dispatches without resetting the hash first.
RetrySaveUnseeded(c) ==
    /\ request[c].at = "retrySave"
    /\ ReopenRow(request[c].task, request[c].count + 1)
    /\ Advance(c, "dispatch")
    /\ UNCHANGED <<redis, outbox>>

\* retry_task's update and commit: neither the status nor the count it read is
\* checked again.
RetrySave(c) ==
    /\ request[c].at = "retrySave"
    /\ ReopenRow(request[c].task, request[c].count + 1)
    /\ Advance(c, "seed")
    /\ UNCHANGED <<redis, outbox>>

\* cancel_task's query and check.
CancelRead(c, t) ==
    /\ "cancel" \in Operations
    /\ request[c].at = "idle"
    /\ dbStatus[t] = "pending"
    /\ Enter(c, "cancelSave", t, 0)
    /\ UNCHANGED <<storeVars, outbox>>

\* cancel_task's update and commit, whatever the status is by now.
CancelSave(c) ==
    /\ request[c].at = "cancelSave"
    /\ CloseRow(request[c].task, "cancelled")
    /\ Advance(c, "cancelMark")
    /\ UNCHANGED <<redis, outbox>>

\* _mark_task_cancelled_in_redis, and the reply {"cancelled": True}.
CancelMark(c) ==
    /\ request[c].at = "cancelMark"
    /\ SetRedis(request[c].task, "cancelled")
    /\ Reply(c)
    /\ UNCHANGED <<dbVars, outbox>>

\* send_and_wait fails after the handler has replied: the exception ends the
\* background coroutine and nobody hears of it.
SendFails(t) ==
    /\ "sendFail" \in Faults
    /\ outbox[t] > 0
    /\ outbox' = [outbox EXCEPT ![t] = @ - 1]
    /\ UNCHANGED <<storeVars, request>>

\* A commit, Redis or starting the producer raises: the handler ends with HTTP
\* 500 where it stands.
RequestFails(c) ==
    /\ \/ /\ "sendFail" \in Faults
          /\ request[c].at = "dispatch"
       \/ /\ "dbError" \in Faults
          /\ request[c].at \in {"retrySave", "cancelSave"}
       \/ /\ "redisError" \in Faults
          /\ request[c].at \in {"seed", "cancelMark"}
    /\ Reply(c)
    /\ UNCHANGED <<storeVars, outbox>>

\* update_task_status catches what the database raises and answers False, which
\* neither retry_task nor cancel_task reads: they commit nothing and go on.
UpdateIsLost(c) ==
    /\ "dbError" \in Faults
    /\ \/ request[c].at = "retrySave" /\ Advance(c, "seed")
       \/ request[c].at = "cancelSave" /\ Advance(c, "cancelMark")
    /\ UNCHANGED <<storeVars, outbox>>

\* The master process dies with its handlers and its unsent messages.
MasterCrash ==
    /\ "masterCrash" \in Faults
    /\ request' = [c \in Clients |-> NoRequest]
    /\ outbox' = [t \in Tasks |-> 0]
    /\ UNCHANGED storeVars

RequestStep(c) ==
    \/ SeedRedis(c)
    \/ Dispatch(c)
    \/ RetrySave(c)
    \/ CancelSave(c)
    \/ CancelMark(c)

RequestStarts(c, t) ==
    \/ Submit(c, t)
    \/ RetryRead(c, t)
    \/ CancelRead(c, t)
=============================================================================
