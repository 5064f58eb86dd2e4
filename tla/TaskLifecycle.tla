--------------------------- MODULE TaskLifecycle ---------------------------
(***************************************************************************)
(* The life of a task from its submission to a durable outcome: the master *)
(* (MasterService), Kafka (KafkaGroup) and the workers (WorkerRuntime)     *)
(* around the two status stores (TaskStores).                              *)
(***************************************************************************)
EXTENDS MasterService, WorkerRuntime

vars == <<storeVars, masterVars, kafkaVars, workerVars>>

Init == StoresInit /\ MasterInit /\ KafkaInit /\ WorkerInit

\* A background send is confirmed by the broker, in a partition of its choice.
SendConfirmed(t, p) ==
    /\ outbox[t] > 0
    /\ outbox' = [outbox EXCEPT ![t] = @ - 1]
    /\ AppendMessage(t, p)
    /\ UNCHANGED <<request, storeVars, workerVars>>

\* Bound: a retry can lose its update, and send, any number of times; here only
\* while nothing else is under way and no partition holds more than MaxRetries
\* messages.
FewMessages ==
    /\ \A t \in Tasks : outbox[t] = 0
    /\ \A p \in Partitions : Len(log[p]) <= MaxRetries /\ position[p] = Len(log[p])
    /\ \A s \in Slots : attempt[s].task = None

MasterNext ==
    /\ \/ \E c \in Clients :
             RequestStep(c) \/ RequestFails(c) \/ (UpdateIsLost(c) /\ FewMessages)
       \/ \E c \in Clients, t \in Tasks : RequestStarts(c, t)
       \/ \E t \in Tasks : SendFails(t)
       \/ MasterCrash
    /\ UNCHANGED <<kafkaVars, workerVars>>

ProcessNext ==
    \E w \in Workers :
        \/ Register(w)
        \/ RegisterExpire(w)
        \/ HeartbeatSet(w)
        \/ HeartbeatExpire(w)
        \/ KeyExpires(w)
        \/ Crash(w)
        \/ Shutdown(w)
        \/ Stop(w)

ConsumerNext ==
    \/ \E p \in Partitions, w \in Workers :
          \/ Assign(p, w)
          \/ Rebalance(p, w)
          \/ Consume(w, p)
    \/ \E w \in Workers : CommitSkipped(w) \/ CommitIdle(w)

AttemptNext ==
    \E s \in Slots :
        AttemptStep(s) \/ TimesOut(s) \/ SaveFails(s) \/ MarkFails(s) \/ CountFails(s)

SweepNext ==
    \/ \E w \in Workers : SweepStep(w) \/ SweepFails(w)
    \/ \E t \in Tasks : Age(t)

WorkerNext ==
    /\ ProcessNext \/ ConsumerNext \/ AttemptNext \/ SweepNext
    /\ UNCHANGED masterVars

Next ==
    \/ MasterNext
    \/ WorkerNext
    \/ \E t \in Tasks, p \in Partitions : SendConfirmed(t, p)
    \/ \E t \in Tasks : HashExpires(t) /\ UNCHANGED <<masterVars, kafkaVars, workerVars>>

Spec == Init /\ [][Next]_vars

\* Every coroutine that can go on does, a message sent is confirmed, a
\* partition gets an owner, and time passes.  No request is ever promised, and
\* no failure.
Fairness ==
    /\ \A c \in Clients : WF_vars(RequestStep(c) /\ UNCHANGED <<kafkaVars, workerVars>>)
    /\ \A t \in Tasks : WF_vars(\E p \in Partitions : SendConfirmed(t, p))
    /\ \A w \in Workers :
          /\ WF_vars((Register(w) \/ RegisterExpire(w)) /\ UNCHANGED masterVars)
          /\ WF_vars((HeartbeatSet(w) \/ HeartbeatExpire(w)) /\ UNCHANGED masterVars)
          /\ WF_vars(KeyExpires(w) /\ UNCHANGED masterVars)
          /\ WF_vars(CommitSkipped(w) /\ UNCHANGED masterVars)
          /\ WF_vars(Stop(w) /\ UNCHANGED masterVars)
          /\ WF_vars(SweepStep(w) /\ UNCHANGED masterVars)
    /\ \A p \in Partitions :
          /\ WF_vars((\E w \in Workers : Assign(p, w)) /\ UNCHANGED masterVars)
          /\ WF_vars((\E w \in Workers : Consume(w, p)) /\ UNCHANGED masterVars)
    /\ \A s \in Slots : WF_vars(AttemptStep(s) /\ UNCHANGED masterVars)
    /\ \A t \in Tasks : WF_vars(Age(t) /\ UNCHANGED masterVars)

FairSpec == Spec /\ Fairness

-----------------------------------------------------------------------------
TypeOK == StoresTypeOK /\ MasterTypeOK /\ KafkaTypeOK /\ WorkerTypeOK

\* Whatever carries a task through the system, a request past its first
\* commit, a background send, a message or a coroutine, its row is there:
\* submit_single_workflow commits the row before anything else can name it.
MessageHasRow ==
    \A t \in Tasks : dbStatus[t] = "absent" =>
        /\ \A c \in Clients : request[c].task # t
        /\ outbox[t] = 0
        /\ \A p \in Partitions : \A i \in DOMAIN log[p] : log[p][i] # t
        /\ \A s \in Slots : attempt[s].task # t

\* retry_task's check of retry_count against max_retries bounds the column
\* although requests that overlap check and write it in any order.
RetryBound == \A t \in Tasks : dbRetry[t] <= MaxRetries

\* A row leaves a terminal status for pending only by a retry request: a sweep
\* that listed the row while it ran must find, at its UPDATE, that it is over.
ReopenedByRetry ==
    [][\A t \in Tasks :
          dbStatus[t] \in Finished /\ dbStatus'[t] = "pending"
              => \E c \in Clients :
                    /\ request[c].at = "retrySave" /\ request[c].task = t
                    /\ request'[c].at = "seed"]_vars

\* Stages in which a coroutine has put running in the row and not yet an outcome.
RunningStages == {"executing", "cancelling", "redisOutcome", "dbOutcome"}

\* A row that names a live worker as its runner is being run by that worker:
\* what lets recovery look at nothing but heartbeats.  It takes stores that do
\* not fail, for update_task_status_in_db ignores a failed write.
RunningRowHasRunner ==
    \A t \in Tasks :
        dbStatus[t] = "running" /\ Alive(dbWorker[t]) =>
            \E s \in Slots : /\ attempt[s].task = t
                             /\ attempt[s].worker = dbWorker[t]
                             /\ attempt[s].at \in RunningStages

\* Something will still execute t: a handler about to send it, a send under
\* way, a message not yet fetched, or a coroutine that has not ended.
Dispatched(t) ==
    \/ \E c \in Clients : request[c].task = t /\ request[c].at \in {"seed", "dispatch"}
    \/ outbox[t] > 0
    \/ \E p \in Partitions :
          \E i \in DOMAIN log[p] : i > position[p] /\ log[p][i] = t
    \/ \E s \in Slots : attempt[s].task = t /\ attempt[s].at # "ack"

\* A row is not left pending with nothing on its way that would run the task:
\* retry_task refuses a pending row, so such a task waits for ever.
PendingIsDispatched ==
    \A t \in Tasks : dbStatus[t] = "pending" => Dispatched(t)

\* docs/state-model.md: "Recovered tasks are reset to pending so Kafka redelivery
\* or manual retry can resume them".  retry_task refuses a pending row, so there
\* must be a message for the task.
RecoveredIsDispatched ==
    [][\A t \in Tasks :
          dbStatus[t] = "running" /\ dbStatus'[t] = "pending" => Dispatched(t)']_vars

\* The row as those see it who read only MySQL.
Durable ==
    INSTANCE DurableStatus
    WITH status <- dbStatus, Reopened <- IF "retry" \in Operations THEN Retryable ELSE {}

\* Master, Kafka and workers implement the durable status through any crash and
\* redelivery where nobody retries and at most one worker sweeps: the checks of
\* the hash keep a row that is over from running again or ending twice.  With
\* retries they do where these do not overlap and no message is redelivered.
RefinesDurableStatus == Durable!Spec

\* Every submitted task reaches a terminal status in MySQL.
EveryTaskFinishes ==
    \A t \in Tasks : dbStatus[t] # "absent" ~> dbStatus[t] \in Finished

\* docs/state-model.md's last invariant, of the row: a task does not stay running
\* under a worker that has disappeared.
StaleRunningRecovered ==
    \A t \in Tasks, w \in Workers :
        dbStatus[t] = "running" /\ dbWorker[t] = w /\ worker[w] = "down"
            ~> ~(dbStatus[t] = "running" /\ dbWorker[t] = w)

\* A task that was cancelled ("Task cancelled before execution", says its row) is
\* not executed: only a retry takes it out of cancelled.
CancelledStaysCancelled ==
    [][\A t \in Tasks :
          dbStatus[t] = "cancelled" => dbStatus'[t] \in {"cancelled", "pending"}]_vars

\* What GET /task/{task_id}/status answers: the hash, else the row.
ReportedStatus(t) == IF redis[t] # "absent" THEN redis[t] ELSE dbStatus[t]

\* docs/state-model.md: "Redis and MySQL may differ briefly during in-flight
\* execution".  A task clients are told is running is some day told otherwise.
ReportedRunningEnds ==
    \A t \in Tasks : ReportedStatus(t) = "running" ~> ReportedStatus(t) # "running"
=============================================================================
