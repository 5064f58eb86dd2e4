--------------------------- MODULE WorkerRuntime ---------------------------
(***************************************************************************)
(* A worker process (apps/worker/runtime/main.py): one event loop running  *)
(* the heartbeat, the recovery sweep, the Kafka consumer loop and one      *)
(* coroutine (execute_task_with_semaphore) per message it took on.  Each   *)
(* await is a step of its own; a crash ends all of them at once.           *)
(***************************************************************************)
EXTENDS KafkaGroup

CONSTANTS Slots,    \* bounds the coroutines alive at the same time
          Capacity  \* permits of task_semaphore (WORKER_CONCURRENCY)

ASSUME WorkerAssumption == Capacity \in Nat \ {0}

VARIABLES
    worker,   \* per worker: its process
    key,      \* per worker: worker:<id> in Redis, with its 60 s TTL or without
    polling,  \* per worker and partition: the offset its loop will commit for
              \* the messages it skipped, 0 when it skipped none
    sweep,    \* per worker: its recover_stale_running_tasks
    attempt   \* per slot: a coroutine, or NoAttempt

workerVars == <<worker, key, polling, sweep, attempt>>

ProcessStates == {"new", "registering", "up", "draining", "down"}
KeyStates == {"absent", "noTTL", "ttl"}
AttemptStages ==
    {"free", "queued", "claimed", "marked", "executing", "cancelling",
     "redisOutcome", "dbOutcome", "ack"}
\* "large" is success with totalSteps > 50, "raised" the failure recorded by
\* the handler around the whole coroutine, "none" no outcome.
Outcomes == {"none", "success", "large", "failed", "timeout", "raised"}

Message == [part : Partitions \cup {None}, offset : Nat]
Recording == {"redisOutcome", "dbOutcome"}

\* A coroutine that records an outcome has one.
Attempt ==
    {a \in [at : AttemptStages, task : Tasks \cup {None},
            worker : Workers \cup {None}, msg : Message, outcome : Outcomes] :
        a.at \in Recording => a.outcome # "none"}
Sweep == [at : {"idle", "query", "reset", "mark"}, active : SUBSET Workers,
          todo : SUBSET Tasks, task : Tasks \cup {None}]

NoMessage == [part |-> None, offset |-> 0]
NoSkips == [p \in Partitions |-> 0]
NoAttempt == [at |-> "free", task |-> None, worker |-> None,
              msg |-> NoMessage, outcome |-> "none"]
NoSweep == [at |-> "idle", active |-> {}, todo |-> {}, task |-> None]

WorkerTypeOK ==
    /\ worker \in [Workers -> ProcessStates]
    /\ key \in [Workers -> KeyStates]
    /\ polling \in [Workers -> [Partitions -> Nat]]
    /\ sweep \in [Workers -> Sweep]
    /\ attempt \in [Slots -> Attempt]

WorkerInit ==
    /\ worker = [w \in Workers |-> "new"]
    /\ key = [w \in Workers |-> "absent"]
    /\ polling = [w \in Workers |-> NoSkips]
    /\ sweep = [w \in Workers |-> NoSweep]
    /\ attempt = [s \in Slots |-> NoAttempt]

-----------------------------------------------------------------------------
(* The process and its heartbeat *)

Alive(w) == worker[w] \in {"up", "draining"}

\* Leaving `with ThreadPoolExecutor' after wait_for cancelled the coroutine
\* waits for the engine's thread, and so does every coroutine of the loop.
Blocked(w) ==
    \E s \in Slots : attempt[s].worker = w /\ attempt[s].at = "cancelling"

\* w's event loop turns.
LoopRuns(w) == Alive(w) /\ ~Blocked(w)

\* register_worker's HSETs create the key.
Register(w) ==
    /\ worker[w] = "new"
    /\ worker' = [worker EXCEPT ![w] = "registering"]
    /\ key' = [key EXCEPT ![w] = "noTTL"]
    /\ UNCHANGED <<polling, sweep, attempt, storeVars, kafkaVars>>

\* register_worker's EXPIRE; main then starts its loops.
RegisterExpire(w) ==
    /\ worker[w] = "registering"
    /\ worker' = [worker EXCEPT ![w] = "up"]
    /\ key' = [key EXCEPT ![w] = "ttl"]
    /\ UNCHANGED <<polling, sweep, attempt, storeVars, kafkaVars>>

\* send_heartbeat's first HSET brings back a key that has expired, without a
\* TTL; on a key that exists it changes nothing the model keeps.
HeartbeatSet(w) ==
    /\ worker[w] = "up" /\ LoopRuns(w)
    /\ key[w] = "absent"
    /\ key' = [key EXCEPT ![w] = "noTTL"]
    /\ UNCHANGED <<worker, polling, sweep, attempt, storeVars, kafkaVars>>

\* send_heartbeat's EXPIRE, also of an iteration that SIGTERM interrupted.
HeartbeatExpire(w) ==
    /\ LoopRuns(w)
    /\ key[w] = "noTTL"
    /\ key' = [key EXCEPT ![w] = "ttl"]
    /\ UNCHANGED <<worker, polling, sweep, attempt, storeVars, kafkaVars>>

\* No heartbeat for 60 s: the worker is gone, draining or blocked, or Redis
\* refuses it.
KeyExpires(w) ==
    /\ key[w] = "ttl"
    /\ worker[w] \in {"draining", "down"} \/ Blocked(w) \/ "redisError" \in Faults
    /\ key' = [key EXCEPT ![w] = "absent"]
    /\ UNCHANGED <<worker, polling, sweep, attempt, storeVars, kafkaVars>>

\* The deployment never loses its last worker.
Spared(w) == \E v \in Workers \ {w} : worker[v] \in {"new", "registering", "up"}

\* The coroutines of w are gone.
DropCoroutines(w) ==
    /\ polling' = [polling EXCEPT ![w] = NoSkips]
    /\ sweep' = [sweep EXCEPT ![w] = NoSweep]
    /\ attempt' = [s \in Slots |->
                      IF attempt[s].worker = w THEN NoAttempt ELSE attempt[s]]

\* The process is killed; its key stays until the TTL ends it.
Crash(w) ==
    /\ "crash" \in Faults
    /\ worker[w] \in {"registering", "up", "draining"}
    /\ Spared(w)
    /\ worker' = [worker EXCEPT ![w] = "down"]
    /\ DropCoroutines(w)
    /\ LeaveGroup(w)
    /\ UNCHANGED <<key, storeVars>>

\* signal_handler: `running' becomes False, and the three loops end after the
\* iteration they are in.
Shutdown(w) ==
    /\ "shutdown" \in Faults
    /\ worker[w] = "up"
    /\ Spared(w)
    /\ worker' = [worker EXCEPT ![w] = "draining"]
    /\ UNCHANGED <<key, polling, sweep, attempt, storeVars, kafkaVars>>

\* consume_tasks stops its consumer without gathering its coroutines.
StopUngathered(w) ==
    /\ worker[w] = "draining"
    /\ worker' = [worker EXCEPT ![w] = "down"]
    /\ key' = [key EXCEPT ![w] = "absent"]
    /\ DropCoroutines(w)
    /\ LeaveGroup(w)
    /\ UNCHANGED storeVars

\* consume_tasks has gathered its coroutines: consumer.stop(), and main's
\* cleanup deletes the worker key.
Stop(w) ==
    /\ worker[w] = "draining"
    /\ \A s \in Slots : attempt[s].worker # w
    /\ polling[w] = NoSkips
    /\ sweep[w].at = "idle"
    /\ worker' = [worker EXCEPT ![w] = "down"]
    /\ key' = [key EXCEPT ![w] = "absent"]
    /\ LeaveGroup(w)
    /\ UNCHANGED <<polling, sweep, attempt, storeVars>>

\* The group coordinator gives an unowned partition to a live member.
Assign(p, w) ==
    /\ owner[p] = None
    /\ worker[w] = "up"
    /\ AssignTo(p, w)
    /\ UNCHANGED <<workerVars, storeVars>>

\* It moves an owned one; the old owner's coroutines go on.
Rebalance(p, w) ==
    /\ "rebalance" \in Faults
    /\ owner[p] \notin {None, w}
    /\ worker[w] = "up"
    /\ AssignTo(p, w)
    /\ UNCHANGED <<workerVars, storeVars>>

-----------------------------------------------------------------------------
(* consume_tasks *)

\* Take the next message: skip it, on its hash's status or because reading it
\* raised, or give it to a new coroutine.  A getmany batch of several messages
\* is several such steps, and its skipped messages are committed after it.
Consume(w, p) ==
    LET t == NextTask(p)
        msg == [part |-> p, offset |-> position[p]]
    IN  /\ worker[w] = "up" /\ LoopRuns(w)
        /\ owner[p] = w
        /\ HasNext(p)
        /\ Fetch(p)
        /\ \/ /\ redis[t] \in Skipped \/ "redisError" \in Faults
              /\ polling' = [polling EXCEPT ![w][p] = position[p] + 1]
              /\ UNCHANGED attempt
           \/ /\ redis[t] \notin Skipped
              /\ \E s \in Slots :
                    /\ attempt[s] = NoAttempt
                    /\ attempt' = [attempt EXCEPT ![s] =
                                      [at |-> "queued", task |-> t, worker |-> w,
                                       msg |-> msg, outcome |-> "none"]]
              /\ UNCHANGED polling
        /\ UNCHANGED <<worker, key, sweep, storeVars>>

\* consumer.commit(offsets) of the skipped messages.
CommitSkipped(w) ==
    /\ LoopRuns(w)
    /\ polling[w] # NoSkips
    /\ CommitOffsets(w, polling[w])
    /\ polling' = [polling EXCEPT ![w] = NoSkips]
    /\ UNCHANGED <<worker, key, sweep, attempt, storeVars>>

\* consumer.commit() of an iteration that took on no message, every 10 s.
CommitIdle(w) ==
    /\ worker[w] = "up" /\ LoopRuns(w)
    /\ polling[w] = NoSkips
    /\ CommitPositions(w)
    /\ UNCHANGED <<workerVars, storeVars>>

-----------------------------------------------------------------------------
(* execute_task_with_semaphore and execute_task *)

At(s, stage) == attempt[s].at = stage /\ LoopRuns(attempt[s].worker)

Goto(s, stage) == attempt' = [attempt EXCEPT ![s].at = stage]

Holders(w) ==
    {s \in Slots : attempt[s].worker = w /\ attempt[s].at # "queued"}

\* The HSETs of status and current_tasks bring back a key that has expired,
\* without a TTL.
TouchKey(w) ==
    key' = [key EXCEPT ![w] = IF @ = "absent" THEN "noTTL" ELSE @]

\* The semaphore is acquired and the hash read a second time.
Acquire(s) ==
    /\ At(s, "queued")
    /\ Cardinality(Holders(attempt[s].worker)) < Capacity
    /\ IF redis[attempt[s].task] \in Skipped
       THEN Goto(s, "ack") /\ UNCHANGED key
       ELSE Goto(s, "claimed") /\ TouchKey(attempt[s].worker)
    /\ UNCHANGED <<worker, polling, sweep, storeVars, kafkaVars>>

\* execute_task: the hash says running first ...
MarkRunning(s) ==
    /\ At(s, "claimed")
    /\ SetRedis(attempt[s].task, "running")
    /\ Goto(s, "marked")
    /\ UNCHANGED <<worker, key, polling, sweep, dbVars, kafkaVars>>

\* ... then the row.
SaveRunning(s) ==
    /\ At(s, "marked")
    /\ WorkerWritesRow(attempt[s].task, attempt[s].worker, "running")
    /\ Goto(s, "executing")
    /\ UNCHANGED <<worker, key, polling, sweep, redis, kafkaVars>>

\* The engine's thread returns.
Finish(s, outcome) ==
    /\ At(s, "executing")
    /\ outcome \in {"success", "large", "failed"}
    /\ attempt' = [attempt EXCEPT ![s].at = "redisOutcome",
                                  ![s].outcome = outcome]
    /\ UNCHANGED <<worker, key, polling, sweep, storeVars, kafkaVars>>

\* wait_for's deadline passes while the engine's thread still runs ...
TimesOut(s) ==
    /\ "timeout" \in Faults
    /\ At(s, "executing")
    /\ Goto(s, "cancelling")
    /\ UNCHANGED <<worker, key, polling, sweep, storeVars, kafkaVars>>

\* ... the thread ends at last and the loop turns again; or the deadline
\* passes between the writes of an outcome, or in the pause after them.
TimeoutRaised(s) ==
    /\ \/ attempt[s].at = "cancelling"
       \/ /\ "timeout" \in Faults
          /\ At(s, "redisOutcome") \/ At(s, "dbOutcome") \/ At(s, "ack")
          /\ attempt[s].outcome \in {"success", "large", "failed"}
    /\ attempt' = [attempt EXCEPT ![s].at = "redisOutcome",
                                  ![s].outcome = "timeout"]
    /\ UNCHANGED <<worker, key, polling, sweep, storeVars, kafkaVars>>

\* The outcome's own name goes to the stores.
RecordedRaw(outcome) == outcome

\* The status an outcome is recorded as.
Recorded(outcome) ==
    CASE outcome = "large" -> "success"
      [] outcome = "raised" -> "failed"
      [] OTHER -> outcome

\* What keeps a big result out of Redis keeps it out of the row as well.
MarkOutcomeOnlySmall(s) ==
    /\ At(s, "redisOutcome")
    /\ IF attempt[s].outcome = "large"
       THEN UNCHANGED redis /\ Goto(s, "ack")
       ELSE SetRedis(attempt[s].task, Recorded(attempt[s].outcome)) /\ Goto(s, "dbOutcome")
    /\ UNCHANGED <<worker, key, polling, sweep, dbVars, kafkaVars>>

\* The outcome goes to the hash, unless the workflow has more than 50 steps.
MarkOutcome(s) ==
    /\ At(s, "redisOutcome")
    /\ IF attempt[s].outcome = "large"
       THEN UNCHANGED redis
       ELSE SetRedis(attempt[s].task, Recorded(attempt[s].outcome))
    /\ Goto(s, "dbOutcome")
    /\ UNCHANGED <<worker, key, polling, sweep, dbVars, kafkaVars>>

\* The outcome goes to the row.
SaveOutcome(s) ==
    /\ At(s, "dbOutcome")
    /\ WorkerWritesRow(attempt[s].task, attempt[s].worker,
                       Recorded(attempt[s].outcome))
    /\ Goto(s, "ack")
    /\ UNCHANGED <<worker, key, polling, sweep, redis, kafkaVars>>

\* update_task_status_in_db swallows a database error and goes on.
SaveFails(s) ==
    /\ "dbError" \in Faults
    /\ \/ At(s, "marked") /\ Goto(s, "executing")
       \/ At(s, "dbOutcome") /\ Goto(s, "ack")
    /\ UNCHANGED <<worker, key, polling, sweep, storeVars, kafkaVars>>

\* Redis raises.  Before the run, also between the hash's status and its other
\* fields: execute_task's handler records a failure.  Recording a success: a
\* warning.  Recording a failure or a timeout: the outer handler tries once more,
\* and when that raises too nothing is recorded.
MarkFails(s) ==
    /\ "redisError" \in Faults
    /\ \/ /\ At(s, "claimed") \/ At(s, "marked")
          /\ attempt' = [attempt EXCEPT ![s].at = "redisOutcome",
                                        ![s].outcome = "failed"]
       \/ /\ At(s, "redisOutcome")
          /\ attempt[s].outcome = "success"
          /\ Goto(s, "dbOutcome")
       \/ /\ At(s, "redisOutcome")
          /\ attempt[s].outcome \in {"failed", "timeout"}
          /\ attempt' = [attempt EXCEPT ![s].outcome = "raised"]
       \/ /\ At(s, "redisOutcome")
          /\ attempt[s].outcome = "raised"
          /\ attempt' = [attempt EXCEPT ![s].at = "ack", ![s].outcome = "none"]
    /\ UNCHANGED <<worker, key, polling, sweep, storeVars, kafkaVars>>

\* consumer.commit({p: offset + 1}); after an execution current_tasks is counted
\* down; the coroutine ends, freeing its permit.
Ack(s) ==
    /\ At(s, "ack")
    /\ CommitOffsets(attempt[s].worker,
                     [NoSkips EXCEPT ![attempt[s].msg.part] = attempt[s].msg.offset + 1])
    /\ attempt' = [attempt EXCEPT ![s] = NoAttempt]
    /\ IF attempt[s].outcome \in {"none", "raised"}
       THEN UNCHANGED key
       ELSE TouchKey(attempt[s].worker)
    /\ UNCHANGED <<worker, polling, sweep, storeVars>>

\* Redis raises at the second check of the hash or where current_tasks is counted
\* up or, the offset committed, down: the outer handler records a failure, also
\* over the outcome recorded before.
CountFails(s) ==
    /\ "redisError" \in Faults
    /\ \/ /\ At(s, "queued")
          /\ Cardinality(Holders(attempt[s].worker)) < Capacity
          /\ UNCHANGED kafkaVars
       \/ /\ At(s, "ack")
          /\ attempt[s].outcome \notin {"none", "raised"}
          /\ CommitOffsets(attempt[s].worker,
                           [NoSkips EXCEPT ![attempt[s].msg.part] = attempt[s].msg.offset + 1])
    /\ attempt' = [attempt EXCEPT ![s].at = "redisOutcome", ![s].outcome = "raised"]
    /\ UNCHANGED key \/ TouchKey(attempt[s].worker)
    /\ UNCHANGED <<worker, polling, sweep, storeVars>>

AttemptStep(s) ==
    \/ Acquire(s)
    \/ MarkRunning(s)
    \/ SaveRunning(s)
    \/ \E outcome \in Outcomes : Finish(s, outcome)
    \/ TimeoutRaised(s)
    \/ MarkOutcome(s)
    \/ SaveOutcome(s)
    \/ Ack(s)

-----------------------------------------------------------------------------
(* recover_stale_running_tasks *)

Sweeping(w, stage) == sweep[w].at = stage /\ LoopRuns(w)

\* 90 s pass since a row's started_at; no sweep's reads take that long, so the
\* row is not one that a sweep saw aged, and that was started anew since.
Age(t) ==
    /\ dbStatus[t] = "running"
    /\ t \notin aged
    /\ \A w \in Workers : sweep[w].at = "query" => t \notin sweep[w].todo
    /\ aged' = aged \cup {t}
    /\ UNCHANGED <<dbStatus, dbWorker, dbRetry, redis, workerVars, kafkaVars>>

\* The cut-off is computed, which only the rows aged by now are older than, and
\* get_all_workers read.
SweepScan(w) ==
    /\ worker[w] = "up"
    /\ Sweeping(w, "idle")
    /\ sweep' = [sweep EXCEPT ![w].at = "query",
                              ![w].active = {v \in Workers : key[v] # "absent"},
                              ![w].todo = aged]
    /\ UNCHANGED <<worker, key, polling, attempt, storeVars, kafkaVars>>

\* Only the rows of no worker are taken for stale.
StaleOrphans(w) ==
    {t \in sweep[w].todo \cap aged : dbStatus[t] = "running" /\ dbWorker[t] = None}

\* Rows w's sweep would reset: running and older than its cut-off, of no worker
\* it found active.
Stale(w) ==
    {t \in sweep[w].todo \cap aged :
        dbStatus[t] = "running" /\ dbWorker[t] \notin sweep[w].active}

\* query_recoverable_tasks, and the test of each row's worker against the set
\* scanned before.
SweepQuery(w) ==
    /\ Sweeping(w, "query")
    /\ LET rows == Stale(w)
       IN  sweep' = [sweep EXCEPT ![w] =
                        IF rows = {} THEN NoSweep
                        ELSE [NoSweep EXCEPT !.at = "reset", !.todo = rows]]
    /\ UNCHANGED <<worker, key, polling, attempt, storeVars, kafkaVars>>

\* The sweep after it is done with t.
Without(w, t) ==
    IF sweep[w].todo = {t} THEN NoSweep
    ELSE [NoSweep EXCEPT !.at = "reset", !.todo = sweep[w].todo \ {t}]

\* reset_task_after_recovery of one listed row.
SweepReset(w, t) ==
    /\ Sweeping(w, "reset")
    /\ t \in sweep[w].todo
    /\ \/ /\ ResetRow(t)
          /\ sweep' = [sweep EXCEPT ![w].at = "mark", ![w].task = t]
       \/ /\ dbStatus[t] # "running"
          /\ sweep' = [sweep EXCEPT ![w] = Without(w, t)]
          /\ UNCHANGED dbVars
    /\ UNCHANGED <<worker, key, polling, attempt, redis, kafkaVars>>

\* The hash becomes pending too.
SweepMark(w) ==
    /\ Sweeping(w, "mark")
    /\ SetRedis(sweep[w].task, "pending")
    /\ sweep' = [sweep EXCEPT ![w] = Without(w, sweep[w].task)]
    /\ UNCHANGED <<worker, key, polling, attempt, dbVars, kafkaVars>>

\* MySQL or Redis raises: the rest of this sweep is given up.
SweepFails(w) ==
    /\ \/ "dbError" \in Faults /\ Sweeping(w, "reset")
       \/ "redisError" \in Faults /\ Sweeping(w, "mark")
    /\ sweep' = [sweep EXCEPT ![w] = NoSweep]
    /\ UNCHANGED <<worker, key, polling, attempt, storeVars, kafkaVars>>

SweepStep(w) ==
    \/ SweepScan(w)
    \/ SweepQuery(w)
    \/ \E t \in Tasks : SweepReset(w, t)
    \/ SweepMark(w)
=============================================================================
