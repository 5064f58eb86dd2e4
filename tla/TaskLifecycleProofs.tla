------------------------ MODULE TaskLifecycleProofs ------------------------
(***************************************************************************)
(* Theorems about TaskLifecycle, for every number of tasks, workers,       *)
(* partitions and clients and every set of faults unless said otherwise.   *)
(***************************************************************************)
EXTENDS TaskLifecycle, TLAPS

-----------------------------------------------------------------------------
(* Types *)

RowTypeOK ==
    /\ dbStatus \in [Tasks -> Status]
    /\ dbWorker \in [Tasks -> Workers \cup {None}]
    /\ dbRetry \in [Tasks -> Nat]
    /\ aged \in SUBSET Tasks

\* Every write of a row keeps the row's type.
LEMMA RowTypes ==
    ASSUME RowTypeOK, NEW t,
           \/ InsertRow(t)
           \/ \E n \in Nat : ReopenRow(t, n)
           \/ \E st \in Status : CloseRow(t, st)
           \/ \E w \in Workers \cup {None}, st \in Status : WorkerWritesRow(t, w, st)
           \/ ResetRow(t)
           \/ UNCHANGED dbVars
    PROVE  RowTypeOK'
  BY DEF RowTypeOK, dbVars, InsertRow, ReopenRow, CloseRow, WorkerWritesRow,
         ResetRow, Status, Finished

\* So does every write of a hash.
LEMMA HashTypes ==
    ASSUME redis \in [Tasks -> Status], NEW t, NEW st \in Status, SetRedis(t, st)
    PROVE  redis' \in [Tasks -> Status]
  BY DEF SetRedis

LEMMA RequestTypes ==
    ASSUME MasterTypeOK, NEW c \in Clients, NEW at \in Stages,
           \/ \E t \in Tasks, n \in Nat : Enter(c, at, t, n)
           \/ Advance(c, at)
           \/ Reply(c)
           \/ request' = [d \in Clients |-> NoRequest]
    PROVE  request' \in [Clients -> Request]
  BY DEF MasterTypeOK, Enter, Advance, Reply, NoRequest, Request, Stages

LEMMA MasterTypes ==
    ASSUME StoresTypeOK, MasterTypeOK, MasterNext
    PROVE  StoresTypeOK' /\ MasterTypeOK'
  <1>. USE DEF StoresTypeOK, MasterTypeOK, RowTypeOK
  <1>1. ASSUME NEW c \in Clients, RequestStep(c)
        PROVE  StoresTypeOK' /\ MasterTypeOK'
    <2>1. request[c].count \in Nat
      BY DEF Request
    <2>2. CASE SeedRedis(c)
      BY <2>2, HashTypes, RequestTypes DEF SeedRedis, dbVars, Status, Stages
    <2>3. CASE Dispatch(c)
      <3>1. outbox' \in [Tasks -> Nat]
        <4>1. \A t \in Tasks : outbox'[t] = IF t = request[c].task THEN outbox[t] + 1
                                                                  ELSE outbox[t]
          BY <2>3 DEF Dispatch
        <4>2. outbox' = [t \in Tasks |-> outbox'[t]]
          BY <2>3 DEF Dispatch
        <4>. QED  BY <4>1, <4>2
      <3>. QED  BY <2>3, <3>1, RequestTypes DEF Dispatch, storeVars, dbVars, Stages
    <2>4. CASE RetrySave(c)
      <3>1. ReopenRow(request[c].task, request[c].count + 1) /\ request[c].count + 1 \in Nat
        BY <2>1, <2>4 DEF RetrySave
      <3>2. RowTypeOK'
        BY <3>1, RowTypes
      <3>. QED  BY <2>4, <3>2, RequestTypes DEF RetrySave, Stages
    <2>5. CASE CancelSave(c)
      BY <2>5, RowTypes, RequestTypes DEF CancelSave, Stages, Status, Finished
    <2>6. CASE CancelMark(c)
      BY <2>6, HashTypes, RequestTypes DEF CancelMark, dbVars, Status, Finished, Stages
    <2>. QED  BY <1>1, <2>2, <2>3, <2>4, <2>5, <2>6 DEF RequestStep
  <1>2. ASSUME NEW c \in Clients, RequestFails(c) \/ UpdateIsLost(c)
        PROVE  StoresTypeOK' /\ MasterTypeOK'
    BY <1>2, RequestTypes DEF RequestFails, UpdateIsLost, storeVars, dbVars, Stages
  <1>3. ASSUME NEW c \in Clients, NEW t \in Tasks, RequestStarts(c, t)
        PROVE  StoresTypeOK' /\ MasterTypeOK'
    <2>1. CASE Submit(c, t)
      BY <2>1, RowTypes, RequestTypes DEF Submit, Stages
    <2>2. CASE RetryRead(c, t)
      BY <2>2, RequestTypes DEF RetryRead, storeVars, dbVars, Stages
    <2>3. CASE CancelRead(c, t)
      BY <2>3, RequestTypes DEF CancelRead, storeVars, dbVars, Stages
    <2>. QED  BY <1>3, <2>1, <2>2, <2>3 DEF RequestStarts
  <1>4. ASSUME NEW t \in Tasks, SendFails(t)
        PROVE  StoresTypeOK' /\ MasterTypeOK'
    BY <1>4 DEF SendFails, storeVars, dbVars
  <1>5. ASSUME MasterCrash
        PROVE  StoresTypeOK' /\ MasterTypeOK'
    BY <1>5 DEF MasterCrash, storeVars, dbVars, NoRequest, Request, Stages
  <1>. QED  BY <1>1, <1>2, <1>3, <1>4, <1>5 DEF MasterNext

LEMMA NullTypes ==
    /\ NoSkips \in [Partitions -> Nat]
    /\ NoAttempt \in Attempt
    /\ NoSweep \in Sweep
  BY DEF NoSkips, NoAttempt, Attempt, NoMessage, Message, NoSweep, Sweep,
         AttemptStages, Outcomes, Recording

\* A coroutine moves to a stage, with an outcome, or ends.
LEMMA AttemptTypes ==
    ASSUME attempt \in [Slots -> Attempt], NEW s \in Slots,
           NEW stage \in AttemptStages, NEW outcome \in Outcomes,
           \/ Goto(s, stage) /\ (stage \in Recording => attempt[s].outcome # "none")
           \/ /\ attempt' = [attempt EXCEPT ![s].at = stage, ![s].outcome = outcome]
              /\ stage \in Recording => outcome # "none"
           \/ attempt' = [attempt EXCEPT ![s].outcome = outcome] /\ outcome # "none"
    PROVE  attempt' \in [Slots -> Attempt]
  BY DEF Goto, Attempt

LEMMA DropTypes ==
    ASSUME WorkerTypeOK, NEW w \in Workers, DropCoroutines(w)
    PROVE  /\ polling' \in [Workers -> [Partitions -> Nat]]
           /\ sweep' \in [Workers -> Sweep]
           /\ attempt' \in [Slots -> Attempt]
  BY NullTypes DEF WorkerTypeOK, DropCoroutines

LEMMA KafkaTypes ==
    ASSUME KafkaTypeOK, NEW w \in Workers \cup {None},
           \/ \E t \in Tasks, p \in Partitions : AppendMessage(t, p)
           \/ \E p \in Partitions : Fetch(p)
           \/ \E offsets \in [Partitions -> Nat] : CommitOffsets(w, offsets)
           \/ CommitPositions(w)
           \/ \E p \in Partitions : AssignTo(p, w)
           \/ LeaveGroup(w)
    PROVE  KafkaTypeOK'
  <1>. USE DEF KafkaTypeOK
  <1>1. ASSUME NEW t \in Tasks, NEW p \in Partitions, AppendMessage(t, p)
        PROVE  KafkaTypeOK'
    BY <1>1 DEF AppendMessage
  <1>2. ASSUME NEW p \in Partitions, Fetch(p)
        PROVE  KafkaTypeOK'
    BY <1>2 DEF Fetch
  <1>3. ASSUME NEW offsets \in [Partitions -> Nat], CommitOffsets(w, offsets)
        PROVE  KafkaTypeOK'
    BY <1>3 DEF CommitOffsets
  <1>4. CASE CommitPositions(w)
    BY <1>4 DEF CommitPositions
  <1>5. ASSUME NEW p \in Partitions, AssignTo(p, w)
        PROVE  KafkaTypeOK'
    BY <1>5 DEF AssignTo
  <1>6. CASE LeaveGroup(w)
    BY <1>6 DEF LeaveGroup
  <1>. QED  BY <1>1, <1>2, <1>3, <1>4, <1>5, <1>6

LEMMA ProcessTypes ==
    ASSUME StoresTypeOK, KafkaTypeOK, WorkerTypeOK, ProcessNext
    PROVE  StoresTypeOK' /\ KafkaTypeOK' /\ WorkerTypeOK'
  <1>. USE DEF StoresTypeOK, storeVars, dbVars
  <1>1. PICK w \in Workers :
            \/ Register(w) \/ RegisterExpire(w) \/ HeartbeatSet(w)
            \/ HeartbeatExpire(w) \/ KeyExpires(w) \/ Crash(w)
            \/ Shutdown(w) \/ Stop(w)
    BY DEF ProcessNext
  <1>2. CASE Register(w) \/ RegisterExpire(w) \/ Shutdown(w)
    BY <1>2 DEF Register, RegisterExpire, Shutdown, WorkerTypeOK, KafkaTypeOK,
                kafkaVars, ProcessStates, KeyStates
  <1>3. CASE HeartbeatSet(w) \/ HeartbeatExpire(w) \/ KeyExpires(w)
    BY <1>3 DEF HeartbeatSet, HeartbeatExpire, KeyExpires, WorkerTypeOK, KafkaTypeOK,
                kafkaVars, KeyStates
  <1>4. CASE Crash(w)
    BY <1>4, KafkaTypes, DropTypes DEF Crash, WorkerTypeOK, ProcessStates
  <1>5. CASE Stop(w)
    BY <1>5, KafkaTypes DEF Stop, WorkerTypeOK, ProcessStates, KeyStates
  <1>. QED  BY <1>1, <1>2, <1>3, <1>4, <1>5

LEMMA ConsumerTypes ==
    ASSUME StoresTypeOK, KafkaTypeOK, WorkerTypeOK, ConsumerNext
    PROVE  StoresTypeOK' /\ KafkaTypeOK' /\ WorkerTypeOK'
  <1>. USE DEF StoresTypeOK, storeVars, dbVars
  <1>1. ASSUME NEW p \in Partitions, NEW w \in Workers, Assign(p, w) \/ Rebalance(p, w)
        PROVE  StoresTypeOK' /\ KafkaTypeOK' /\ WorkerTypeOK'
    BY <1>1, KafkaTypes DEF Assign, Rebalance, WorkerTypeOK, workerVars
  <1>2. ASSUME NEW p \in Partitions, NEW w \in Workers, Consume(w, p)
        PROVE  StoresTypeOK' /\ KafkaTypeOK' /\ WorkerTypeOK'
    <2>1. KafkaTypeOK'
      BY <1>2, KafkaTypes DEF Consume
    <2>2. NextTask(p) \in Tasks /\ position[p] \in Nat
      BY <1>2 DEF Consume, NextTask, HasNext, KafkaTypeOK
    <2>3. CASE UNCHANGED attempt /\ polling' = [polling EXCEPT ![w][p] = position[p] + 1]
      <3>1. polling' \in [Workers -> [Partitions -> Nat]]
        BY <2>2, <2>3 DEF WorkerTypeOK
      <3>. QED  BY <1>2, <2>1, <2>3, <3>1 DEF Consume, WorkerTypeOK
    <2>4. CASE UNCHANGED polling /\ \E s \in Slots :
                  attempt' = [attempt EXCEPT ![s] =
                                [at |-> "queued", task |-> NextTask(p), worker |-> w,
                                 msg |-> [part |-> p, offset |-> position[p]],
                                 outcome |-> "none"]]
      <3>1. attempt' \in [Slots -> Attempt]
        BY <2>2, <2>4 DEF WorkerTypeOK, Attempt, AttemptStages, Outcomes, Recording, Message
      <3>. QED  BY <1>2, <2>1, <2>4, <3>1 DEF Consume, WorkerTypeOK
    <2>. QED  BY <1>2, <2>3, <2>4 DEF Consume
  <1>3. ASSUME NEW w \in Workers, CommitSkipped(w)
        PROVE  StoresTypeOK' /\ KafkaTypeOK' /\ WorkerTypeOK'
    <2>1. polling[w] \in [Partitions -> Nat]
      BY DEF WorkerTypeOK
    <2>. QED  BY <1>3, <2>1, KafkaTypes, NullTypes DEF CommitSkipped, WorkerTypeOK
  <1>4. ASSUME NEW w \in Workers, CommitIdle(w)
        PROVE  StoresTypeOK' /\ KafkaTypeOK' /\ WorkerTypeOK'
    BY <1>4, KafkaTypes DEF CommitIdle, WorkerTypeOK, workerVars
  <1>. QED  BY <1>1, <1>2, <1>3, <1>4 DEF ConsumerNext

LEMMA KeyTypes ==
    ASSUME key \in [Workers -> KeyStates], NEW w, TouchKey(w)
    PROVE  key' \in [Workers -> KeyStates]
  BY DEF TouchKey, KeyStates

LEMMA CoroutineTypes ==
    ASSUME StoresTypeOK, KafkaTypeOK, WorkerTypeOK, AttemptNext
    PROVE  StoresTypeOK' /\ KafkaTypeOK' /\ WorkerTypeOK'
  <1>. USE DEF RowTypeOK
  <1>1. PICK s \in Slots :
            AttemptStep(s) \/ TimesOut(s) \/ SaveFails(s) \/ MarkFails(s) \/ CountFails(s)
    BY DEF AttemptNext
  <1>2. /\ attempt \in [Slots -> Attempt]
        /\ attempt[s] \in Attempt
        /\ attempt[s].worker \in Workers \cup {None}
        /\ attempt[s].outcome \in Outcomes
        /\ attempt[s].at \in Recording => attempt[s].outcome # "none"
    BY DEF WorkerTypeOK, Attempt
  <1>3. ASSUME UNCHANGED kafkaVars
        PROVE  KafkaTypeOK'
    BY <1>3 DEF KafkaTypeOK, kafkaVars
  <1>14. [NoSkips EXCEPT ![attempt[s].msg.part] = attempt[s].msg.offset + 1]
            \in [Partitions -> Nat]
    <2>1. attempt[s].msg.offset + 1 \in Nat
      BY <1>2 DEF Attempt, Message
    <2>2. \A x : \A n \in Nat : [NoSkips EXCEPT ![x] = n] \in [Partitions -> Nat]
      BY NullTypes
    <2>. QED  BY <2>1, <2>2
  <1>4. CASE Acquire(s)
    <2>1. attempt' \in [Slots -> Attempt]
      BY <1>2, <1>4, AttemptTypes DEF Acquire, AttemptStages, Outcomes, Recording
    <2>2. key' \in [Workers -> KeyStates]
      BY <1>4, KeyTypes DEF Acquire, WorkerTypeOK
    <2>. QED  BY <1>3, <1>4, <2>1, <2>2 DEF Acquire, WorkerTypeOK, StoresTypeOK, storeVars, dbVars
  <1>5. CASE MarkRunning(s)
    <2>1. attempt' \in [Slots -> Attempt]
      BY <1>2, <1>5, AttemptTypes DEF MarkRunning, AttemptStages, Outcomes, Recording
    <2>2. redis' \in [Tasks -> Status]
      BY <1>5, HashTypes DEF MarkRunning, StoresTypeOK, Status
    <2>. QED  BY <1>3, <1>5, <2>1, <2>2 DEF MarkRunning, WorkerTypeOK, StoresTypeOK, dbVars
  <1>6. CASE SaveRunning(s)
    <2>1. attempt' \in [Slots -> Attempt]
      BY <1>2, <1>6, AttemptTypes DEF SaveRunning, AttemptStages, Outcomes, Recording
    <2>2. RowTypeOK'
      BY <1>2, <1>6, RowTypes DEF SaveRunning, StoresTypeOK, Status
    <2>. QED  BY <1>3, <1>6, <2>1, <2>2 DEF SaveRunning, WorkerTypeOK, StoresTypeOK
  <1>7. ASSUME NEW outcome \in Outcomes, Finish(s, outcome)
        PROVE  StoresTypeOK' /\ KafkaTypeOK' /\ WorkerTypeOK'
    <2>1. attempt' \in [Slots -> Attempt]
      BY <1>2, <1>7, AttemptTypes DEF Finish, AttemptStages, Outcomes, Recording
    <2>. QED  BY <1>3, <1>7, <2>1 DEF Finish, WorkerTypeOK, StoresTypeOK, storeVars, dbVars
  <1>8. CASE TimeoutRaised(s)
    <2>1. attempt' \in [Slots -> Attempt]
      BY <1>2, <1>8, AttemptTypes DEF TimeoutRaised, AttemptStages, Outcomes, Recording
    <2>. QED  BY <1>3, <1>8, <2>1 DEF TimeoutRaised, WorkerTypeOK, StoresTypeOK, storeVars, dbVars
  <1>9. CASE MarkOutcome(s)
    <2>1. attempt' \in [Slots -> Attempt]
      BY <1>2, <1>9, AttemptTypes DEF MarkOutcome, At, AttemptStages, Recording
    <2>2. redis' \in [Tasks -> Status]
      BY <1>2, <1>9, HashTypes
         DEF MarkOutcome, At, Recorded, Recording, Outcomes, StoresTypeOK, Status, Finished
    <2>. QED  BY <1>3, <1>9, <2>1, <2>2 DEF MarkOutcome, WorkerTypeOK, StoresTypeOK, dbVars
  <1>10. CASE SaveOutcome(s)
    <2>1. attempt' \in [Slots -> Attempt]
      BY <1>2, <1>10, AttemptTypes DEF SaveOutcome, AttemptStages, Recording
    <2>2. RowTypeOK'
      BY <1>2, <1>10, RowTypes
         DEF SaveOutcome, At, Recorded, Recording, Outcomes, StoresTypeOK, Status, Finished
    <2>. QED  BY <1>3, <1>10, <2>1, <2>2 DEF SaveOutcome, WorkerTypeOK, StoresTypeOK
  <1>11. CASE Ack(s)
    <2>1. attempt' \in [Slots -> Attempt]
      BY <1>2, <1>11, NullTypes DEF Ack
    <2>2. key' \in [Workers -> KeyStates]
      BY <1>11, KeyTypes DEF Ack, WorkerTypeOK
    <2>3. KafkaTypeOK'
      BY <1>2, <1>11, <1>14, KafkaTypes DEF Ack
    <2>. QED  BY <1>11, <2>1, <2>2, <2>3 DEF Ack, WorkerTypeOK, StoresTypeOK, storeVars, dbVars
  <1>12. CASE TimesOut(s) \/ SaveFails(s) \/ MarkFails(s)
    <2>1. attempt' \in [Slots -> Attempt]
      BY <1>2, <1>12, AttemptTypes DEF TimesOut, SaveFails, MarkFails, At, AttemptStages, Outcomes, Recording
    <2>. QED
      BY <1>3, <1>12, <2>1 DEF TimesOut, SaveFails, MarkFails, WorkerTypeOK, StoresTypeOK,
                             storeVars, dbVars
  <1>13. CASE CountFails(s)
    <2>1. attempt' \in [Slots -> Attempt]
      BY <1>2, <1>13, AttemptTypes DEF CountFails, At, AttemptStages, Outcomes, Recording
    <2>2. key' \in [Workers -> KeyStates]
      BY <1>13, KeyTypes DEF CountFails, WorkerTypeOK
    <2>3. KafkaTypeOK'
      BY <1>2, <1>3, <1>13, <1>14, KafkaTypes DEF CountFails
    <2>. QED  BY <1>13, <2>1, <2>2, <2>3 DEF CountFails, WorkerTypeOK, StoresTypeOK, storeVars, dbVars
  <1>. QED
    BY <1>1, <1>4, <1>5, <1>6, <1>7, <1>8, <1>9, <1>10, <1>11, <1>12, <1>13 DEF AttemptStep

LEMMA SweepTypes ==
    ASSUME StoresTypeOK, KafkaTypeOK, WorkerTypeOK, SweepNext
    PROVE  StoresTypeOK' /\ KafkaTypeOK' /\ WorkerTypeOK'
  <1>. USE DEF RowTypeOK
  <1>1. ASSUME UNCHANGED kafkaVars
        PROVE  KafkaTypeOK'
    BY <1>1 DEF KafkaTypeOK, kafkaVars
  <1>2. ASSUME NEW w \in Workers, SweepStep(w) \/ SweepFails(w)
        PROVE  StoresTypeOK' /\ KafkaTypeOK' /\ WorkerTypeOK'
    <2>1. /\ sweep \in [Workers -> Sweep]
          /\ sweep[w] \in Sweep
          /\ \A t \in Tasks \cup {None} : Without(w, t) \in Sweep
      BY NullTypes DEF WorkerTypeOK, Without, NoSweep, Sweep
    <2>2. CASE SweepScan(w)
      <3>1. sweep' \in [Workers -> Sweep]
        BY <2>1, <2>2 DEF SweepScan, Sweep, StoresTypeOK
      <3>. QED  BY <1>1, <2>2, <3>1 DEF SweepScan, WorkerTypeOK, StoresTypeOK, storeVars, dbVars
    <2>3. CASE SweepQuery(w)
      <3>1. Stale(w) \in SUBSET Tasks
        BY <2>1 DEF Stale, Sweep
      <3>2. sweep' \in [Workers -> Sweep]
        BY <2>1, <2>3, <3>1, NullTypes DEF SweepQuery, NoSweep, Sweep
      <3>. QED  BY <1>1, <2>3, <3>2 DEF SweepQuery, WorkerTypeOK, StoresTypeOK, storeVars, dbVars
    <2>4. ASSUME NEW t \in Tasks, SweepReset(w, t)
          PROVE  StoresTypeOK' /\ KafkaTypeOK' /\ WorkerTypeOK'
      <3>1. sweep' \in [Workers -> Sweep]
        BY <2>1, <2>4 DEF SweepReset, Sweep
      <3>2. RowTypeOK'
        BY <2>4, RowTypes DEF SweepReset, StoresTypeOK
      <3>. QED  BY <1>1, <2>4, <3>1, <3>2 DEF SweepReset, WorkerTypeOK, StoresTypeOK
    <2>5. CASE SweepMark(w)
      <3>1. sweep' \in [Workers -> Sweep]
        BY <2>1, <2>5 DEF SweepMark, Sweep
      <3>2. redis' \in [Tasks -> Status]
        BY <2>5, HashTypes DEF SweepMark, StoresTypeOK, Status
      <3>. QED  BY <1>1, <2>5, <3>1, <3>2 DEF SweepMark, WorkerTypeOK, StoresTypeOK, dbVars
    <2>6. CASE SweepFails(w)
      BY <1>1, <2>1, <2>6, NullTypes
         DEF SweepFails, WorkerTypeOK, StoresTypeOK, storeVars, dbVars
    <2>. QED  BY <1>2, <2>2, <2>3, <2>4, <2>5, <2>6 DEF SweepStep
  <1>3. ASSUME NEW t \in Tasks, Age(t)
        PROVE  StoresTypeOK' /\ KafkaTypeOK' /\ WorkerTypeOK'
    BY <1>1, <1>3 DEF Age, WorkerTypeOK, StoresTypeOK, workerVars
  <1>. QED  BY <1>2, <1>3 DEF SweepNext

\* So has it after every step.
LEMMA TypeStep ==
    ASSUME TypeOK, [Next]_vars
    PROVE  TypeOK'
  <1>. USE DEF TypeOK
  <1>1. CASE MasterNext
    BY <1>1, MasterTypes DEF MasterNext, KafkaTypeOK, WorkerTypeOK, kafkaVars, workerVars
  <1>2. CASE WorkerNext
    BY <1>2, ProcessTypes, ConsumerTypes, CoroutineTypes, SweepTypes
       DEF WorkerNext, MasterTypeOK, masterVars
  <1>3. ASSUME NEW t \in Tasks, NEW p \in Partitions, SendConfirmed(t, p)
        PROVE  TypeOK'
    <2>1. KafkaTypeOK'
      BY <1>3 DEF SendConfirmed, AppendMessage, KafkaTypeOK
    <2>. QED
      BY <1>3, <2>1 DEF SendConfirmed, MasterTypeOK, WorkerTypeOK, StoresTypeOK,
                      workerVars, storeVars, dbVars
  <1>4. ASSUME NEW t \in Tasks, HashExpires(t), UNCHANGED <<masterVars, kafkaVars, workerVars>>
        PROVE  TypeOK'
    BY <1>4, HashTypes DEF HashExpires, StoresTypeOK, dbVars, Status, MasterTypeOK, KafkaTypeOK,
                           WorkerTypeOK, masterVars, kafkaVars, workerVars
  <1>5. CASE UNCHANGED vars
    BY <1>5 DEF vars, StoresTypeOK, MasterTypeOK, KafkaTypeOK, WorkerTypeOK,
                storeVars, dbVars, masterVars, kafkaVars, workerVars
  <1>. QED  BY <1>1, <1>2, <1>3, <1>4, <1>5 DEF Next

\* Every variable has its type in every reachable state: what the code's status
\* strings, offsets and worker names range over.
THEOREM TypeCorrect == Spec => []TypeOK
  <1>1. Init => TypeOK
    BY NullTypes, StoresAssumption
       DEF Init, TypeOK, StoresInit, StoresTypeOK, MasterInit, MasterTypeOK, KafkaInit,
           KafkaTypeOK, WorkerInit, WorkerTypeOK, NoRequest, Request, Stages, Status,
           ProcessStates, KeyStates
  <1>2. TypeOK /\ [Next]_vars => TypeOK'
    BY TypeStep
  <1>. QED  BY <1>1, <1>2, PTL DEF Spec

-----------------------------------------------------------------------------
(* What a step may do to a row *)

\* c's retry_task commits its update of t.
RetryCommits(c, t) ==
    /\ request[c].at = "retrySave"
    /\ request[c].task = t
    /\ request'[c].at = "seed"
    /\ dbRetry'[t] = request[c].count + 1

RowMoves(t) ==
    /\ dbStatus'[t] = "absent" => dbStatus[t] = "absent"
    /\ dbStatus'[t] = "pending" /\ dbStatus[t] \in Finished =>
          \E c \in Clients : RetryCommits(c, t)
    /\ dbRetry'[t] = dbRetry[t] \/ \E c \in Clients : RetryCommits(c, t)
    /\ dbStatus'[t] = "running" =>
          \/ dbStatus[t] = "running" /\ dbWorker'[t] = dbWorker[t]
          \/ \E s \in Slots : SaveRunning(s) /\ attempt[s].task = t
                              /\ dbWorker'[t] = attempt[s].worker

LEMMA RowStep ==
    ASSUME TypeOK, [Next]_vars, NEW t \in Tasks
    PROVE  RowMoves(t)
  <1>. USE DEF RowMoves
  <1>1. /\ dbStatus \in [Tasks -> Status] /\ dbWorker \in [Tasks -> Workers \cup {None}]
        /\ dbRetry \in [Tasks -> Nat]
        /\ request \in [Clients -> Request]
        /\ attempt \in [Slots -> Attempt]
    BY DEF TypeOK, StoresTypeOK, MasterTypeOK, WorkerTypeOK
  <1>2. CASE UNCHANGED dbVars
    BY <1>2 DEF dbVars, Finished
  <1>3. ASSUME NEW c \in Clients, NEW u \in Tasks, Submit(c, u)
        PROVE  RowMoves(t)
    BY <1>1, <1>3 DEF Submit, InsertRow, Finished
  <1>4. ASSUME NEW c \in Clients, RetrySave(c)
        PROVE  RowMoves(t)
    <2>1. request'[c].at = "seed"
      BY <1>1, <1>4 DEF RetrySave, Advance, Request
    <2>. QED  BY <1>1, <1>4, <2>1 DEF RetrySave, ReopenRow, RetryCommits, Finished
  <1>5. ASSUME NEW c \in Clients, CancelSave(c)
        PROVE  RowMoves(t)
    BY <1>1, <1>5 DEF CancelSave, CloseRow, Finished
  <1>6. ASSUME NEW s \in Slots, SaveRunning(s)
        PROVE  RowMoves(t)
    BY <1>1, <1>6 DEF SaveRunning, WorkerWritesRow, Finished
  <1>7. ASSUME NEW s \in Slots, SaveOutcome(s)
        PROVE  RowMoves(t)
    <2>1. Recorded(attempt[s].outcome) \in Finished
      BY <1>1, <1>7 DEF SaveOutcome, At, Attempt, Recording, Outcomes, Recorded, Finished
    <2>. QED  BY <1>1, <1>7, <2>1 DEF SaveOutcome, WorkerWritesRow, Finished
  <1>8. ASSUME NEW w \in Workers, NEW u \in Tasks, SweepReset(w, u)
        PROVE  RowMoves(t)
    BY <1>1, <1>2, <1>8 DEF SweepReset, ResetRow, Finished
  <1>9. CASE \E u \in Tasks : Age(u)
    BY <1>9 DEF Age, Finished
  <1>. HIDE DEF RowMoves
  <1>10. CASE MasterNext
    BY <1>2, <1>3, <1>4, <1>5, <1>10
       DEF MasterNext, RequestStep, SeedRedis, Dispatch, CancelMark, RequestFails, UpdateIsLost,
           RequestStarts,
           RetryRead, CancelRead, SendFails, MasterCrash, storeVars
  <1>11. CASE ProcessNext
    BY <1>2, <1>11 DEF ProcessNext, Register, RegisterExpire, HeartbeatSet, HeartbeatExpire,
                       KeyExpires, Crash, Shutdown, Stop, storeVars
  <1>12. CASE ConsumerNext
    BY <1>2, <1>12 DEF ConsumerNext, Assign, Rebalance, Consume, CommitSkipped, CommitIdle,
                       storeVars
  <1>13. CASE AttemptNext
    BY <1>2, <1>6, <1>7, <1>13
       DEF AttemptNext, AttemptStep, Acquire, MarkRunning, Finish, TimeoutRaised, MarkOutcome,
           Ack, TimesOut, SaveFails, MarkFails, CountFails, storeVars
  <1>14. CASE SweepNext
    BY <1>2, <1>8, <1>9, <1>14
       DEF SweepNext, SweepStep, SweepScan, SweepQuery, SweepMark, SweepFails, storeVars
  <1>15. CASE (\E u \in Tasks, p \in Partitions : SendConfirmed(u, p))
                \/ \E u \in Tasks : HashExpires(u)
    BY <1>2, <1>15 DEF SendConfirmed, HashExpires, storeVars
  <1>16. CASE UNCHANGED vars
    BY <1>2, <1>16 DEF vars, storeVars
  <1>. QED
    BY <1>10, <1>11, <1>12, <1>13, <1>14, <1>15, <1>16 DEF Next, WorkerNext

\* A finished row becomes pending again only by a retry request's commit: above
\* all not by a sweep that listed it while it ran.
THEOREM OnlyRetryReopens == Spec => ReopenedByRetry
  <1>1. TypeOK /\ [Next]_vars =>
          [\A t \in Tasks :
              dbStatus[t] \in Finished /\ dbStatus'[t] = "pending"
                  => \E c \in Clients :
                        /\ request[c].at = "retrySave" /\ request[c].task = t
                        /\ request'[c].at = "seed"]_vars
    BY RowStep DEF RowMoves, RetryCommits
  <1>. QED  BY <1>1, TypeCorrect, PTL DEF Spec, ReopenedByRetry

-----------------------------------------------------------------------------
(* The retry bound *)

\* RetryBound is not inductive: the count a request has read must still be
\* below the bound when it writes count + 1, however late that is.
RetryInv ==
    /\ RetryBound
    /\ \A c \in Clients : request[c].at = "retrySave" => request[c].count < MaxRetries

LEMMA RequestReads ==
    ASSUME TypeOK, RetryInv, [Next]_vars, NEW c \in Clients
    PROVE  request'[c].at = "retrySave" => request'[c].count < MaxRetries
  <1>. USE DEF RetryInv
  <1>1. request \in [Clients -> Request]
    BY DEF TypeOK, MasterTypeOK
  <1>2. CASE UNCHANGED request
    BY <1>2
  <1>3. ASSUME NEW d \in Clients, RequestStep(d) \/ RequestFails(d) \/ UpdateIsLost(d)
        PROVE  request'[c].at = "retrySave" => request'[c].count < MaxRetries
    BY <1>1, <1>3 DEF RequestStep, RequestFails, UpdateIsLost, SeedRedis, Dispatch, RetrySave,
                      CancelSave, CancelMark, Advance, Reply, NoRequest, Request
  <1>4. ASSUME NEW d \in Clients, NEW t \in Tasks, RequestStarts(d, t)
        PROVE  request'[c].at = "retrySave" => request'[c].count < MaxRetries
    BY <1>1, <1>4 DEF RequestStarts, Submit, RetryRead, CancelRead, Enter
  <1>5. CASE MasterCrash
    BY <1>5 DEF MasterCrash, NoRequest
  <1>6. CASE MasterNext
    BY <1>2, <1>3, <1>4, <1>5, <1>6 DEF MasterNext, SendFails
  <1>. QED
    BY <1>2, <1>6 DEF Next, WorkerNext, masterVars, SendConfirmed, vars

\* retry_count never passes max_retries, whatever the number of requests that
\* read and write it at once.
THEOREM RetriesBounded == Spec => []RetryBound
  <1>1. Init => RetryInv
    BY MasterAssumption, StoresAssumption
       DEF Init, RetryInv, RetryBound, StoresInit, MasterInit, NoRequest
  <1>2. TypeOK /\ RetryInv /\ [Next]_vars => RetryInv'
    <2>. SUFFICES ASSUME TypeOK, RetryInv, [Next]_vars
                  PROVE  RetryInv'
      OBVIOUS
    <2>1. ASSUME NEW t \in Tasks
          PROVE  dbRetry'[t] <= MaxRetries
      <3>1. CASE dbRetry'[t] = dbRetry[t]
        BY <3>1 DEF RetryInv, RetryBound
      <3>2. ASSUME NEW c \in Clients, RetryCommits(c, t)
            PROVE  dbRetry'[t] <= MaxRetries
        <4>1. request[c].count \in Nat /\ request[c].count < MaxRetries
          BY <3>2 DEF RetryCommits, RetryInv, TypeOK, MasterTypeOK, Request
        <4>. QED  BY <3>2, <4>1, StoresAssumption DEF RetryCommits
      <3>. QED  BY <3>1, <3>2, RowStep DEF RowMoves
    <2>. QED  BY <2>1, RequestReads DEF RetryInv, RetryBound
  <1>3. RetryInv => RetryBound
    BY DEF RetryInv
  <1>. QED  BY <1>1, <1>2, <1>3, TypeCorrect, PTL DEF Spec

-----------------------------------------------------------------------------
(* Nothing carries a task that has no row *)

Carried(t) ==
    \/ \E c \in Clients : request[c].task = t
    \/ outbox[t] # 0
    \/ \E p \in Partitions : \E i \in DOMAIN log[p] : log[p][i] = t
    \/ \E s \in Slots : attempt[s].task = t

\* A handler keeps its task until it replies.
LEMMA RequestTask ==
    ASSUME request \in [Clients -> Request], NEW c \in Clients, NEW d \in Clients,
           (\E at \in Stages : Advance(c, at)) \/ Reply(c)
    PROVE  request'[d].task \in {request[d].task, None}
  <1>1. ASSUME NEW at \in Stages, Advance(c, at)
        PROVE  request'[d].task = request[d].task
    BY <1>1 DEF Advance, Request
  <1>2. CASE Reply(c)
    BY <1>2 DEF Reply, Request, NoRequest
  <1>. QED  BY <1>1, <1>2

\* A coroutine keeps its task, its worker and its message until it ends.
LEMMA AttemptTask ==
    ASSUME attempt \in [Slots -> Attempt], NEW s \in Slots, AttemptStep(s) \/ TimesOut(s)
           \/ SaveFails(s) \/ MarkFails(s) \/ CountFails(s), NEW r \in Slots
    PROVE  \/ /\ attempt'[r].task = attempt[r].task
              /\ attempt'[r].worker = attempt[r].worker
              /\ attempt'[r].msg = attempt[r].msg
           \/ attempt'[r] = NoAttempt
  <1>. DEFINE Kept == \/ /\ attempt'[r].task = attempt[r].task
                         /\ attempt'[r].worker = attempt[r].worker
                         /\ attempt'[r].msg = attempt[r].msg
                      \/ attempt'[r] = NoAttempt
  <1>1. ASSUME NEW stage, Goto(s, stage)
        PROVE  Kept
    BY <1>1 DEF Goto, Attempt
  <1>2. ASSUME NEW stage, NEW outcome,
               attempt' = [attempt EXCEPT ![s].at = stage, ![s].outcome = outcome]
        PROVE  Kept
    BY <1>2 DEF Attempt
  <1>3. ASSUME NEW outcome, attempt' = [attempt EXCEPT ![s].outcome = outcome]
        PROVE  Kept
    BY <1>3 DEF Attempt
  <1>4. CASE Ack(s)
    BY <1>4 DEF Ack
  <1>5. CASE Acquire(s)
    BY <1>1, <1>5 DEF Acquire
  <1>6. CASE MarkRunning(s) \/ SaveRunning(s) \/ MarkOutcome(s) \/ SaveOutcome(s)
             \/ TimesOut(s) \/ SaveFails(s)
    BY <1>1, <1>6 DEF MarkRunning, SaveRunning, MarkOutcome, SaveOutcome, TimesOut, SaveFails
  <1>7. CASE TimeoutRaised(s) \/ \E outcome \in Outcomes : Finish(s, outcome)
    BY <1>2, <1>7 DEF TimeoutRaised, Finish
  <1>8. CASE MarkFails(s) \/ CountFails(s)
    BY <1>1, <1>2, <1>3, <1>8 DEF MarkFails, CountFails
  <1>. QED  BY <1>4, <1>5, <1>6, <1>7, <1>8 DEF AttemptStep, Kept

\* What a step carries was carried before, or its row has been read or written.
LEMMA CarriedStep ==
    ASSUME TypeOK, [Next]_vars, NEW t \in Tasks, Carried(t)'
    PROVE  Carried(t) \/ dbStatus[t] # "absent" \/ dbStatus'[t] # "absent"
  <1>. USE DEF Carried
  <1>. DEFINE Known == Carried(t) \/ dbStatus[t] # "absent" \/ dbStatus'[t] # "absent"
  <1>1. /\ dbStatus \in [Tasks -> Status]
        /\ request \in [Clients -> Request] /\ outbox \in [Tasks -> Nat]
        /\ log \in [Partitions -> Seq(Tasks)] /\ position \in [Partitions -> Nat]
        /\ attempt \in [Slots -> Attempt]
        /\ None \notin Tasks
    BY StoresAssumption DEF TypeOK, StoresTypeOK, MasterTypeOK, KafkaTypeOK, WorkerTypeOK
  <1>2. CASE UNCHANGED <<request, outbox, log, attempt>>
    BY <1>2
  <1>3. CASE MasterNext
    <2>1. UNCHANGED <<log, attempt>>
      BY <1>3 DEF MasterNext, kafkaVars, workerVars
    <2>2. ASSUME NEW c \in Clients, RequestStep(c)
          PROVE  Known
      <3>1. CASE Dispatch(c)
        BY <1>1, <2>1, <3>1 DEF Dispatch, Reply, NoRequest
      <3>2. CASE SeedRedis(c) \/ RetrySave(c) \/ CancelSave(c) \/ CancelMark(c)
        <4>1. UNCHANGED outbox /\ \E at \in Stages : Advance(c, at) \/ Reply(c)
          BY <3>2 DEF SeedRedis, RetrySave, CancelSave, CancelMark, Stages
        <4>2. \A d \in Clients : request'[d].task \in {request[d].task, None}
          BY <1>1, <4>1, RequestTask
        <4>. QED  BY <1>1, <2>1, <4>1, <4>2
      <3>. QED  BY <2>2, <3>1, <3>2 DEF RequestStep
    <2>3. ASSUME NEW c \in Clients, RequestFails(c) \/ UpdateIsLost(c)
          PROVE  Known
      <3>1. UNCHANGED outbox /\ \E at \in Stages : Advance(c, at) \/ Reply(c)
        BY <2>3 DEF RequestFails, UpdateIsLost, Stages
      <3>2. \A d \in Clients : request'[d].task \in {request[d].task, None}
        BY <1>1, <3>1, RequestTask
      <3>. QED  BY <1>1, <2>1, <3>1, <3>2
    <2>4. ASSUME NEW c \in Clients, NEW u \in Tasks, RequestStarts(c, u)
          PROVE  Known
      <3>1. CASE Submit(c, u)
        BY <1>1, <2>1, <3>1 DEF Submit, InsertRow, Enter
      <3>2. CASE RetryRead(c, u) \/ CancelRead(c, u)
        <4>1. UNCHANGED outbox /\ dbStatus[u] # "absent"
          BY <3>2 DEF RetryRead, CancelRead, Retryable
        <4>2. \E at, n : Enter(c, at, u, n)
          BY <3>2 DEF RetryRead, CancelRead
        <4>3. \A d \in Clients : request'[d].task \in {request[d].task, u}
          BY <1>1, <4>2 DEF Enter
        <4>. QED  BY <1>1, <2>1, <4>1, <4>3
      <3>. QED  BY <2>4, <3>1, <3>2 DEF RequestStarts
    <2>5. ASSUME NEW u \in Tasks, SendFails(u)
          PROVE  Known
      BY <1>1, <2>1, <2>5 DEF SendFails
    <2>6. CASE MasterCrash
      BY <1>1, <2>1, <2>6 DEF MasterCrash, NoRequest
    <2>. QED  BY <1>3, <2>2, <2>3, <2>4, <2>5, <2>6 DEF MasterNext
  <1>4. CASE WorkerNext
    <2>1. UNCHANGED <<request, outbox>>
      BY <1>4 DEF WorkerNext, masterVars
    <2>2. CASE ProcessNext
      <3>1. UNCHANGED log
        BY <2>2 DEF ProcessNext, Register, RegisterExpire, HeartbeatSet, HeartbeatExpire,
                    KeyExpires, Crash, Shutdown, Stop, LeaveGroup, kafkaVars
      <3>2. \A s \in Slots : attempt'[s] = attempt[s] \/ attempt'[s].task = None
        BY <1>1, <2>2 DEF ProcessNext, Register, RegisterExpire, HeartbeatSet, HeartbeatExpire,
                    KeyExpires, Crash, Shutdown, Stop, DropCoroutines, NoAttempt
      <3>. QED  BY <1>1, <2>1, <3>1, <3>2
    <2>3. ASSUME NEW p \in Partitions, NEW w \in Workers, Consume(w, p)
          PROVE  Known
      <3>1. UNCHANGED log
        BY <2>3 DEF Consume, Fetch
      <3>2. position[p] + 1 \in DOMAIN log[p] /\ log[p][position[p] + 1] = NextTask(p)
        BY <1>1, <2>3 DEF Consume, HasNext, NextTask
      <3>3. \A s \in Slots : attempt'[s] = attempt[s] \/ attempt'[s].task = NextTask(p)
        BY <1>1, <2>3 DEF Consume
      <3>. QED  BY <2>1, <3>1, <3>2, <3>3
    <2>4. CASE ConsumerNext
      BY <1>2, <2>1, <2>3, <2>4
         DEF ConsumerNext, Assign, Rebalance, CommitSkipped, CommitIdle, AssignTo,
             CommitOffsets, CommitPositions, workerVars
    <2>5. CASE AttemptNext
      <3>1. UNCHANGED log
        BY <2>5 DEF AttemptNext, AttemptStep, Acquire, MarkRunning, SaveRunning, Finish,
                    TimeoutRaised, MarkOutcome, SaveOutcome, Ack, TimesOut, SaveFails, MarkFails, CountFails,
                    CommitOffsets, kafkaVars
      <3>2. \A s \in Slots : attempt'[s].task \in {attempt[s].task, None}
        <4>1. \A s \in Slots : \/ attempt'[s].task = attempt[s].task
                              \/ attempt'[s] = NoAttempt
          BY <1>1, <2>5, AttemptTask DEF AttemptNext
        <4>. QED  BY <4>1 DEF NoAttempt
      <3>. QED  BY <1>1, <2>1, <3>1, <3>2
    <2>6. CASE SweepNext
      BY <1>2, <2>1, <2>6 DEF SweepNext, SweepStep, SweepScan, SweepQuery, SweepReset, SweepMark,
                              SweepFails, Age, kafkaVars, workerVars
    <2>. QED  BY <1>4, <2>2, <2>4, <2>5, <2>6 DEF WorkerNext
  <1>5. ASSUME NEW u \in Tasks, NEW p \in Partitions, SendConfirmed(u, p)
        PROVE  Known
    <2>1. UNCHANGED <<request, attempt>>
      BY <1>5 DEF SendConfirmed, workerVars
    <2>2. log' = [log EXCEPT ![p] = Append(@, u)] /\ outbox[u] # 0
      BY <1>1, <1>5 DEF SendConfirmed, AppendMessage
    <2>3. outbox'[t] # 0 => outbox[t] # 0
      BY <1>1, <1>5 DEF SendConfirmed
    <2>4. ASSUME NEW q \in Partitions, NEW i \in DOMAIN log'[q], log'[q][i] = t
          PROVE  Carried(t)
      <3>1. CASE i \in DOMAIN log[q] /\ log[q][i] = t
        BY <3>1
      <3>2. CASE t = u
        BY <2>2, <3>2
      <3>. QED  BY <1>1, <2>2, <2>4, <3>1, <3>2
    <2>. QED  BY <2>1, <2>3, <2>4
  <1>6. ASSUME NEW u \in Tasks, HashExpires(u), UNCHANGED <<masterVars, kafkaVars, workerVars>>
        PROVE  Known
    BY <1>2, <1>6 DEF masterVars, kafkaVars, workerVars
  <1>7. CASE UNCHANGED vars
    BY <1>2, <1>7 DEF vars, masterVars, kafkaVars, workerVars
  <1>. QED  BY <1>3, <1>4, <1>5, <1>6, <1>7 DEF Next

\* No request past its commit, send, message or coroutine is about a task whose
\* row was never inserted.
THEOREM CarriedTasksHaveRows == Spec => []MessageHasRow
  <1>1. TypeOK => (MessageHasRow <=> \A t \in Tasks : Carried(t) => dbStatus[t] # "absent")
    BY DEF MessageHasRow, Carried
  <1>2. Init => MessageHasRow
    BY StoresAssumption
       DEF Init, MessageHasRow, MasterInit, KafkaInit, WorkerInit, NoRequest, NoAttempt
  <1>3. TypeOK /\ TypeOK' /\ MessageHasRow /\ [Next]_vars => MessageHasRow'
    <2>. SUFFICES ASSUME TypeOK, TypeOK', MessageHasRow, [Next]_vars
                  PROVE  MessageHasRow'
      OBVIOUS
    <2>1. ASSUME NEW t \in Tasks, Carried(t)'
          PROVE  dbStatus'[t] # "absent"
      BY <1>1, <2>1, CarriedStep, RowStep DEF RowMoves
    <2>. QED  BY <2>1 DEF MessageHasRow, Carried
  <1>. QED  BY <1>2, <1>3, TypeCorrect, PTL DEF Spec

-----------------------------------------------------------------------------
(* A row names the worker that runs it *)

\* Strengthens RunningRowHasRunner: coroutines are those of live workers, and a
\* row runs on a worker that has started, which thus never comes up later
\* without the coroutine.
RunnerInv ==
    /\ RunningRowHasRunner
    /\ \A s \in Slots : attempt[s].at # "free" =>
          attempt[s].worker \in Workers /\ Alive(attempt[s].worker)
    /\ \A t \in Tasks : dbStatus[t] = "running" =>
          dbWorker[t] \in Workers /\ worker[dbWorker[t]] \in {"up", "draining", "down"}

\* A worker that is down never comes back.
LEMMA WorkerStep ==
    ASSUME TypeOK, [Next]_vars, NEW w \in Workers,
           worker[w] \in {"up", "draining", "down"}
    PROVE  /\ worker'[w] \in {"up", "draining", "down"}
           /\ Alive(w)' => Alive(w)
  <1>. USE DEF Alive
  <1>1. worker \in [Workers -> ProcessStates]
    BY DEF TypeOK, WorkerTypeOK
  <1>2. CASE UNCHANGED worker
    BY <1>2
  <1>3. CASE ProcessNext
    BY <1>1, <1>2, <1>3 DEF ProcessNext, Register, RegisterExpire, HeartbeatSet,
              HeartbeatExpire, KeyExpires, Crash, Shutdown, Stop
  <1>4. CASE ConsumerNext
    BY <1>2, <1>4 DEF ConsumerNext, Assign, Rebalance, Consume, CommitSkipped, CommitIdle,
                      workerVars
  <1>5. CASE AttemptNext
    BY <1>2, <1>5 DEF AttemptNext, AttemptStep, Acquire, MarkRunning, SaveRunning, Finish,
                      TimeoutRaised, MarkOutcome, SaveOutcome, Ack, TimesOut, SaveFails, MarkFails, CountFails
  <1>6. CASE SweepNext
    BY <1>2, <1>6 DEF SweepNext, SweepStep, SweepScan, SweepQuery, SweepReset, SweepMark,
                      SweepFails, Age, workerVars
  <1>. QED
    BY <1>2, <1>3, <1>4, <1>5, <1>6 DEF Next, MasterNext, WorkerNext, SendConfirmed, HashExpires,
                                        workerVars, vars

StoresAnswer == Faults \cap {"dbError", "redisError"} = {}

\* Without store failures a coroutine leaves its running stages only by writing
\* its outcome to the row or with its worker.
LEMMA RunnerStep ==
    ASSUME StoresAnswer, TypeOK, RunnerInv, [Next]_vars, NEW s \in Slots,
           attempt[s].at \in RunningStages
    PROVE  \/ /\ attempt'[s].task = attempt[s].task
              /\ attempt'[s].worker = attempt[s].worker
              /\ attempt'[s].at \in RunningStages
           \/ SaveOutcome(s)
           \/ worker'[attempt[s].worker] = "down"
  <1>. DEFINE Goal ==
           \/ /\ attempt'[s].task = attempt[s].task
              /\ attempt'[s].worker = attempt[s].worker
              /\ attempt'[s].at \in RunningStages
           \/ SaveOutcome(s)
           \/ worker'[attempt[s].worker] = "down"
  <1>1. /\ worker \in [Workers -> ProcessStates]
        /\ attempt \in [Slots -> Attempt]
        /\ attempt[s].worker \in Workers
        /\ attempt[s] # NoAttempt
    BY DEF TypeOK, WorkerTypeOK, RunnerInv, RunningStages, NoAttempt
  <1>2. CASE UNCHANGED attempt
    BY <1>2
  <1>3. CASE ProcessNext
    <2>1. PICK w \in Workers :
              \/ Register(w) \/ RegisterExpire(w) \/ HeartbeatSet(w)
              \/ HeartbeatExpire(w) \/ KeyExpires(w) \/ Crash(w)
              \/ Shutdown(w) \/ Stop(w)
      BY <1>3 DEF ProcessNext
    <2>2. CASE Crash(w)
      BY <1>1, <2>2 DEF Crash, DropCoroutines
    <2>. QED
      BY <1>2, <2>1, <2>2 DEF Register, RegisterExpire, HeartbeatSet, HeartbeatExpire,
                              KeyExpires, Shutdown, Stop
  <1>4. CASE ConsumerNext
    <2>1. ASSUME NEW p \in Partitions, NEW w \in Workers, Consume(w, p)
          PROVE  UNCHANGED attempt \/ attempt'[s] = attempt[s]
      BY <1>1, <2>1 DEF Consume
    <2>. QED
      BY <1>2, <1>4, <2>1 DEF ConsumerNext, Assign, Rebalance, CommitSkipped, CommitIdle,
                              workerVars
  <1>5. CASE AttemptNext
    <2>1. PICK r \in Slots :
              AttemptStep(r) \/ TimesOut(r) \/ SaveFails(r) \/ MarkFails(r) \/ CountFails(r)
      BY <1>5 DEF AttemptNext
    <2>2. CASE r # s
      <3>1. attempt'[s] = attempt[s]
        BY <1>1, <2>1, <2>2 DEF AttemptStep, Acquire, MarkRunning, SaveRunning, Finish,
              TimeoutRaised, MarkOutcome, SaveOutcome, Ack, TimesOut, SaveFails, MarkFails, CountFails, Goto
      <3>. QED  BY <3>1
    <2>3. CASE r = s
      <3>1. CASE SaveOutcome(s)
        BY <3>1
      <3>2. CASE Acquire(s) \/ MarkRunning(s) \/ SaveRunning(s) \/ Ack(s)
        BY <3>2 DEF Acquire, MarkRunning, SaveRunning, Ack, At, RunningStages
      <3>3. CASE (\E outcome \in Outcomes : Finish(s, outcome)) \/ TimeoutRaised(s)
        <4>1. attempt'[s].at = "redisOutcome"
          BY <1>1, <3>3 DEF Finish, TimeoutRaised, Attempt
        <4>. QED  BY <1>1, <2>3, <3>3, <4>1, AttemptTask DEF AttemptStep, RunningStages, NoAttempt
      <3>4. CASE TimesOut(s) \/ MarkOutcome(s)
        <4>1. attempt'[s].at \in {"cancelling", "dbOutcome"}
          BY <1>1, <3>4 DEF TimesOut, MarkOutcome, Goto, Attempt
        <4>. QED  BY <1>1, <2>3, <3>4, <4>1, AttemptTask DEF AttemptStep, RunningStages, NoAttempt
      <3>5. CASE SaveFails(s) \/ MarkFails(s) \/ CountFails(s)
        BY <3>5 DEF SaveFails, MarkFails, CountFails, StoresAnswer
      <3>. QED  BY <2>1, <2>3, <3>1, <3>2, <3>3, <3>4, <3>5 DEF AttemptStep
    <2>. QED  BY <2>2, <2>3
  <1>6. CASE SweepNext
    BY <1>2, <1>6 DEF SweepNext, SweepStep, SweepScan, SweepQuery, SweepReset, SweepMark,
                      SweepFails, Age, workerVars
  <1>. QED
    BY <1>2, <1>3, <1>4, <1>5, <1>6 DEF Next, MasterNext, WorkerNext, SendConfirmed, workerVars,
                                        vars

\* Coroutines stay those of live workers.
LEMMA CoroutineStep ==
    ASSUME TypeOK, RunnerInv, [Next]_vars, NEW s \in Slots, attempt'[s].at # "free"
    PROVE  attempt'[s].worker \in Workers /\ worker'[attempt'[s].worker] \in {"up", "draining"}
  <1>. DEFINE Goal == attempt'[s].worker \in Workers /\ worker'[attempt'[s].worker] \in {"up", "draining"}
  <1>1. /\ worker \in [Workers -> ProcessStates]
        /\ attempt \in [Slots -> Attempt]
        /\ attempt[s].at # "free" => attempt[s].worker \in Workers /\ Alive(attempt[s].worker)
        /\ NoAttempt.at = "free"
    BY DEF TypeOK, WorkerTypeOK, RunnerInv, NoAttempt
  <1>2. CASE UNCHANGED <<worker, attempt>>
    BY <1>1, <1>2 DEF Alive
  <1>3. CASE ProcessNext
    <2>1. PICK w \in Workers :
              \/ Register(w) \/ RegisterExpire(w) \/ HeartbeatSet(w)
              \/ HeartbeatExpire(w) \/ KeyExpires(w) \/ Crash(w)
              \/ Shutdown(w) \/ Stop(w)
      BY <1>3 DEF ProcessNext
    <2>2. CASE Crash(w)
      BY <1>1, <2>2 DEF Crash, DropCoroutines, Alive
    <2>3. CASE Register(w) \/ RegisterExpire(w) \/ Shutdown(w) \/ Stop(w)
      BY <1>1, <2>3 DEF Register, RegisterExpire, Shutdown, Stop, Alive
    <2>. QED
      BY <1>2, <2>1, <2>2, <2>3 DEF HeartbeatSet, HeartbeatExpire, KeyExpires
  <1>4. CASE ConsumerNext
    <2>1. ASSUME NEW p \in Partitions, NEW w \in Workers, Consume(w, p)
          PROVE  Goal
      <3>1. UNCHANGED worker /\ Alive(w)
        BY <2>1 DEF Consume, Alive
      <3>2. attempt'[s] = attempt[s] \/ attempt'[s].worker = w
        BY <1>1, <2>1 DEF Consume
      <3>. QED  BY <1>1, <3>1, <3>2 DEF Alive
    <2>. QED
      BY <1>2, <1>4, <2>1 DEF ConsumerNext, Assign, Rebalance, CommitSkipped, CommitIdle,
                              workerVars
  <1>5. CASE AttemptNext
    <2>1. PICK r \in Slots :
              AttemptStep(r) \/ TimesOut(r) \/ SaveFails(r) \/ MarkFails(r) \/ CountFails(r)
      BY <1>5 DEF AttemptNext
    <2>2. UNCHANGED worker
      BY <2>1 DEF AttemptStep, Acquire, MarkRunning, SaveRunning, Finish,
            TimeoutRaised, MarkOutcome, SaveOutcome, Ack, TimesOut, SaveFails, MarkFails, CountFails
    <2>3. attempt'[s] = attempt[s] \/ (r = s /\ attempt[s].at # "free")
      BY <1>1, <2>1 DEF AttemptStep, Acquire, MarkRunning, SaveRunning, Finish,
            TimeoutRaised, MarkOutcome, SaveOutcome, Ack, TimesOut, SaveFails, MarkFails, CountFails, Goto, At
    <2>4. attempt'[s] = attempt[s] \/ attempt'[s].worker = attempt[s].worker
      BY <1>1, <2>1, <2>3, AttemptTask
    <2>. QED  BY <1>1, <2>2, <2>3, <2>4 DEF Alive
  <1>6. CASE SweepNext
    BY <1>2, <1>6 DEF SweepNext, SweepStep, SweepScan, SweepQuery, SweepReset, SweepMark,
                      SweepFails, Age, workerVars
  <1>. QED
    BY <1>2, <1>3, <1>4, <1>5, <1>6 DEF Next, MasterNext, WorkerNext, SendConfirmed, workerVars,
                                        vars

\* What the two theorems below rest on.
LEMMA RunnerInvariant ==
    ASSUME StoresAnswer
    PROVE  Spec => []RunnerInv
  <1>1. Init => RunnerInv
    BY DEF Init, RunnerInv, RunningRowHasRunner, StoresInit, WorkerInit, NoAttempt
  <1>2. TypeOK /\ RunnerInv /\ [Next]_vars => RunnerInv'
    <2>. SUFFICES ASSUME TypeOK, RunnerInv, [Next]_vars
                  PROVE  RunnerInv'
      OBVIOUS
    <2>1. ASSUME NEW t \in Tasks, dbStatus'[t] = "running"
          PROVE  /\ dbWorker'[t] \in Workers
                 /\ worker'[dbWorker'[t]] \in {"up", "draining", "down"}
                 /\ worker'[dbWorker'[t]] \in {"up", "draining"} =>
                      \E s \in Slots : /\ attempt'[s].task = t
                                       /\ attempt'[s].worker = dbWorker'[t]
                                       /\ attempt'[s].at \in RunningStages
      <3>1. CASE dbStatus[t] = "running" /\ dbWorker'[t] = dbWorker[t]
        <4>. DEFINE w == dbWorker[t]
        <4>1. w \in Workers /\ worker[w] \in {"up", "draining", "down"}
          BY <3>1 DEF RunnerInv
        <4>2. worker'[w] \in {"up", "draining", "down"}
          BY <4>1, WorkerStep
        <4>3. ASSUME worker'[w] \in {"up", "draining"}
              PROVE  \E s \in Slots : /\ attempt'[s].task = t
                                      /\ attempt'[s].worker = w
                                      /\ attempt'[s].at \in RunningStages
          <5>1. Alive(w)
            BY <4>1, <4>3, WorkerStep DEF Alive
          <5>2. PICK s \in Slots : /\ attempt[s].task = t /\ attempt[s].worker = w
                                   /\ attempt[s].at \in RunningStages
            BY <3>1, <5>1 DEF RunnerInv, RunningRowHasRunner
          <5>3. ~SaveOutcome(s)
            <6>1. ASSUME SaveOutcome(s)
                  PROVE  Recorded(attempt[s].outcome) \in Finished
              BY <6>1 DEF SaveOutcome, At, TypeOK, WorkerTypeOK, Attempt, Recording, Outcomes,
                          Recorded, Finished
            <6>. QED
              BY <2>1, <5>2, <6>1 DEF SaveOutcome, WorkerWritesRow, Finished, TypeOK, StoresTypeOK
          <5>. QED  BY <4>3, <5>2, <5>3, RunnerStep
        <4>. QED  BY <3>1, <4>1, <4>2, <4>3
      <3>2. ASSUME NEW s \in Slots, SaveRunning(s), attempt[s].task = t,
                   dbWorker'[t] = attempt[s].worker
            PROVE  /\ dbWorker'[t] \in Workers
                   /\ worker'[dbWorker'[t]] \in {"up", "draining"}
                   /\ attempt'[s].task = t
                   /\ attempt'[s].worker = dbWorker'[t]
                   /\ attempt'[s].at \in RunningStages
        <4>1. attempt \in [Slots -> Attempt]
          BY DEF TypeOK, WorkerTypeOK
        <4>2. /\ attempt'[s].task = t /\ attempt'[s].worker = attempt[s].worker
              /\ attempt'[s].at = "executing"
          BY <3>2, <4>1 DEF SaveRunning, Goto, Attempt
        <4>. QED  BY <3>2, <4>2, CoroutineStep DEF RunningStages
      <3>. QED  BY <2>1, <3>1, <3>2, RowStep DEF RowMoves
    <2>2. RunningRowHasRunner'
      BY <2>1 DEF RunningRowHasRunner, Alive
    <2>. QED  BY <2>1, <2>2, CoroutineStep DEF RunnerInv, Alive
  <1>. QED  BY <1>1, <1>2, TypeCorrect, PTL DEF Spec

\* While the stores answer, a running row whose worker is alive is being run by
\* that worker: what makes heartbeats a sound criterion for recovery.
THEOREM RunningRowsHaveRunners ==
    ASSUME StoresAnswer
    PROVE  Spec => []RunningRowHasRunner
  <1>1. RunnerInv => RunningRowHasRunner
    BY DEF RunnerInv
  <1>. QED  BY <1>1, RunnerInvariant, PTL

-----------------------------------------------------------------------------
(* Which steps write what *)

RowWritten(t) ==
    \/ dbStatus'[t] = "pending" /\ \E c \in Clients : Submit(c, t)
    \/ dbStatus'[t] = "pending" /\ \E c \in Clients : RetrySave(c) /\ request[c].task = t
    \/ \E c \in Clients : CancelSave(c) /\ request[c].task = t
    \/ dbStatus'[t] = "running" /\ \E s \in Slots : SaveRunning(s) /\ attempt[s].task = t
    \/ \E s \in Slots : /\ SaveOutcome(s) /\ attempt[s].task = t
                        /\ dbStatus'[t] = Recorded(attempt[s].outcome)
    \/ dbStatus'[t] = "pending" /\ \E w \in Workers : SweepReset(w, t)

\* A row's status is written by the three commits of the master, the two
\* writes of a coroutine and the recovery UPDATE.
LEMMA RowWriters ==
    ASSUME TypeOK, [Next]_vars, NEW t \in Tasks, dbStatus'[t] # dbStatus[t]
    PROVE  RowWritten(t)
  <1>. USE DEF RowWritten
  <1>1. dbStatus \in [Tasks -> Status]
    BY DEF TypeOK, StoresTypeOK
  <1>2. CASE UNCHANGED dbStatus
    BY <1>2
  <1>3. ASSUME NEW c \in Clients, NEW u \in Tasks, Submit(c, u)
        PROVE  RowWritten(t)
    <2>1. dbStatus' = [dbStatus EXCEPT ![u] = "pending"]
      BY <1>3 DEF Submit, InsertRow
    <2>. QED  BY <1>1, <1>3, <2>1
  <1>4. ASSUME NEW c \in Clients, RetrySave(c)
        PROVE  RowWritten(t)
    <2>1. dbStatus' = [dbStatus EXCEPT ![request[c].task] = "pending"]
      BY <1>4 DEF RetrySave, ReopenRow
    <2>. QED  BY <1>1, <1>4, <2>1
  <1>5. ASSUME NEW c \in Clients, CancelSave(c)
        PROVE  RowWritten(t)
    <2>1. dbStatus' = [dbStatus EXCEPT ![request[c].task] = "cancelled"]
      BY <1>5 DEF CancelSave, CloseRow
    <2>. QED  BY <1>1, <1>5, <2>1
  <1>6. ASSUME NEW s \in Slots, SaveRunning(s)
        PROVE  RowWritten(t)
    <2>1. dbStatus' = [dbStatus EXCEPT ![attempt[s].task] = "running"]
      BY <1>6 DEF SaveRunning, WorkerWritesRow
    <2>. QED  BY <1>1, <1>6, <2>1
  <1>7. ASSUME NEW s \in Slots, SaveOutcome(s)
        PROVE  RowWritten(t)
    <2>1. dbStatus' = [dbStatus EXCEPT ![attempt[s].task] = Recorded(attempt[s].outcome)]
      BY <1>7 DEF SaveOutcome, WorkerWritesRow
    <2>. QED  BY <1>1, <1>7, <2>1
  <1>8. ASSUME NEW w \in Workers, NEW u \in Tasks, SweepReset(w, u)
        PROVE  RowWritten(t)
    <2>1. CASE dbStatus' = [dbStatus EXCEPT ![u] = "pending"]
      BY <1>1, <1>8, <2>1
    <2>. QED  BY <1>2, <1>8, <2>1 DEF SweepReset, ResetRow, dbVars
  <1>. HIDE DEF RowWritten
  <1>9. CASE MasterNext
    BY <1>2, <1>3, <1>4, <1>5, <1>9
       DEF MasterNext, RequestStep, SeedRedis, Dispatch, CancelMark, RequestFails, UpdateIsLost,
           RequestStarts,
           RetryRead, CancelRead, SendFails, MasterCrash, storeVars, dbVars
  <1>10. CASE ProcessNext
    BY <1>2, <1>10 DEF ProcessNext, Register, RegisterExpire, HeartbeatSet, HeartbeatExpire,
                       KeyExpires, Crash, Shutdown, Stop, storeVars, dbVars
  <1>11. CASE ConsumerNext
    BY <1>2, <1>11 DEF ConsumerNext, Assign, Rebalance, Consume, CommitSkipped, CommitIdle,
                       storeVars, dbVars
  <1>12. CASE AttemptNext
    BY <1>2, <1>6, <1>7, <1>12
       DEF AttemptNext, AttemptStep, Acquire, MarkRunning, Finish, TimeoutRaised, MarkOutcome,
           Ack, TimesOut, SaveFails, MarkFails, CountFails, storeVars, dbVars
  <1>13. CASE SweepNext
    BY <1>2, <1>8, <1>13
       DEF SweepNext, SweepStep, SweepScan, SweepQuery, SweepMark, SweepFails, Age, storeVars, dbVars
  <1>14. CASE (\E u \in Tasks, p \in Partitions : SendConfirmed(u, p))
                \/ \E u \in Tasks : HashExpires(u)
    BY <1>2, <1>14 DEF SendConfirmed, HashExpires, storeVars, dbVars
  <1>15. CASE UNCHANGED vars
    BY <1>2, <1>15 DEF vars, storeVars, dbVars
  <1>. QED
    BY <1>9, <1>10, <1>11, <1>12, <1>13, <1>14, <1>15 DEF Next, WorkerNext

HashWritten(t) ==
    \/ \E c \in Clients : SeedRedis(c) /\ request[c].task = t /\ redis'[t] = "pending"
    \/ \E c \in Clients : CancelMark(c) /\ request[c].task = t /\ redis'[t] = "cancelled"
    \/ \E s \in Slots : MarkRunning(s) /\ attempt[s].task = t /\ redis'[t] = "running"
    \/ \E s \in Slots : MarkOutcome(s) /\ attempt[s].task = t
    \/ \E w \in Workers : SweepMark(w) /\ sweep[w].task = t /\ redis'[t] = "pending"
    \/ HashExpires(t) /\ redis'[t] = "absent"

\* A hash is written by the two seeding and cancelling requests, the two writes
\* of a coroutine, the recovery sweep and the TTL.
LEMMA HashWriters ==
    ASSUME TypeOK, [Next]_vars, NEW t \in Tasks, redis'[t] # redis[t]
    PROVE  HashWritten(t)
  <1>. USE DEF HashWritten
  <1>1. redis \in [Tasks -> Status]
    BY DEF TypeOK, StoresTypeOK
  <1>2. CASE UNCHANGED redis
    BY <1>2
  <1>3. ASSUME NEW u, NEW st, SetRedis(u, st), redis'[t] # redis[t]
        PROVE  u = t /\ redis'[t] = st
    BY <1>1, <1>3 DEF SetRedis
  <1>4. ASSUME NEW c \in Clients, SeedRedis(c) \/ CancelMark(c)
        PROVE  HashWritten(t)
    BY <1>3, <1>4 DEF SeedRedis, CancelMark
  <1>5. ASSUME NEW s \in Slots, MarkRunning(s)
        PROVE  HashWritten(t)
    BY <1>3, <1>5 DEF MarkRunning
  <1>6. ASSUME NEW s \in Slots, MarkOutcome(s)
        PROVE  HashWritten(t)
    BY <1>2, <1>3, <1>6 DEF MarkOutcome
  <1>7. ASSUME NEW w \in Workers, SweepMark(w)
        PROVE  HashWritten(t)
    BY <1>3, <1>7 DEF SweepMark
  <1>8. ASSUME NEW u \in Tasks, HashExpires(u)
        PROVE  HashWritten(t)
    BY <1>3, <1>8 DEF HashExpires
  <1>. HIDE DEF HashWritten
  <1>9. CASE MasterNext
    BY <1>2, <1>4, <1>9
       DEF MasterNext, RequestStep, Dispatch, RetrySave, CancelSave, RequestFails, UpdateIsLost,
           RequestStarts,
           Submit, RetryRead, CancelRead, SendFails, MasterCrash, storeVars
  <1>10. CASE ProcessNext
    BY <1>2, <1>10 DEF ProcessNext, Register, RegisterExpire, HeartbeatSet, HeartbeatExpire,
                       KeyExpires, Crash, Shutdown, Stop, storeVars
  <1>11. CASE ConsumerNext
    BY <1>2, <1>11 DEF ConsumerNext, Assign, Rebalance, Consume, CommitSkipped, CommitIdle,
                       storeVars
  <1>12. CASE AttemptNext
    BY <1>2, <1>5, <1>6, <1>12
       DEF AttemptNext, AttemptStep, Acquire, SaveRunning, SaveOutcome, Finish, TimeoutRaised,
           Ack, TimesOut, SaveFails, MarkFails, CountFails, storeVars
  <1>13. CASE SweepNext
    BY <1>2, <1>7, <1>13
       DEF SweepNext, SweepStep, SweepScan, SweepQuery, SweepReset, SweepFails, Age, storeVars
  <1>14. CASE (\E u \in Tasks, p \in Partitions : SendConfirmed(u, p))
                \/ \E u \in Tasks : HashExpires(u)
    BY <1>2, <1>8, <1>14 DEF SendConfirmed, storeVars
  <1>15. CASE UNCHANGED vars
    BY <1>2, <1>15 DEF vars, storeVars
  <1>. QED
    BY <1>9, <1>10, <1>11, <1>12, <1>13, <1>14, <1>15 DEF Next, WorkerNext

\* A handler moves by its own steps, or dies with the master.
LEMMA RequestMoves ==
    ASSUME TypeOK, [Next]_vars, NEW c \in Clients
    PROVE  \/ request'[c] = request[c]
           \/ RequestStep(c)
           \/ RequestFails(c)
           \/ UpdateIsLost(c)
           \/ request[c].at = "idle" /\ \E t \in Tasks : RequestStarts(c, t)
           \/ "masterCrash" \in Faults /\ request'[c] = NoRequest
  <1>1. request \in [Clients -> Request]
    BY DEF TypeOK, MasterTypeOK
  <1>2. CASE UNCHANGED request
    BY <1>2
  <1>3. ASSUME NEW d \in Clients, RequestStep(d) \/ RequestFails(d) \/ UpdateIsLost(d), d # c
        PROVE  request'[c] = request[c]
    BY <1>1, <1>3 DEF RequestStep, RequestFails, UpdateIsLost, SeedRedis, Dispatch, RetrySave,
                      CancelSave, CancelMark, Advance, Reply
  <1>4. ASSUME NEW d \in Clients, NEW t \in Tasks, RequestStarts(d, t)
        PROVE  request[d].at = "idle" /\ (d # c => request'[c] = request[c])
    BY <1>1, <1>4 DEF RequestStarts, Submit, RetryRead, CancelRead, Enter
  <1>5. CASE MasterCrash
    BY <1>5 DEF MasterCrash
  <1>6. CASE MasterNext
    BY <1>2, <1>3, <1>4, <1>5, <1>6 DEF MasterNext, SendFails
  <1>. QED
    BY <1>2, <1>6 DEF Next, WorkerNext, masterVars, SendConfirmed, vars

\* A coroutine starts in consume_tasks, moves by its own steps, and ends early
\* only with its worker.
LEMMA AttemptMoves ==
    ASSUME TypeOK, [Next]_vars, NEW s \in Slots
    PROVE  \/ attempt'[s] = attempt[s]
           \/ attempt[s] = NoAttempt /\ \E w \in Workers, p \in Partitions :
                 /\ Consume(w, p) /\ redis[NextTask(p)] \notin Skipped
                 /\ attempt'[s] = [at |-> "queued", task |-> NextTask(p), worker |-> w,
                                   msg |-> [part |-> p, offset |-> position[p]],
                                   outcome |-> "none"]
                 /\ \A r \in Slots \ {s} : attempt'[r] = attempt[r]
           \/ AttemptStep(s) \/ TimesOut(s) \/ SaveFails(s) \/ MarkFails(s) \/ CountFails(s)
           \/ /\ attempt[s].worker \in Workers
              /\ Crash(attempt[s].worker)
              /\ attempt'[s] = NoAttempt
  <1>. DEFINE Starts ==
           attempt[s] = NoAttempt /\ \E w \in Workers, p \in Partitions :
              /\ Consume(w, p) /\ redis[NextTask(p)] \notin Skipped
              /\ attempt'[s] = [at |-> "queued", task |-> NextTask(p), worker |-> w,
                                msg |-> [part |-> p, offset |-> position[p]],
                                outcome |-> "none"]
              /\ \A r \in Slots \ {s} : attempt'[r] = attempt[r]
  <1>1. attempt \in [Slots -> Attempt]
    BY DEF TypeOK, WorkerTypeOK
  <1>2. CASE UNCHANGED attempt
    BY <1>2
  <1>3. ASSUME NEW w \in Workers, Crash(w)
        PROVE  attempt'[s] = attempt[s] \/ (attempt[s].worker = w /\ attempt'[s] = NoAttempt)
    BY <1>3 DEF Crash, DropCoroutines
  <1>4. CASE ProcessNext
    BY <1>2, <1>3, <1>4 DEF ProcessNext, Register, RegisterExpire, HeartbeatSet,
              HeartbeatExpire, KeyExpires, Shutdown, Stop
  <1>5. ASSUME NEW w \in Workers, NEW p \in Partitions, Consume(w, p)
        PROVE  attempt'[s] = attempt[s] \/ Starts
    <2>1. CASE UNCHANGED attempt
      BY <2>1
    <2>2. ASSUME NEW r \in Slots, attempt[r] = NoAttempt, redis[NextTask(p)] \notin Skipped,
                 attempt' = [attempt EXCEPT ![r] =
                               [at |-> "queued", task |-> NextTask(p), worker |-> w,
                                msg |-> [part |-> p, offset |-> position[p]],
                                outcome |-> "none"]]
          PROVE  attempt'[s] = attempt[s] \/ Starts
      <3>1. CASE r = s
        BY <1>1, <1>5, <2>2, <3>1
      <3>. QED  BY <1>1, <2>2, <3>1
    <2>. QED  BY <1>5, <2>1, <2>2 DEF Consume
  <1>6. CASE ConsumerNext
    BY <1>2, <1>5, <1>6 DEF ConsumerNext, Assign, Rebalance, CommitSkipped, CommitIdle,
                            workerVars
  <1>7. ASSUME NEW r \in Slots, r # s,
               AttemptStep(r) \/ TimesOut(r) \/ SaveFails(r) \/ MarkFails(r) \/ CountFails(r)
        PROVE  attempt'[s] = attempt[s]
    BY <1>1, <1>7 DEF AttemptStep, Acquire, MarkRunning, SaveRunning, Finish,
          TimeoutRaised, MarkOutcome, SaveOutcome, Ack, TimesOut, SaveFails, MarkFails,
          CountFails, Goto
  <1>8. CASE AttemptNext
    BY <1>7, <1>8 DEF AttemptNext
  <1>9. CASE SweepNext
    BY <1>2, <1>9 DEF SweepNext, SweepStep, SweepScan, SweepQuery, SweepReset, SweepMark,
                      SweepFails, Age, workerVars
  <1>. QED
    BY <1>2, <1>4, <1>6, <1>8, <1>9 DEF Next, MasterNext, WorkerNext, SendConfirmed, HashExpires,
                                        workerVars, vars

\* Everything the group and the coroutines know of partition p is below n.
ReadBelow(p, n) ==
    /\ position[p] < n
    /\ committed[p] < n
    /\ \A w \in Workers : polling[w][p] < n
    /\ \A s \in Slots : attempt[s].msg.part = p => attempt[s].msg.offset + 1 < n

LEMMA CommitBelow ==
    ASSUME KafkaTypeOK, NEW p \in Partitions, NEW n \in Nat, committed[p] < n,
           NEW w, NEW offsets \in [Partitions -> Nat], offsets[p] < n,
           CommitOffsets(w, offsets)
    PROVE  committed'[p] < n /\ UNCHANGED position
  BY DEF CommitOffsets, KafkaTypeOK

\* Only fetching a message takes an offset past it: a rebalance goes back to a
\* committed offset, and a commit is of something fetched before.
LEMMA ReadMoves ==
    ASSUME TypeOK, [Next]_vars, NEW p \in Partitions, NEW n \in Nat, ReadBelow(p, n)
    PROVE  \/ ReadBelow(p, n)'
           \/ position[p] + 1 = n /\ \E w \in Workers : Consume(w, p)
  <1>1. /\ position \in [Partitions -> Nat] /\ committed \in [Partitions -> Nat]
        /\ polling \in [Workers -> [Partitions -> Nat]]
        /\ attempt \in [Slots -> Attempt]
        /\ \A s \in Slots : attempt[s].msg.offset \in Nat
        /\ KafkaTypeOK
        /\ n > 0
    <2>1. attempt \in [Slots -> Attempt]
      BY DEF TypeOK, WorkerTypeOK
    <2>2. \A s \in Slots : attempt[s].msg.offset \in Nat
      BY <2>1 DEF Attempt, Message
    <2>. QED  BY <2>1, <2>2 DEF TypeOK, WorkerTypeOK, KafkaTypeOK, ReadBelow
  <1>2. NoAttempt.msg.part # p
    BY KafkaAssumption DEF NoAttempt, NoMessage
  <1>3. CASE UNCHANGED <<position, committed, polling, attempt>>
    BY <1>3 DEF ReadBelow
  <1>4. ASSUME NEW w \in Workers, LeaveGroup(w)
        PROVE  position'[p] < n /\ UNCHANGED committed
    BY <1>1, <1>4 DEF LeaveGroup, ReadBelow
  <1>5. CASE ProcessNext
    <2>1. PICK w \in Workers :
              \/ Register(w) \/ RegisterExpire(w) \/ HeartbeatSet(w)
              \/ HeartbeatExpire(w) \/ KeyExpires(w) \/ Crash(w)
              \/ Shutdown(w) \/ Stop(w)
      BY <1>5 DEF ProcessNext
    <2>2. CASE Crash(w)
      <3>1. position'[p] < n /\ UNCHANGED committed
        BY <1>4, <2>2 DEF Crash
      <3>2. \A v \in Workers : polling'[v][p] < n
        BY <1>1, <2>2 DEF Crash, DropCoroutines, NoSkips, ReadBelow
      <3>3. \A s \in Slots : attempt'[s] = attempt[s] \/ attempt'[s] = NoAttempt
        BY <2>2 DEF Crash, DropCoroutines
      <3>. QED  BY <1>2, <3>1, <3>2, <3>3 DEF ReadBelow
    <2>3. CASE Stop(w)
      BY <1>4, <2>3 DEF Stop, ReadBelow
    <2>. QED
      BY <1>3, <2>1, <2>2, <2>3 DEF Register, RegisterExpire, HeartbeatSet, HeartbeatExpire,
                                    KeyExpires, Shutdown, kafkaVars
  <1>6. ASSUME NEW q \in Partitions, NEW w \in Workers, Consume(w, q)
        PROVE  ReadBelow(p, n)' \/ (position[p] + 1 = n /\ Consume(w, p))
    <2>1. /\ UNCHANGED committed
          /\ q # p => position'[p] = position[p]
          /\ q = p => position'[p] = position[p] + 1
      BY <1>1, <1>6 DEF Consume, Fetch
    <2>2. SUFFICES ASSUME q = p => position[p] + 1 # n
                   PROVE  ReadBelow(p, n)'
      BY <1>6
    <2>3. q = p => position[p] + 1 < n
      BY <1>1, <2>2 DEF ReadBelow
    <2>4. \A v \in Workers : polling'[v][p] < n
      <3>1. CASE UNCHANGED polling
        BY <3>1 DEF ReadBelow
      <3>2. CASE polling' = [polling EXCEPT ![w][q] = position[q] + 1]
        <4>1. ASSUME NEW v \in Workers
              PROVE  polling'[v][p] = IF v = w /\ p = q THEN position[p] + 1 ELSE polling[v][p]
          BY <1>1, <3>2
        <4>. QED  BY <2>3, <4>1 DEF ReadBelow
      <3>. QED  BY <1>6, <3>1, <3>2 DEF Consume
    <2>5. ASSUME NEW s \in Slots, attempt'[s].msg.part = p
          PROVE  attempt'[s].msg.offset + 1 < n
      <3>1. CASE attempt'[s] = attempt[s]
        BY <2>5, <3>1 DEF ReadBelow
      <3>2. CASE attempt'[s].msg = [part |-> q, offset |-> position[q]]
        BY <2>3, <2>5, <3>2
      <3>. QED  BY <1>1, <1>6, <3>1, <3>2 DEF Consume
    <2>. QED  BY <2>1, <2>3, <2>4, <2>5 DEF ReadBelow
  <1>7. ASSUME NEW w \in Workers, CommitSkipped(w)
        PROVE  ReadBelow(p, n)'
    <2>1. polling[w] \in [Partitions -> Nat] /\ polling[w][p] < n
      BY <1>1 DEF ReadBelow
    <2>2. committed'[p] < n /\ UNCHANGED position
      BY <1>1, <1>7, <2>1, CommitBelow DEF CommitSkipped, ReadBelow
    <2>3. \A v \in Workers : polling'[v][p] < n
      BY <1>1, <1>7 DEF CommitSkipped, NoSkips, ReadBelow
    <2>. QED  BY <1>7, <2>2, <2>3 DEF CommitSkipped, ReadBelow
  <1>8. CASE ConsumerNext
    <2>1. ASSUME NEW q \in Partitions, NEW w \in Workers, Assign(q, w) \/ Rebalance(q, w)
          PROVE  ReadBelow(p, n)'
      BY <1>1, <2>1 DEF Assign, Rebalance, AssignTo, workerVars, ReadBelow
    <2>2. ASSUME NEW w \in Workers, CommitIdle(w)
          PROVE  ReadBelow(p, n)'
      BY <1>1, <2>2 DEF CommitIdle, CommitPositions, workerVars, ReadBelow
    <2>. QED  BY <1>6, <1>7, <1>8, <2>1, <2>2 DEF ConsumerNext
  <1>9. CASE AttemptNext
    <2>1. PICK s \in Slots :
              AttemptStep(s) \/ TimesOut(s) \/ SaveFails(s) \/ MarkFails(s) \/ CountFails(s)
      BY <1>9 DEF AttemptNext
    <2>2. UNCHANGED polling
      BY <2>1 DEF AttemptStep, Acquire, MarkRunning, SaveRunning, Finish,
            TimeoutRaised, MarkOutcome, SaveOutcome, Ack, TimesOut, SaveFails, MarkFails, CountFails
    <2>3. \A r \in Slots : attempt'[r].msg = attempt[r].msg \/ attempt'[r] = NoAttempt
      BY <1>1, <2>1, AttemptTask
    <2>4. committed'[p] < n /\ UNCHANGED position
      <3>. DEFINE offsets == [NoSkips EXCEPT ![attempt[s].msg.part] = attempt[s].msg.offset + 1]
      <3>1. offsets \in [Partitions -> Nat] /\ offsets[p] < n
        <4>1. attempt[s].msg.offset + 1 \in Nat
          BY <1>1
        <4>2. \A x : \A m \in Nat : /\ [NoSkips EXCEPT ![x] = m] \in [Partitions -> Nat]
                                    /\ [NoSkips EXCEPT ![x] = m][p] = IF x = p THEN m ELSE 0
          BY DEF NoSkips
        <4>3. CASE attempt[s].msg.part = p
          BY <4>1, <4>2, <4>3 DEF ReadBelow
        <4>4. CASE attempt[s].msg.part # p
          BY <1>1, <4>1, <4>2, <4>4
        <4>. QED  BY <4>3, <4>4
      <3>. HIDE DEF offsets
      <3>2. CASE CommitOffsets(attempt[s].worker, offsets)
        BY <1>1, <3>1, <3>2, CommitBelow DEF ReadBelow
      <3>3. CASE UNCHANGED kafkaVars
        BY <3>3 DEF kafkaVars, ReadBelow
      <3>. QED
        BY <2>1, <3>2, <3>3 DEF AttemptStep, Acquire, MarkRunning, SaveRunning, Finish,
            TimeoutRaised, MarkOutcome, SaveOutcome, Ack, TimesOut, SaveFails, MarkFails, CountFails,
            offsets
    <2>. QED  BY <1>2, <2>2, <2>3, <2>4 DEF ReadBelow
  <1>10. CASE SweepNext
    BY <1>3, <1>10 DEF SweepNext, SweepStep, SweepScan, SweepQuery, SweepReset, SweepMark,
                      SweepFails, Age, workerVars, kafkaVars
  <1>11. CASE WorkerNext
    <2>1. CASE ConsumerNext /\ ~(\E w \in Workers : Consume(w, p) /\ position[p] + 1 = n)
      BY <1>8, <2>1
    <2>. QED  BY <1>5, <1>8, <1>9, <1>10, <1>11 DEF WorkerNext
  <1>. QED
    BY <1>3, <1>11 DEF Next, MasterNext, SendConfirmed, HashExpires, AppendMessage,
                       workerVars, kafkaVars, vars

\* The workers write no log.
LEMMA LogKept ==
    ASSUME WorkerNext
    PROVE  UNCHANGED log
  <1>1. CASE ProcessNext
    BY <1>1 DEF ProcessNext, Register, RegisterExpire, HeartbeatSet, HeartbeatExpire,
                KeyExpires, Crash, Shutdown, Stop, LeaveGroup, kafkaVars
  <1>2. CASE ConsumerNext
    BY <1>2 DEF ConsumerNext, Assign, Rebalance, Consume, CommitSkipped, CommitIdle,
                AssignTo, Fetch, CommitOffsets, CommitPositions
  <1>3. CASE AttemptNext
    BY <1>3 DEF AttemptNext, AttemptStep, Acquire, MarkRunning, SaveRunning, Finish,
                TimeoutRaised, MarkOutcome, SaveOutcome, Ack, TimesOut, SaveFails, MarkFails,
                CountFails, CommitOffsets, kafkaVars
  <1>4. CASE SweepNext
    BY <1>4 DEF SweepNext, SweepStep, SweepScan, SweepQuery, SweepReset, SweepMark,
                SweepFails, Age, kafkaVars
  <1>. QED  BY <1>1, <1>2, <1>3, <1>4 DEF WorkerNext

\* A log only grows, by the messages of confirmed sends.
LEMMA LogMoves ==
    ASSUME TypeOK, [Next]_vars, NEW p \in Partitions
    PROVE  \/ log'[p] = log[p]
           \/ \E t \in Tasks : SendConfirmed(t, p) /\ log'[p] = Append(log[p], t)
  <1>1. log \in [Partitions -> Seq(Tasks)]
    BY DEF TypeOK, KafkaTypeOK
  <1>2. ASSUME NEW t \in Tasks, NEW q \in Partitions, SendConfirmed(t, q)
        PROVE  log'[p] = log[p] \/ (q = p /\ log'[p] = Append(log[p], t))
    BY <1>1, <1>2 DEF SendConfirmed, AppendMessage
  <1>. QED
    BY <1>2, LogKept DEF Next, MasterNext, HashExpires, kafkaVars, vars

\* A process moves by its own steps.
LEMMA WorkerMoves ==
    ASSUME TypeOK, [Next]_vars, NEW w \in Workers
    PROVE  \/ worker'[w] = worker[w]
           \/ Register(w) \/ RegisterExpire(w) \/ Crash(w) \/ Shutdown(w) \/ Stop(w)
  <1>1. worker \in [Workers -> ProcessStates]
    BY DEF TypeOK, WorkerTypeOK
  <1>2. CASE UNCHANGED worker
    BY <1>2
  <1>3. ASSUME NEW v \in Workers, v # w,
               Register(v) \/ RegisterExpire(v) \/ Crash(v) \/ Shutdown(v) \/ Stop(v)
        PROVE  worker'[w] = worker[w]
    BY <1>1, <1>3 DEF Register, RegisterExpire, Crash, Shutdown, Stop
  <1>4. CASE ProcessNext
    BY <1>2, <1>3, <1>4 DEF ProcessNext, HeartbeatSet, HeartbeatExpire, KeyExpires
  <1>5. CASE ConsumerNext
    BY <1>2, <1>5 DEF ConsumerNext, Assign, Rebalance, Consume, CommitSkipped, CommitIdle,
                      workerVars
  <1>6. CASE AttemptNext
    BY <1>2, <1>6 DEF AttemptNext, AttemptStep, Acquire, MarkRunning, SaveRunning, Finish,
                      TimeoutRaised, MarkOutcome, SaveOutcome, Ack, TimesOut, SaveFails, MarkFails,
                      CountFails
  <1>7. CASE SweepNext
    BY <1>2, <1>7 DEF SweepNext, SweepStep, SweepScan, SweepQuery, SweepReset, SweepMark,
                      SweepFails, Age, workerVars
  <1>. QED
    BY <1>2, <1>4, <1>5, <1>6, <1>7
       DEF Next, MasterNext, WorkerNext, SendConfirmed, HashExpires, workerVars, vars

\* A worker's key goes when its TTL ends or its worker deletes it.
LEMMA KeyMoves ==
    ASSUME TypeOK, [Next]_vars, NEW w \in Workers, key'[w] = "absent"
    PROVE  key[w] = "absent" \/ KeyExpires(w) \/ Stop(w)
  <1>1. key \in [Workers -> KeyStates]
    BY DEF TypeOK, WorkerTypeOK
  <1>2. CASE UNCHANGED key
    BY <1>2
  <1>3. ASSUME NEW v \in Workers \cup {None}, TouchKey(v)
        PROVE  key[w] = "absent"
    BY <1>1, <1>3 DEF TouchKey
  <1>4. ASSUME NEW v \in Workers, Register(v) \/ RegisterExpire(v) \/ HeartbeatSet(v)
                                  \/ HeartbeatExpire(v)
        PROVE  key[w] = "absent"
    BY <1>1, <1>4 DEF Register, RegisterExpire, HeartbeatSet, HeartbeatExpire
  <1>5. ASSUME NEW v \in Workers, KeyExpires(v) \/ Stop(v), v # w
        PROVE  key[w] = "absent"
    BY <1>1, <1>5 DEF KeyExpires, Stop
  <1>6. CASE ProcessNext
    BY <1>2, <1>4, <1>5, <1>6 DEF ProcessNext, Crash, Shutdown
  <1>7. CASE ConsumerNext
    BY <1>2, <1>7 DEF ConsumerNext, Assign, Rebalance, Consume, CommitSkipped, CommitIdle,
                      workerVars
  <1>8. CASE AttemptNext
    <2>1. \A s \in Slots : attempt[s].worker \in Workers \cup {None}
      BY DEF TypeOK, WorkerTypeOK, Attempt
    <2>. QED
      BY <1>2, <1>3, <1>8, <2>1
         DEF AttemptNext, AttemptStep, Acquire, MarkRunning, SaveRunning, Finish,
             TimeoutRaised, MarkOutcome, SaveOutcome, Ack, TimesOut, SaveFails, MarkFails,
             CountFails
  <1>9. CASE SweepNext
    BY <1>2, <1>9 DEF SweepNext, SweepStep, SweepScan, SweepQuery, SweepReset, SweepMark,
                      SweepFails, Age, workerVars
  <1>. QED
    BY <1>2, <1>6, <1>7, <1>8, <1>9
       DEF Next, MasterNext, WorkerNext, SendConfirmed, HashExpires, workerVars, vars

\* A sweep moves by its own steps, and ends with its worker.
LEMMA SweepMoves ==
    ASSUME TypeOK, [Next]_vars, NEW w \in Workers
    PROVE  \/ sweep'[w] = sweep[w]
           \/ SweepStep(w)
           \/ SweepFails(w)
           \/ Crash(w) /\ sweep'[w] = NoSweep
  <1>1. sweep \in [Workers -> Sweep]
    BY DEF TypeOK, WorkerTypeOK
  <1>2. CASE UNCHANGED sweep
    BY <1>2
  <1>3. ASSUME NEW v \in Workers, Crash(v)
        PROVE  sweep'[w] = sweep[w] \/ (v = w /\ sweep'[w] = NoSweep)
    BY <1>1, <1>3 DEF Crash, DropCoroutines
  <1>4. CASE ProcessNext
    BY <1>2, <1>3, <1>4 DEF ProcessNext, Register, RegisterExpire, HeartbeatSet,
              HeartbeatExpire, KeyExpires, Shutdown, Stop
  <1>5. CASE ConsumerNext
    BY <1>2, <1>5 DEF ConsumerNext, Assign, Rebalance, Consume, CommitSkipped, CommitIdle,
                      workerVars
  <1>6. CASE AttemptNext
    BY <1>2, <1>6 DEF AttemptNext, AttemptStep, Acquire, MarkRunning, SaveRunning, Finish,
                      TimeoutRaised, MarkOutcome, SaveOutcome, Ack, TimesOut, SaveFails, MarkFails,
                      CountFails
  <1>7. ASSUME NEW v \in Workers, SweepStep(v) \/ SweepFails(v), v # w
        PROVE  sweep'[w] = sweep[w]
    BY <1>1, <1>7 DEF SweepStep, SweepScan, SweepQuery, SweepReset, SweepMark, SweepFails
  <1>8. CASE SweepNext
    BY <1>2, <1>7, <1>8 DEF SweepNext, Age, workerVars
  <1>. QED
    BY <1>2, <1>4, <1>5, <1>6, <1>8
       DEF Next, MasterNext, WorkerNext, SendConfirmed, HashExpires, workerVars, vars

\* A row ages only while it runs and no sweep has read it, and a write of it
\* makes it young again.
LEMMA AgedMoves ==
    ASSUME TypeOK, [Next]_vars, NEW t \in Tasks, t \in aged'
    PROVE  /\ t \in aged \/ Age(t)
           /\ \A s \in Slots : SaveRunning(s) => attempt[s].task # t
  <1>1. aged \subseteq Tasks
    BY DEF TypeOK, StoresTypeOK
  <1>2. \A s \in Slots : SaveRunning(s) => attempt[s].task # t
    BY DEF SaveRunning, WorkerWritesRow
  <1>3. CASE aged' \subseteq aged
    BY <1>2, <1>3
  <1>4. CASE MasterNext
    BY <1>3, <1>4
       DEF MasterNext, RequestStep, SeedRedis, Dispatch, RetrySave, CancelSave, CancelMark,
           RequestFails, UpdateIsLost, RequestStarts, Submit, RetryRead, CancelRead, SendFails, MasterCrash,
           InsertRow, ReopenRow, CloseRow, storeVars, dbVars
  <1>5. CASE ProcessNext
    BY <1>3, <1>5 DEF ProcessNext, Register, RegisterExpire, HeartbeatSet, HeartbeatExpire,
                       KeyExpires, Crash, Shutdown, Stop, storeVars, dbVars
  <1>6. CASE ConsumerNext
    BY <1>3, <1>6 DEF ConsumerNext, Assign, Rebalance, Consume, CommitSkipped, CommitIdle,
                       storeVars, dbVars
  <1>7. CASE AttemptNext
    BY <1>3, <1>7
       DEF AttemptNext, AttemptStep, Acquire, MarkRunning, SaveRunning, Finish, TimeoutRaised,
           MarkOutcome, SaveOutcome, Ack, TimesOut, SaveFails, MarkFails, CountFails,
           WorkerWritesRow, storeVars, dbVars
  <1>8. ASSUME NEW u \in Tasks, Age(u)
        PROVE  t \in aged \/ Age(t)
    BY <1>8 DEF Age
  <1>9. CASE SweepNext
    BY <1>2, <1>3, <1>8, <1>9
       DEF SweepNext, SweepStep, SweepScan, SweepQuery, SweepReset, SweepMark, SweepFails,
           ResetRow, storeVars, dbVars
  <1>10. CASE (\E u \in Tasks, p \in Partitions : SendConfirmed(u, p))
                \/ \E u \in Tasks : HashExpires(u)
    BY <1>3, <1>10 DEF SendConfirmed, HashExpires, storeVars, dbVars
  <1>11. CASE UNCHANGED vars
    BY <1>3, <1>11 DEF vars, storeVars, dbVars
  <1>. QED
    BY <1>4, <1>5, <1>6, <1>7, <1>9, <1>10, <1>11 DEF Next, WorkerNext

\* While a partition stays with its owner, its position only advances.
LEMMA PartitionMoves ==
    ASSUME TypeOK, [Next]_vars, NEW p \in Partitions
    PROVE  \/ owner'[p] = owner[p] /\ position'[p] >= position[p]
           \/ \E w \in Workers : Assign(p, w) \/ Rebalance(p, w)
           \/ owner[p] \in Workers /\ (Crash(owner[p]) \/ Stop(owner[p]))
  <1>1. /\ owner \in [Partitions -> Workers \cup {None}]
        /\ position \in [Partitions -> Nat]
    BY DEF TypeOK, KafkaTypeOK
  <1>2. CASE UNCHANGED <<owner, position>>
    BY <1>1, <1>2
  <1>3. ASSUME NEW w \in Workers, LeaveGroup(w)
        PROVE  owner[p] = w \/ (owner'[p] = owner[p] /\ position'[p] >= position[p])
    BY <1>1, <1>3 DEF LeaveGroup
  <1>4. CASE ProcessNext
    BY <1>2, <1>3, <1>4 DEF ProcessNext, Register, RegisterExpire, HeartbeatSet,
              HeartbeatExpire, KeyExpires, Crash, Shutdown, Stop, kafkaVars
  <1>5. ASSUME NEW q \in Partitions, NEW w \in Workers, Assign(q, w) \/ Rebalance(q, w), q # p
        PROVE  owner'[p] = owner[p] /\ position'[p] >= position[p]
    BY <1>1, <1>5 DEF Assign, Rebalance, AssignTo
  <1>6. ASSUME NEW q \in Partitions, Fetch(q)
        PROVE  owner'[p] = owner[p] /\ position'[p] >= position[p]
    <2>1. position'[p] = IF q = p THEN position[p] + 1 ELSE position[p]
      BY <1>1, <1>6 DEF Fetch
    <2>. QED  BY <1>1, <1>6, <2>1 DEF Fetch
  <1>7. CASE ConsumerNext
    BY <1>2, <1>5, <1>6, <1>7 DEF ConsumerNext, Consume, CommitSkipped, CommitIdle,
                                  CommitOffsets, CommitPositions
  <1>8. CASE AttemptNext
    BY <1>2, <1>8 DEF AttemptNext, AttemptStep, Acquire, MarkRunning, SaveRunning, Finish,
                      TimeoutRaised, MarkOutcome, SaveOutcome, Ack, TimesOut, SaveFails, MarkFails,
                      CountFails, CommitOffsets, kafkaVars
  <1>9. CASE SweepNext
    BY <1>2, <1>9 DEF SweepNext, SweepStep, SweepScan, SweepQuery, SweepReset, SweepMark,
                      SweepFails, Age, kafkaVars
  <1>. QED
    BY <1>2, <1>4, <1>7, <1>8, <1>9
       DEF Next, MasterNext, WorkerNext, SendConfirmed, AppendMessage, HashExpires, kafkaVars, vars

-----------------------------------------------------------------------------
(* A pending row is on its way *)

\* No cancellation, and none of the failures that drop a message, a coroutine
\* or a write.  Shutdowns, rebalances, timeouts and the hash's TTL are allowed.
NothingIsLost ==
    /\ "cancel" \notin Operations
    /\ Faults \cap {"crash", "masterCrash", "sendFail", "dbError", "redisError"} = {}

\* A coroutine past its checks of the hash will write the row, whatever the
\* hash says.
WritingStages == RunningStages \cup {"claimed", "marked"}

Works(t, stages) == \E s \in Slots : attempt[s].task = t /\ attempt[s].at \in stages

\* A message for t that nobody has ever fetched.
Unread(t) ==
    \E p \in Partitions : \E i \in DOMAIN log[p] : log[p][i] = t /\ ReadBelow(p, i)

\* Dispatched is too weak to be inductive: a message that is fetched again, or
\* any message while the hash says running or finished, is thrown away.  What
\* counts is a request that will still reset the hash, a coroutine that will
\* write the row, or a hash that lets the new message through.
OnItsWay(t) ==
    \/ \E c \in Clients : request[c].task = t /\ request[c].at = "seed"
    \/ Works(t, WritingStages)
    \/ /\ redis[t] \notin Skipped
       /\ \/ \E c \in Clients : request[c].task = t /\ request[c].at = "dispatch"
          \/ outbox[t] > 0
          \/ Unread(t)
          \/ Works(t, {"queued"})

DispatchInv ==
    /\ \A c \in Clients : request[c].at \notin {"cancelSave", "cancelMark"}
    /\ \A p \in Partitions : ReadBelow(p, Len(log[p]) + 1)
    /\ \A t \in Tasks : dbStatus[t] = "running" => Works(t, RunningStages)
    /\ \A t \in Tasks : dbStatus[t] = "pending" => OnItsWay(t)

LEMMA NoCancels ==
    ASSUME NothingIsLost, TypeOK, DispatchInv, [Next]_vars, NEW c \in Clients
    PROVE  request'[c].at \notin {"cancelSave", "cancelMark"}
  <1>1. request \in [Clients -> Request]
    BY DEF TypeOK, MasterTypeOK
  <1>2. request[c].at \notin {"cancelSave", "cancelMark"}
    BY DEF DispatchInv
  <1>3. CASE request'[c] = request[c]
    BY <1>2, <1>3
  <1>4. CASE RequestStep(c) \/ RequestFails(c) \/ UpdateIsLost(c)
    BY <1>1, <1>2, <1>4 DEF RequestStep, RequestFails, UpdateIsLost, SeedRedis, Dispatch, RetrySave,
                      CancelSave, CancelMark, Advance, Reply, NoRequest, Request
  <1>5. ASSUME NEW t \in Tasks, RequestStarts(c, t)
        PROVE  request'[c].at \notin {"cancelSave", "cancelMark"}
    BY <1>1, <1>5 DEF RequestStarts, Submit, RetryRead, CancelRead, Enter, NothingIsLost
  <1>. QED  BY <1>3, <1>4, <1>5, RequestMoves DEF NothingIsLost

LEMMA ReadNoFurther ==
    ASSUME TypeOK, DispatchInv, [Next]_vars, NEW p \in Partitions
    PROVE  ReadBelow(p, Len(log[p]) + 1)' /\ ReadBelow(p, Len(log[p]) + 1)
  <1>1. log[p] \in Seq(Tasks) /\ Len(log[p]) \in Nat
    BY DEF TypeOK, KafkaTypeOK
  <1>. DEFINE n == Len(log[p]) + 1
  <1>2. n \in Nat /\ ReadBelow(p, n)
    BY <1>1 DEF DispatchInv
  <1>3. ASSUME NEW w \in Workers, Consume(w, p), position[p] + 1 = n
        PROVE  FALSE
    BY <1>1, <1>3 DEF Consume, HasNext, TypeOK, KafkaTypeOK
  <1>. DEFINE Below(m) == /\ position'[p] < m
                          /\ committed'[p] < m
                          /\ \A w \in Workers : polling'[w][p] < m
                          /\ \A s \in Slots : attempt'[s].msg.part = p =>
                                attempt'[s].msg.offset + 1 < m
  <1>4. Below(n)
    <2>. HIDE DEF n
    <2>. QED  BY <1>2, <1>3, ReadMoves DEF ReadBelow
  <1>5. CASE log'[p] = log[p]
    BY <1>2, <1>4, <1>5 DEF ReadBelow
  <1>6. ASSUME NEW t \in Tasks, SendConfirmed(t, p), log'[p] = Append(log[p], t)
        PROVE  ReadBelow(p, Len(log[p]) + 1)'
    <2>1. Len(log'[p]) + 1 = n + 1
      BY <1>1, <1>6
    <2>2. UNCHANGED <<position, committed, polling, attempt>>
      BY <1>6 DEF SendConfirmed, AppendMessage, workerVars
    <2>3. /\ position[p] \in Nat /\ committed[p] \in Nat
          /\ \A w \in Workers : polling[w][p] \in Nat
          /\ \A s \in Slots : attempt[s].msg.offset \in Nat
      <3>1. attempt \in [Slots -> Attempt]
        BY DEF TypeOK, WorkerTypeOK
      <3>2. \A s \in Slots : attempt[s].msg.offset \in Nat
        BY <3>1 DEF Attempt, Message
      <3>. QED  BY <3>2 DEF TypeOK, KafkaTypeOK, WorkerTypeOK
    <2>4. \A m \in Nat : m < n => m < n + 1
      BY <1>2
    <2>. HIDE DEF n
    <2>5. Below(n + 1)
      BY <1>4, <2>2, <2>3, <2>4
    <2>. QED  BY <2>1, <2>5 DEF ReadBelow
  <1>. QED  BY <1>2, <1>5, <1>6, LogMoves

\* A coroutine that will write the row goes on until it has.
LEMMA WritersGoOn ==
    ASSUME NothingIsLost, TypeOK, [Next]_vars, NEW s \in Slots,
           NEW stages \in {RunningStages, WritingStages}, attempt[s].at \in stages
    PROVE  \/ attempt'[s].task = attempt[s].task /\ attempt'[s].at \in stages
           \/ SaveOutcome(s)
  <1>1. /\ attempt \in [Slots -> Attempt]
        /\ attempt[s].at \notin {"free", "queued", "ack"}
    BY DEF TypeOK, WorkerTypeOK, RunningStages, WritingStages
  <1>2. CASE attempt'[s] = attempt[s]
    BY <1>2
  <1>3. CASE attempt[s] = NoAttempt
    BY <1>1, <1>3 DEF NoAttempt
  <1>4. CASE MarkRunning(s) \/ SaveRunning(s)
    <2>1. attempt'[s].task = attempt[s].task /\ attempt'[s].at \in WritingStages
      BY <1>1, <1>4 DEF MarkRunning, SaveRunning, Goto, Attempt, RunningStages, WritingStages
    <2>2. attempt[s].at \notin RunningStages
      BY <1>4 DEF MarkRunning, SaveRunning, At, RunningStages
    <2>. QED  BY <2>1, <2>2
  <1>5. CASE TimesOut(s) \/ MarkOutcome(s)
    <2>1. attempt'[s].task = attempt[s].task /\ attempt'[s].at \in RunningStages
      BY <1>1, <1>5 DEF TimesOut, MarkOutcome, Goto, Attempt, RunningStages
    <2>. QED  BY <2>1 DEF WritingStages
  <1>6. CASE TimeoutRaised(s) \/ \E outcome \in Outcomes : Finish(s, outcome)
    <2>1. attempt'[s].task = attempt[s].task /\ attempt'[s].at \in RunningStages
      BY <1>1, <1>6 DEF TimeoutRaised, Finish, Attempt, RunningStages
    <2>. QED  BY <2>1 DEF WritingStages
  <1>7. ~Acquire(s) /\ ~Ack(s)
    BY <1>1 DEF Acquire, Ack, At
  <1>8. /\ ~SaveFails(s) /\ ~MarkFails(s) /\ ~CountFails(s)
        /\ \A w : ~Crash(w)
    BY DEF SaveFails, MarkFails, CountFails, Crash, NothingIsLost
  <1>. QED
    BY <1>2, <1>3, <1>4, <1>5, <1>6, <1>7, <1>8, AttemptMoves DEF AttemptStep

\* A queued coroutine whose hash lets it through does not give up.
LEMMA QueuedGoesOn ==
    ASSUME NothingIsLost, TypeOK, [Next]_vars, NEW s \in Slots,
           attempt[s].at = "queued", redis[attempt[s].task] \notin Skipped
    PROVE  attempt'[s].task = attempt[s].task /\ attempt'[s].at \in {"queued", "claimed"}
  <1>1. attempt \in [Slots -> Attempt]
    BY DEF TypeOK, WorkerTypeOK
  <1>2. CASE Acquire(s)
    BY <1>1, <1>2 DEF Acquire, Goto, Attempt
  <1>3. CASE attempt[s] = NoAttempt
    BY <1>3 DEF NoAttempt
  <1>4. /\ ~SaveFails(s) /\ ~MarkFails(s) /\ ~CountFails(s) /\ ~TimesOut(s)
        /\ \A w : ~Crash(w)
        /\ AttemptStep(s) => Acquire(s)
    BY DEF SaveFails, MarkFails, CountFails, Crash, NothingIsLost, TimesOut, At,
           AttemptStep, MarkRunning, SaveRunning, Finish, TimeoutRaised, MarkOutcome,
           SaveOutcome, Ack
  <1>. QED  BY <1>2, <1>3, <1>4, AttemptMoves

\* The outcome of a coroutine ends the row.
LEMMA OutcomeEnds ==
    ASSUME TypeOK, NEW s \in Slots, SaveOutcome(s)
    PROVE  dbStatus'[attempt[s].task] \in Finished \/ attempt[s].task \notin Tasks
  <1>1. attempt[s].outcome # "none" /\ attempt[s].outcome \in Outcomes
    BY DEF SaveOutcome, At, TypeOK, WorkerTypeOK, Attempt, Recording
  <1>2. Recorded(attempt[s].outcome) \in Finished
    BY <1>1 DEF Outcomes, Recorded, Finished
  <1>. QED  BY <1>2 DEF SaveOutcome, WorkerWritesRow, TypeOK, StoresTypeOK

LEMMA RunningIsWorked ==
    ASSUME NothingIsLost, TypeOK, DispatchInv, [Next]_vars, NEW t \in Tasks,
           dbStatus'[t] = "running"
    PROVE  Works(t, RunningStages)'
  <1>1. CASE dbStatus[t] = "running"
    <2>1. PICK s \in Slots : attempt[s].task = t /\ attempt[s].at \in RunningStages
      BY <1>1 DEF DispatchInv, Works
    <2>2. ~SaveOutcome(s)
      BY <2>1, OutcomeEnds DEF Finished
    <2>. QED  BY <2>1, <2>2, WritersGoOn DEF Works
  <1>2. CASE dbStatus[t] # "running"
    <2>1. PICK s \in Slots : /\ SaveRunning(s) \/ SaveOutcome(s)
                             /\ attempt[s].task = t
      BY <1>2, RowWriters DEF RowWritten, CancelSave, DispatchInv
    <2>2. SaveRunning(s)
      BY <2>1, OutcomeEnds DEF Finished
    <2>3. attempt'[s].task = t /\ attempt'[s].at \in RunningStages
      BY <2>1, <2>2 DEF SaveRunning, Goto, TypeOK, WorkerTypeOK, Attempt, RunningStages
    <2>. QED  BY <2>3 DEF Works
  <1>. QED  BY <1>1, <1>2

\* A request on its way to the message reaches it.
LEMMA RequestGoesOn ==
    ASSUME NothingIsLost, TypeOK, [Next]_vars, NEW t \in Tasks, NEW c \in Clients,
           request[c].task = t
    PROVE  /\ request[c].at = "seed" =>
                \/ request'[c].task = t /\ request'[c].at = "seed"
                \/ redis'[t] = "pending" /\ request'[c].task = t /\ request'[c].at = "dispatch"
           /\ request[c].at = "dispatch" =>
                \/ request'[c].task = t /\ request'[c].at = "dispatch"
                \/ outbox'[t] > 0
  <1>1. request \in [Clients -> Request] /\ outbox \in [Tasks -> Nat] /\ redis \in [Tasks -> Status]
    BY DEF TypeOK, MasterTypeOK, StoresTypeOK
  <1>2. CASE request'[c] = request[c]
    BY <1>2
  <1>3. SUFFICES ASSUME request[c].at \in {"seed", "dispatch"}, RequestStep(c)
                 PROVE  /\ request[c].at = "seed" =>
                              redis'[t] = "pending" /\ request'[c].task = t
                                 /\ request'[c].at = "dispatch"
                        /\ request[c].at = "dispatch" => outbox'[t] > 0
    BY <1>2, RequestMoves DEF RequestFails, UpdateIsLost, NothingIsLost
  <1>4. CASE SeedRedis(c)
    BY <1>1, <1>4 DEF SeedRedis, SetRedis, Advance, Request
  <1>5. CASE Dispatch(c)
    <2>1. outbox'[t] = outbox[t] + 1
      BY <1>1, <1>5 DEF Dispatch
    <2>. QED  BY <1>1, <1>5, <2>1 DEF Dispatch
  <1>. QED
    BY <1>3, <1>4, <1>5 DEF RequestStep, RetrySave, CancelSave, CancelMark

\* A send under way is confirmed, and then there is a message nobody has read.
LEMMA SendGoesOn ==
    ASSUME NothingIsLost, TypeOK, DispatchInv, [Next]_vars, NEW t \in Tasks, outbox[t] > 0
    PROVE  outbox'[t] > 0 \/ Unread(t)'
  <1>1. outbox \in [Tasks -> Nat] /\ log \in [Partitions -> Seq(Tasks)]
    BY DEF TypeOK, MasterTypeOK, KafkaTypeOK
  <1>2. CASE UNCHANGED outbox
    BY <1>2
  <1>3. CASE MasterNext
    <2>1. ASSUME NEW c \in Clients, Dispatch(c)
          PROVE  outbox'[t] > 0
      <3>1. outbox'[t] = IF t = request[c].task THEN outbox[t] + 1 ELSE outbox[t]
        BY <1>1, <2>1 DEF Dispatch
      <3>. QED  BY <1>1, <3>1
    <2>. QED
      BY <1>2, <1>3, <2>1 DEF MasterNext, RequestStep, SeedRedis, RetrySave, CancelSave,
             CancelMark, RequestFails, UpdateIsLost,
           RequestStarts, Submit, RetryRead, CancelRead, SendFails,
             MasterCrash, NothingIsLost
  <1>4. ASSUME NEW u \in Tasks, NEW p \in Partitions, SendConfirmed(u, p)
        PROVE  outbox'[t] > 0 \/ Unread(t)'
    <2>1. CASE u # t
      BY <1>1, <1>4, <2>1 DEF SendConfirmed
    <2>2. CASE u = t
      <3>. DEFINE n == Len(log[p]) + 1
      <3>1. log' = [log EXCEPT ![p] = Append(log[p], t)]
        BY <1>4, <2>2 DEF SendConfirmed, AppendMessage
      <3>2. log[p] \in Seq(Tasks) /\ n \in DOMAIN log'[p] /\ log'[p][n] = t
        BY <1>1, <3>1
      <3>3. UNCHANGED <<position, committed, polling, attempt>>
        BY <1>4 DEF SendConfirmed, AppendMessage, workerVars
      <3>4. ReadBelow(p, n)
        BY ReadNoFurther
      <3>. HIDE DEF n
      <3>5. log'[p][n] = t /\ /\ position'[p] < n /\ committed'[p] < n
                              /\ \A w \in Workers : polling'[w][p] < n
                              /\ \A s \in Slots : attempt'[s].msg.part = p =>
                                    attempt'[s].msg.offset + 1 < n
        BY <3>2, <3>3, <3>4 DEF ReadBelow
      <3>. QED  BY <3>2, <3>5 DEF Unread, ReadBelow
    <2>. QED  BY <2>1, <2>2
  <1>. QED
    BY <1>2, <1>3, <1>4 DEF Next, WorkerNext, masterVars, vars

\* A message nobody has read stays so until it is fetched, and then the hash
\* lets it through to a coroutine.
LEMMA MessageGoesOn ==
    ASSUME NothingIsLost, TypeOK, [Next]_vars, NEW t \in Tasks, Unread(t),
           redis[t] \notin Skipped
    PROVE  Unread(t)' \/ Works(t, {"queued"})'
  <1>0. PICK p \in Partitions : \E i \in DOMAIN log[p] : log[p][i] = t /\ ReadBelow(p, i)
    BY DEF Unread
  <1>1. PICK i \in DOMAIN log[p] : log[p][i] = t /\ ReadBelow(p, i)
    BY <1>0
  <1>2. log[p] \in Seq(Tasks) /\ i \in Nat
    BY DEF TypeOK, KafkaTypeOK
  <1>3. i \in DOMAIN log'[p] /\ log'[p][i] = t
    <2>1. CASE log'[p] = log[p]
      BY <1>1, <2>1
    <2>2. ASSUME NEW u \in Tasks, log'[p] = Append(log[p], u)
          PROVE  i \in DOMAIN log'[p] /\ log'[p][i] = t
      BY <1>1, <1>2, <2>2
    <2>. QED  BY <2>1, <2>2, LogMoves
  <1>4. CASE ReadBelow(p, i)'
    <2>1. /\ position'[p] < i /\ committed'[p] < i
          /\ \A w \in Workers : polling'[w][p] < i
          /\ \A s \in Slots : attempt'[s].msg.part = p => attempt'[s].msg.offset + 1 < i
      BY <1>4 DEF ReadBelow
    <2>. QED  BY <1>3, <2>1 DEF Unread, ReadBelow
  <1>5. ASSUME NEW w \in Workers, Consume(w, p), position[p] + 1 = i
        PROVE  Works(t, {"queued"})'
    <2>1. NextTask(p) = t
      BY <1>1, <1>5 DEF NextTask
    <2>2. PICK s \in Slots :
              attempt' = [attempt EXCEPT ![s] =
                            [at |-> "queued", task |-> t, worker |-> w,
                             msg |-> [part |-> p, offset |-> position[p]],
                             outcome |-> "none"]]
      BY <1>5, <2>1 DEF Consume, NothingIsLost
    <2>3. attempt'[s].task = t /\ attempt'[s].at = "queued"
      BY <2>2 DEF TypeOK, WorkerTypeOK
    <2>. QED  BY <2>3 DEF Works
  <1>. QED  BY <1>1, <1>2, <1>4, <1>5, ReadMoves

LEMMA PendingStaysOnItsWay ==
    ASSUME NothingIsLost, TypeOK, DispatchInv, [Next]_vars, NEW t \in Tasks,
           dbStatus'[t] = "pending"
    PROVE  OnItsWay(t)'
  <1>1. CASE dbStatus[t] # "pending"
    <2>1. CASE \E c \in Clients : Submit(c, t)
      BY <2>1 DEF Submit, Enter, TypeOK, MasterTypeOK, OnItsWay
    <2>2. CASE \E c \in Clients : RetrySave(c) /\ request[c].task = t
      BY <2>2 DEF RetrySave, Advance, TypeOK, MasterTypeOK, Request, OnItsWay
    <2>3. ASSUME NEW w \in Workers, SweepReset(w, t)
          PROVE  OnItsWay(t)'
      <3>1. UNCHANGED attempt /\ dbStatus[t] = "running"
        <4>1. dbStatus[t] = "running" \/ UNCHANGED dbVars
          BY <2>3 DEF SweepReset, ResetRow
        <4>2. UNCHANGED attempt
          BY <2>3 DEF SweepReset
        <4>. QED  BY <1>1, <4>1, <4>2 DEF dbVars
      <3>2. PICK s \in Slots : attempt[s].task = t /\ attempt[s].at \in RunningStages
        BY <3>1 DEF DispatchInv, Works
      <3>3. attempt'[s].task = t /\ attempt'[s].at \in WritingStages
        BY <3>1, <3>2 DEF WritingStages
      <3>. QED  BY <3>3 DEF OnItsWay, Works
    <2>4. \A s \in Slots : ~(SaveOutcome(s) /\ attempt[s].task = t)
      BY OutcomeEnds DEF Finished
    <2>5. \A c \in Clients : ~CancelSave(c)
      BY DEF CancelSave, DispatchInv
    <2>. QED  BY <1>1, <2>1, <2>2, <2>3, <2>4, <2>5, RowWriters DEF RowWritten
  <1>2. CASE dbStatus[t] = "pending"
    <2>. DEFINE Held == \/ \E c \in Clients : request[c].task = t /\ request[c].at = "dispatch"
                        \/ outbox[t] > 0
                        \/ Unread(t)
                        \/ Works(t, {"queued"})
    <2>1. ASSUME NEW s \in Slots, attempt[s].task = t, attempt[s].at \in WritingStages
          PROVE  OnItsWay(t)'
      <3>1. ~SaveOutcome(s)
        BY <2>1, OutcomeEnds DEF Finished
      <3>. QED  BY <2>1, <3>1, WritersGoOn DEF OnItsWay, Works
    <2>2. ASSUME NEW c \in Clients, request[c].task = t, request[c].at = "seed"
          PROVE  OnItsWay(t)'
      BY <2>2, RequestGoesOn DEF OnItsWay, Skipped, Finished
    <2>3. ASSUME redis[t] \notin Skipped, redis'[t] \in Skipped
          PROVE  OnItsWay(t)'
      <3>1. CASE \E s \in Slots : MarkRunning(s) /\ attempt[s].task = t
        <4>1. PICK s \in Slots : MarkRunning(s) /\ attempt[s].task = t
          BY <3>1
        <4>2. attempt[s].at \in WritingStages
          BY <4>1 DEF MarkRunning, At, WritingStages
        <4>. QED  BY <2>1, <4>1, <4>2
      <3>2. CASE \E s \in Slots : MarkOutcome(s) /\ attempt[s].task = t
        <4>1. PICK s \in Slots : MarkOutcome(s) /\ attempt[s].task = t
          BY <3>2
        <4>2. attempt[s].at \in WritingStages
          BY <4>1 DEF MarkOutcome, At, WritingStages, RunningStages
        <4>. QED  BY <2>1, <4>1, <4>2
      <3>3. \A c \in Clients : ~CancelMark(c)
        BY DEF CancelMark, DispatchInv
      <3>. QED
        BY <2>3, <3>1, <3>2, <3>3, HashWriters DEF HashWritten, Skipped, Finished
    <2>4. ASSUME redis'[t] \notin Skipped, Held'
          PROVE  OnItsWay(t)'
      BY <2>4 DEF OnItsWay
    <2>5. ASSUME redis[t] \notin Skipped, NEW c \in Clients, request[c].task = t,
                 request[c].at = "dispatch"
          PROVE  Held'
      BY <2>5, RequestGoesOn
    <2>6. ASSUME outbox[t] > 0
          PROVE  Held'
      BY <2>6, SendGoesOn
    <2>7. ASSUME redis[t] \notin Skipped, Unread(t)
          PROVE  Held'
      BY <2>7, MessageGoesOn
    <2>8. ASSUME redis[t] \notin Skipped, NEW s \in Slots, attempt[s].task = t,
                 attempt[s].at = "queued"
          PROVE  Held' \/ OnItsWay(t)'
      <3>1. attempt'[s].task = t /\ attempt'[s].at \in {"queued", "claimed"}
        BY <2>8, QueuedGoesOn
      <3>. QED  BY <3>1 DEF Works, OnItsWay, WritingStages
    <2>. HIDE DEF Held
    <2>9. CASE redis[t] \notin Skipped /\ Held
      <3>1. Held' \/ OnItsWay(t)'
        BY <2>5, <2>6, <2>7, <2>8, <2>9 DEF Held, Works
      <3>. QED  BY <2>3, <2>4, <2>9, <3>1
    <2>. QED  BY <1>2, <2>1, <2>2, <2>9 DEF DispatchInv, OnItsWay, Works, Held
  <1>. QED  BY <1>1, <1>2

\* When no request is cancelled and nothing of what carries a task is dropped,
\* a pending row is still on its way to a coroutine: no check of the hash, no
\* redelivery, no timeout and no sweep throws its last message away.
THEOREM PendingRowsAreDispatched ==
    ASSUME NothingIsLost
    PROVE  Spec => []PendingIsDispatched
  <1>1. Init => DispatchInv
    <2>. SUFFICES ASSUME Init
                  PROVE  DispatchInv
      OBVIOUS
    <2>1. \A p \in Partitions : Len(log[p]) = 0
      BY DEF Init, KafkaInit
    <2>2. \A p \in Partitions : ReadBelow(p, 1)
      BY KafkaAssumption
         DEF Init, KafkaInit, WorkerInit, NoSkips, NoAttempt, NoMessage, ReadBelow
    <2>3. \A p \in Partitions : ReadBelow(p, Len(log[p]) + 1)
      BY <2>1, <2>2
    <2>. QED
      BY <2>3 DEF Init, StoresInit, MasterInit, NoRequest, DispatchInv
  <1>2. TypeOK /\ DispatchInv /\ [Next]_vars => DispatchInv'
    <2>. SUFFICES ASSUME TypeOK, DispatchInv, [Next]_vars
                  PROVE  DispatchInv'
      OBVIOUS
    <2>. QED
      BY NoCancels, ReadNoFurther, RunningIsWorked, PendingStaysOnItsWay DEF DispatchInv
  <1>3. TypeOK /\ DispatchInv => PendingIsDispatched
    <2>. SUFFICES ASSUME TypeOK, DispatchInv, NEW t \in Tasks, dbStatus[t] = "pending"
                  PROVE  Dispatched(t)
      BY DEF PendingIsDispatched
    <2>1. OnItsWay(t)
      BY DEF DispatchInv
    <2>2. CASE Works(t, WritingStages) \/ Works(t, {"queued"})
      BY <2>2 DEF Works, WritingStages, RunningStages, Dispatched
    <2>3. CASE Unread(t)
      BY <2>3 DEF Unread, ReadBelow, Dispatched, TypeOK, KafkaTypeOK
    <2>. QED  BY <2>1, <2>2, <2>3 DEF OnItsWay, Dispatched
  <1>. QED  BY <1>1, <1>2, <1>3, TypeCorrect, PTL DEF Spec

-----------------------------------------------------------------------------
(* The durable status is implemented *)

\* Rows are only submitted; messages, masters and workers may be lost.  With a
\* third worker two sweeps could list the same row and the slower take it from
\* a coroutine that started it anew.
SubmittedOnce ==
    /\ Operations \subseteq {"submit"}
    /\ Faults \subseteq {"crash", "sendFail", "masterCrash"}
    /\ "crash" \in Faults => \A u, v, w \in Workers : u = v \/ v = w \/ u = w

InLog(t) == \E p \in Partitions : \E i \in DOMAIN log[p] : log[p][i] = t

\* t runs under a worker that is gone.
Orphan(t) ==
    /\ dbStatus[t] = "running"
    /\ dbWorker[t] \in Workers
    /\ worker[dbWorker[t]] = "down"

\* Nobody drains or is blocked, so the key of a live worker is there, and a
\* sweep that found a stale row belongs to the only worker left.
OnceProcesses ==
    /\ \A w \in Workers :
          /\ worker[w] # "draining"
          /\ worker[w] = "down" => "crash" \in Faults
          /\ worker[w] \in {"registering", "up"} => key[w] # "absent"
          /\ sweep[w].at # "idle" => worker[w] = "up"
          /\ sweep[w].at \in {"reset", "mark"} =>
                \A v \in Workers \ {w} : worker[v] = "down"
    /\ \A s \in Slots : attempt[s].at # "cancelling"

\* A task is with one request, or in one send, or in one message.
OnceMessages ==
    /\ \A c \in Clients :
          /\ request[c].at \in {"idle", "seed", "dispatch"}
          /\ request[c].at = "idle" => request[c] = NoRequest
          /\ \A t \in Tasks : request[c].task = t =>
                /\ dbStatus[t] = "pending"
                /\ \A d \in Clients : request[d].task = t => d = c
                /\ outbox[t] = 0
                /\ ~InLog(t)
    /\ \A t \in Tasks : outbox[t] <= 1 /\ (outbox[t] > 0 => ~InLog(t))
    /\ \A p, q \in Partitions : \A i \in DOMAIN log[p], j \in DOMAIN log[q] :
          log[p][i] = log[q][j] => p = q /\ i = j

\* A coroutine's message has been fetched from a partition that its worker still
\* owns, so no other coroutine has it.
OnceAttempts ==
    /\ \A s \in Slots : attempt[s].at # "free" =>
          LET p == attempt[s].msg.part
              n == attempt[s].msg.offset
          IN  /\ p \in Partitions
              /\ n < position[p]
              /\ n + 1 \in DOMAIN log[p]
              /\ log[p][n + 1] = attempt[s].task
              /\ owner[p] = attempt[s].worker
    /\ \A r, s \in Slots :
          attempt[r].at # "free" /\ attempt[s].at # "free" /\ attempt[r].task = attempt[s].task
             => r = s

\* The hash of a row that runs or is over throws its message away, and a
\* coroutine past that check finds the row where the check left it.
OnceStores ==
    /\ \A t \in Tasks : dbStatus[t] \in {"running"} \cup Finished => redis[t] \in Skipped
    /\ \A s \in Slots :
          LET t == attempt[s].task
          IN  /\ attempt[s].at = "claimed" => dbStatus[t] = "pending"
              /\ attempt[s].at = "marked" => dbStatus[t] = "pending" /\ redis[t] \in Skipped
              /\ attempt[s].at \in RunningStages =>
                    dbStatus[t] = "running" /\ dbWorker[t] = attempt[s].worker

\* A sweep resets rows of workers that are gone, and between its two writes the
\* hash still keeps the row from being started.
OnceSweeps ==
    \A w \in Workers :
        /\ sweep[w].at = "query" => \A t \in sweep[w].todo \cap aged :
              dbStatus[t] = "running" /\ dbWorker[t] \notin sweep[w].active => Orphan(t)
        /\ sweep[w].at = "reset" => \A t \in sweep[w].todo : Orphan(t)
        /\ sweep[w].at = "mark" =>
              /\ sweep[w].task \in Tasks
              /\ dbStatus[sweep[w].task] = "pending"
              /\ redis[sweep[w].task] \in Skipped
              /\ \A c \in Clients : request[c].task # sweep[w].task
              /\ \A s \in Slots : attempt[s].task = sweep[w].task =>
                    attempt[s].at \notin WritingStages
              /\ \A t \in sweep[w].todo \ {sweep[w].task} : Orphan(t)

OnceInv == OnceProcesses /\ OnceMessages /\ OnceAttempts /\ OnceStores /\ OnceSweeps

\* What holds besides, proved above.
OnceKnown == TypeOK /\ MessageHasRow /\ RunnerInv /\ OnceInv

LEMMA OnceProcessesStep ==
    ASSUME SubmittedOnce, OnceKnown, [Next]_vars
    PROVE  OnceProcesses'
  <1>. USE DEF OnceKnown, OnceInv
  <1>1. /\ worker \in [Workers -> ProcessStates]
        /\ key \in [Workers -> KeyStates]
        /\ sweep \in [Workers -> Sweep]
        /\ attempt \in [Slots -> Attempt]
        /\ TypeOK
    BY DEF TypeOK, WorkerTypeOK
  <1>2. \A w \in Workers : ~Shutdown(w) /\ ~Stop(w) /\ ~Blocked(w)
    BY <1>1 DEF Shutdown, Stop, Blocked, SubmittedOnce, OnceProcesses
  <1>3. ASSUME NEW w \in Workers
        PROVE  /\ worker'[w] # "draining"
               /\ worker'[w] = "down" => "crash" \in Faults
               /\ worker[w] = "down" => worker'[w] = "down"
    BY <1>1, <1>2, WorkerMoves DEF Register, RegisterExpire, Crash, OnceProcesses
  <1>4. ASSUME NEW w \in Workers, worker'[w] \in {"registering", "up"}
        PROVE  key'[w] # "absent"
    <2>1. CASE Register(w) \/ RegisterExpire(w)
      BY <1>1, <2>1 DEF Register, RegisterExpire
    <2>2. CASE Crash(w)
      BY <1>1, <1>4, <2>2 DEF Crash
    <2>3. CASE worker'[w] = worker[w]
      <3>1. ~KeyExpires(w)
        BY <1>2, <1>4, <2>3 DEF KeyExpires, SubmittedOnce
      <3>. QED  BY <1>2, <1>4, <2>3, <3>1, KeyMoves DEF OnceProcesses
    <2>. QED  BY <1>1, <1>2, <2>1, <2>2, <2>3, WorkerMoves
  <1>5. ASSUME NEW w \in Workers, sweep'[w].at # "idle"
        PROVE  worker'[w] = "up"
    <2>1. CASE sweep'[w] = sweep[w]
      <3>1. worker[w] = "up"
        BY <1>5, <2>1 DEF OnceProcesses
      <3>2. CASE Crash(w)
        BY <1>1, <1>5, <3>2 DEF Crash, DropCoroutines, NoSweep
      <3>. QED  BY <1>2, <3>1, <3>2, WorkerMoves DEF Register, RegisterExpire
    <2>2. CASE SweepStep(w) \/ SweepFails(w)
      BY <1>3, <2>2 DEF SweepStep, SweepFails, SweepScan, SweepQuery, SweepReset, SweepMark,
                        Sweeping, LoopRuns, Alive, OnceProcesses
    <2>3. CASE sweep'[w] = NoSweep
      BY <1>5, <2>3 DEF NoSweep
    <2>. QED  BY <2>1, <2>2, <2>3, SweepMoves
  <1>6. ASSUME NEW w \in Workers, sweep'[w].at \in {"reset", "mark"}, NEW v \in Workers \ {w}
        PROVE  worker'[v] = "down"
    <2>1. CASE sweep[w].at \in {"reset", "mark"}
      BY <1>3, <2>1 DEF OnceProcesses
    <2>2. CASE SweepQuery(w)
      <3>1. PICK t \in Tasks : t \in Stale(w)
        BY <1>1, <1>6, <2>2 DEF SweepQuery, NoSweep, Stale, TypeOK, StoresTypeOK
      <3>2. Orphan(t) /\ worker[w] = "up"
        BY <2>2, <3>1 DEF SweepQuery, Sweeping, Stale, OnceSweeps, OnceProcesses
      <3>3. "crash" \in Faults
        BY <3>2 DEF Orphan, OnceProcesses
      <3>4. v = dbWorker[t]
        BY <1>6, <3>2, <3>3 DEF Orphan, SubmittedOnce
      <3>. QED  BY <1>3, <3>2, <3>4 DEF Orphan
    <2>3. CASE SweepScan(w)
      <3>1. sweep'[w].at = "query"
        <4>1. sweep'[w] = [sweep[w] EXCEPT !.at = "query",
                                           !.active = {v2 \in Workers : key[v2] # "absent"},
                                           !.todo = aged]
          BY <1>1, <2>3 DEF SweepScan
        <4>. QED  BY <1>1, <4>1 DEF Sweep
      <3>. QED  BY <1>6, <3>1
    <2>4. CASE sweep'[w] = sweep[w]
      BY <1>6, <2>1, <2>4
    <2>5. CASE (\E t \in Tasks : SweepReset(w, t)) \/ SweepMark(w) \/ SweepFails(w)
      BY <2>1, <2>5 DEF SweepReset, SweepMark, SweepFails, Sweeping
    <2>6. CASE sweep'[w] = NoSweep
      BY <1>6, <2>6 DEF NoSweep
    <2>. QED  BY <2>2, <2>3, <2>4, <2>5, <2>6, SweepMoves DEF SweepStep
  <1>7. ASSUME NEW s \in Slots
        PROVE  attempt'[s].at # "cancelling"
    <2>1. attempt[s].at # "cancelling"
      BY DEF OnceProcesses
    <2>2. CASE AttemptStep(s) \/ SaveFails(s) \/ MarkFails(s) \/ CountFails(s)
      BY <1>1, <2>1, <2>2 DEF AttemptStep, Acquire, MarkRunning, SaveRunning, Finish,
            TimeoutRaised, MarkOutcome, SaveOutcome, Ack, SaveFails, MarkFails, CountFails, Goto,
            NoAttempt, Attempt
    <2>3. ~TimesOut(s)
      BY DEF TimesOut, SubmittedOnce
    <2>4. ASSUME NEW w \in Workers, NEW p \in Partitions,
                 attempt'[s] = [at |-> "queued", task |-> NextTask(p), worker |-> w,
                                msg |-> [part |-> p, offset |-> position[p]],
                                outcome |-> "none"]
          PROVE  attempt'[s].at # "cancelling"
      BY <2>4
    <2>5. CASE attempt'[s] = attempt[s] \/ attempt'[s] = NoAttempt
      BY <2>1, <2>5 DEF NoAttempt
    <2>. QED  BY <1>1, <2>2, <2>3, <2>4, <2>5, AttemptMoves
  <1>. QED  BY <1>3, <1>4, <1>5, <1>6, <1>7 DEF OnceProcesses

\* A row that waits is taken only by a coroutine of its own.
LEMMA PendingMoves ==
    ASSUME SubmittedOnce, OnceKnown, [Next]_vars, NEW t \in Tasks, dbStatus[t] = "pending",
           dbStatus'[t] # "pending"
    PROVE  \E s \in Slots : SaveRunning(s) /\ attempt[s].task = t
  <1>. USE DEF OnceKnown, OnceInv
  <1>1. \A c \in Clients : ~CancelSave(c)
    BY DEF CancelSave, OnceMessages
  <1>2. ASSUME NEW s \in Slots, SaveOutcome(s), attempt[s].task = t
        PROVE  FALSE
    BY <1>2 DEF SaveOutcome, At, OnceStores, RunningStages
  <1>. QED  BY <1>1, <1>2, RowWriters DEF RowWritten

LEMMA AttemptInLog ==
    ASSUME OnceAttempts, NEW s \in Slots, attempt[s].at # "free"
    PROVE  InLog(attempt[s].task)
  BY DEF OnceAttempts, InLog

LEMMA OnceMessagesStep ==
    ASSUME SubmittedOnce, OnceKnown, [Next]_vars
    PROVE  OnceMessages'
  <1>. USE DEF OnceKnown, OnceInv
  <1>1. /\ request \in [Clients -> Request]
        /\ \A c \in Clients : request[c] \in Request
        /\ outbox \in [Tasks -> Nat]
        /\ log \in [Partitions -> Seq(Tasks)]
        /\ dbStatus \in [Tasks -> Status]
        /\ None \notin Tasks
        /\ TypeOK
    BY StoresAssumption DEF TypeOK, MasterTypeOK, KafkaTypeOK, StoresTypeOK
  <1>2. ASSUME NEW c \in Clients, NEW t \in Tasks, request[c].task = t
        PROVE  dbStatus'[t] = "pending"
    <2>1. dbStatus[t] = "pending" /\ ~InLog(t)
      BY <1>2 DEF OnceMessages
    <2>2. \A s \in Slots : SaveRunning(s) => attempt[s].at # "free"
      BY DEF SaveRunning, At
    <2>. QED  BY <2>1, <2>2, PendingMoves, AttemptInLog
  <1>3. UNCHANGED log => \A t \in Tasks : InLog(t)' <=> InLog(t)
    BY DEF InLog
  <1>4. CASE UNCHANGED <<request, outbox, log>>
    BY <1>2, <1>3, <1>4 DEF OnceMessages
  <1>5. ASSUME NEW u \in Tasks, NEW p \in Partitions, SendConfirmed(u, p)
        PROVE  OnceMessages'
    <2>1. /\ UNCHANGED request
          /\ outbox[u] > 0
          /\ outbox' = [outbox EXCEPT ![u] = outbox[u] - 1]
          /\ log' = [log EXCEPT ![p] = Append(log[p], u)]
      BY <1>5 DEF SendConfirmed, AppendMessage
    <2>2. ~InLog(u) /\ outbox[u] = 1 /\ outbox'[u] = 0
      BY <1>1, <2>1 DEF OnceMessages
    <2>3. \A t \in Tasks : t # u => outbox'[t] = outbox[t]
      BY <1>1, <2>1
    <2>4. ASSUME NEW q \in Partitions, NEW i \in DOMAIN log'[q]
          PROVE  \/ i \in DOMAIN log[q] /\ log'[q][i] = log[q][i]
                 \/ q = p /\ i = Len(log[p]) + 1 /\ log'[q][i] = u
      BY <1>1, <2>1
    <2>5. \A t \in Tasks : t # u => (InLog(t)' => InLog(t))
      BY <2>4 DEF InLog
    <2>6. \A c \in Clients : request[c].task # u
      BY <2>1 DEF OnceMessages
    <2>7. ASSUME NEW q \in Partitions, NEW r \in Partitions,
                 NEW i \in DOMAIN log'[q], NEW j \in DOMAIN log'[r], log'[q][i] = log'[r][j]
          PROVE  q = r /\ i = j
      <3>1. CASE log'[q][i] = u
        <4>1. q = p /\ i = Len(log[p]) + 1
          BY <2>2, <2>4, <3>1 DEF InLog
        <4>2. r = p /\ j = Len(log[p]) + 1
          BY <2>2, <2>4, <2>7, <3>1 DEF InLog
        <4>. QED  BY <4>1, <4>2
      <3>2. CASE log'[q][i] # u
        <4>1. i \in DOMAIN log[q] /\ log'[q][i] = log[q][i]
          BY <2>4, <3>2
        <4>2. j \in DOMAIN log[r] /\ log'[r][j] = log[r][j]
          BY <2>4, <2>7, <3>2
        <4>3. log[q][i] = log[r][j]
          BY <2>7, <4>1, <4>2
        <4>4. \A q1, r1 \in Partitions : \A i1 \in DOMAIN log[q1], j1 \in DOMAIN log[r1] :
                log[q1][i1] = log[r1][j1] => q1 = r1 /\ i1 = j1
          BY DEF OnceMessages
        <4>. QED  BY <4>1, <4>2, <4>3, <4>4
      <3>. QED  BY <3>1, <3>2
    <2>8. \A t \in Tasks : outbox'[t] <= 1 /\ (outbox'[t] > 0 => ~InLog(t)')
      BY <2>2, <2>3, <2>5 DEF OnceMessages
    <2>9. ASSUME NEW c \in Clients, NEW t \in Tasks, request'[c].task = t
          PROVE  /\ dbStatus'[t] = "pending"
                 /\ \A d \in Clients : request'[d].task = t => d = c
                 /\ outbox'[t] = 0
                 /\ ~InLog(t)'
      BY <1>2, <2>1, <2>3, <2>5, <2>6, <2>9 DEF OnceMessages
    <2>. QED  BY <2>1, <2>7, <2>8, <2>9 DEF OnceMessages
  <1>6. CASE MasterNext
    <2>1. UNCHANGED log /\ \A t \in Tasks : InLog(t)' <=> InLog(t)
      BY <1>3, <1>6 DEF MasterNext, kafkaVars
    <2>2. ASSUME NEW c \in Clients, NEW u \in Tasks, Submit(c, u)
          PROVE  OnceMessages'
      <3>1. /\ request' = [request EXCEPT ![c] = [at |-> "seed", task |-> u, count |-> 0]]
            /\ request[c].at = "idle"
            /\ dbStatus[u] = "absent" /\ dbStatus' = [dbStatus EXCEPT ![u] = "pending"]
            /\ UNCHANGED outbox
        BY <2>2 DEF Submit, InsertRow, Enter
      <3>2. /\ \A d \in Clients : request[d].task # u
            /\ outbox[u] = 0
            /\ ~InLog(u)
        BY <3>1 DEF MessageHasRow, InLog
      <3>3. request'[c] = [at |-> "seed", task |-> u, count |-> 0]
        BY <1>1, <3>1
      <3>4. \A d \in Clients : d # c => request'[d] = request[d]
        BY <1>1, <3>1
      <3>5. ASSUME NEW d \in Clients, NEW t \in Tasks, request'[d].task = t
            PROVE  /\ dbStatus'[t] = "pending"
                   /\ \A e \in Clients : request'[e].task = t => e = d
                   /\ outbox'[t] = 0
                   /\ ~InLog(t)'
        <4>1. CASE d = c
          <5>1. t = u
            BY <3>3, <3>5, <4>1
          <5>2. dbStatus'[t] = "pending"
            BY <1>1, <3>1, <5>1
          <5>. QED  BY <2>1, <3>1, <3>2, <3>4, <4>1, <5>1, <5>2
        <4>2. CASE d # c
          <5>1. request[d].task = t /\ t # u
            BY <3>2, <3>4, <3>5, <4>2
          <5>. QED  BY <1>2, <2>1, <3>1, <3>3, <3>4, <5>1 DEF OnceMessages
        <4>. QED  BY <4>1, <4>2
      <3>6. ASSUME NEW d \in Clients
            PROVE  /\ request'[d].at \in {"idle", "seed", "dispatch"}
                   /\ request'[d].at = "idle" => request'[d] = NoRequest
        BY <3>3, <3>4 DEF OnceMessages
      <3>. QED  BY <2>1, <3>1, <3>5, <3>6 DEF OnceMessages
    <2>3. ASSUME NEW c \in Clients, SeedRedis(c)
          PROVE  OnceMessages'
      <3>1. request'[c].at = "dispatch" /\ request'[c].task = request[c].task /\ UNCHANGED outbox
        BY <1>1, <2>3 DEF SeedRedis, Advance, Request
      <3>2. \A d \in Clients : d # c => request'[d] = request[d]
        BY <1>1, <2>3 DEF SeedRedis, Advance
      <3>3. \A d \in Clients : request'[d].task = request[d].task
        BY <3>1, <3>2
      <3>. QED  BY <1>2, <2>1, <3>1, <3>2, <3>3 DEF OnceMessages
    <2>4. ASSUME NEW c \in Clients, request' = [request EXCEPT ![c] = NoRequest]
          PROVE  \A d \in Clients : \/ request'[d] = NoRequest
                                    \/ d # c /\ request'[d] = request[d]
      BY <1>1, <2>4
    <2>5. NoRequest.at = "idle" /\ NoRequest.task = None
      BY DEF NoRequest
    <2>6. ASSUME NEW c \in Clients, Dispatch(c)
          PROVE  OnceMessages'
      <3>. DEFINE u == request[c].task
      <3>1. request' = [request EXCEPT ![c] = NoRequest] /\ outbox' = [outbox EXCEPT ![u] = outbox[u] + 1]
        BY <2>6 DEF Dispatch, Reply
      <3>2. \A t \in Tasks : outbox'[t] = IF t = u THEN outbox[t] + 1 ELSE outbox[t]
        BY <1>1, <3>1
      <3>3. \A t \in Tasks : t = u => outbox[t] = 0 /\ ~InLog(t)
        BY DEF OnceMessages
      <3>4. \A d \in Clients : \/ request'[d] = NoRequest
                               \/ request'[d] = request[d] /\ (u \in Tasks => request[d].task # u)
        BY <2>4, <3>1 DEF OnceMessages
      <3>. HIDE DEF u
      <3>5. \A t \in Tasks : outbox'[t] <= 1 /\ (outbox'[t] > 0 => ~InLog(t)')
        BY <1>1, <2>1, <3>2, <3>3 DEF OnceMessages
      <3>6. ASSUME NEW d \in Clients, NEW t \in Tasks, request'[d].task = t
            PROVE  /\ dbStatus'[t] = "pending"
                   /\ \A e \in Clients : request'[e].task = t => e = d
                   /\ outbox'[t] = 0
                   /\ ~InLog(t)'
        <4>1. request[d].task = t /\ t # u
          BY <1>1, <2>5, <3>4, <3>6
        <4>2. \A e \in Clients : request'[e].task = t => request[e].task = t
          BY <1>1, <2>5, <3>4
        <4>. QED  BY <1>2, <2>1, <3>2, <4>1, <4>2 DEF OnceMessages
      <3>. QED  BY <2>1, <2>5, <3>4, <3>5, <3>6 DEF OnceMessages
    <2>7. ASSUME NEW c \in Clients, RequestFails(c)
          PROVE  OnceMessages'
      <3>1. request' = [request EXCEPT ![c] = NoRequest] /\ UNCHANGED outbox
        BY <2>7 DEF RequestFails, Reply
      <3>2. \A d \in Clients : request'[d] = NoRequest \/ request'[d] = request[d]
        BY <2>4, <3>1
      <3>. QED  BY <1>1, <1>2, <2>1, <2>5, <3>1, <3>2 DEF OnceMessages
    <2>8. ASSUME NEW u \in Tasks, SendFails(u)
          PROVE  OnceMessages'
      <3>1. UNCHANGED request
        BY <2>8 DEF SendFails
      <3>2. \A t \in Tasks : outbox'[t] = IF t = u THEN outbox[t] - 1 ELSE outbox[t]
        BY <1>1, <2>8 DEF SendFails
      <3>3. outbox[u] > 0
        BY <2>8 DEF SendFails
      <3>4. \A c \in Clients : request[c].task # u
        BY <3>3 DEF OnceMessages
      <3>5. \A t \in Tasks : outbox'[t] <= 1 /\ (outbox'[t] > 0 => outbox[t] > 0)
        BY <1>1, <3>2, <3>3 DEF OnceMessages
      <3>. QED  BY <1>2, <2>1, <3>1, <3>2, <3>4, <3>5 DEF OnceMessages
    <2>9. CASE MasterCrash
      <3>1. /\ \A c \in Clients : request'[c] = NoRequest
            /\ \A t \in Tasks : outbox'[t] = 0
        BY <2>9 DEF MasterCrash
      <3>. QED  BY <1>1, <2>1, <2>5, <3>1 DEF OnceMessages
    <2>10. /\ \A c \in Clients : /\ ~RetrySave(c) /\ ~CancelSave(c) /\ ~CancelMark(c)
                                 /\ ~UpdateIsLost(c)
           /\ \A c \in Clients, t \in Tasks : ~RetryRead(c, t) /\ ~CancelRead(c, t)
      BY DEF RetrySave, CancelSave, CancelMark, UpdateIsLost, RetryRead, CancelRead, OnceMessages, SubmittedOnce
    <2>. QED
      BY <1>6, <2>2, <2>3, <2>6, <2>7, <2>8, <2>9, <2>10 DEF MasterNext, RequestStep, RequestStarts
  <1>7. CASE WorkerNext
    BY <1>4, <1>7, LogKept DEF WorkerNext, masterVars
  <1>8. CASE (\E t \in Tasks : HashExpires(t) /\ UNCHANGED <<masterVars, kafkaVars, workerVars>>)
             \/ UNCHANGED vars
    BY <1>4, <1>8 DEF masterVars, kafkaVars, vars
  <1>. QED
    BY <1>5, <1>6, <1>7, <1>8 DEF Next

\* What a coroutine holds.
Holds(a, p, n) ==
    /\ a.msg.part = p /\ a.msg.offset = n
    /\ p \in Partitions
    /\ n \in Nat
    /\ n < position[p]
    /\ n + 1 \in DOMAIN log[p]
    /\ log[p][n + 1] = a.task
    /\ owner[p] = a.worker

LEMMA OnceAttemptsStep ==
    ASSUME SubmittedOnce, OnceKnown, [Next]_vars
    PROVE  OnceAttempts'
  <1>. USE DEF OnceKnown, OnceInv
  <1>1. /\ attempt \in [Slots -> Attempt]
        /\ \A s \in Slots : attempt[s] \in Attempt /\ attempt[s].msg.offset \in Nat
        /\ log \in [Partitions -> Seq(Tasks)]
        /\ owner \in [Partitions -> Workers \cup {None}]
        /\ position \in [Partitions -> Nat]
        /\ None \notin Workers
        /\ NoAttempt.at = "free"
        /\ TypeOK
    <2>1. attempt \in [Slots -> Attempt]
      BY DEF TypeOK, WorkerTypeOK
    <2>2. \A s \in Slots : attempt[s] \in Attempt /\ attempt[s].msg.offset \in Nat
      BY <2>1 DEF Attempt, Message
    <2>. QED  BY <2>1, <2>2, StoresAssumption DEF TypeOK, KafkaTypeOK, NoAttempt
  <1>2. \A s \in Slots : attempt[s].at # "free" =>
           \E p \in Partitions, n \in Nat : Holds(attempt[s], p, n)
    BY <1>1 DEF OnceAttempts, Holds
  <1>3. ASSUME NEW p \in Partitions, NEW i \in DOMAIN log[p]
        PROVE  i \in DOMAIN log'[p] /\ log'[p][i] = log[p][i]
    <2>1. ASSUME NEW t \in Tasks, log'[p] = Append(log[p], t)
          PROVE  i \in DOMAIN log'[p] /\ log'[p][i] = log[p][i]
      BY <1>1, <2>1
    <2>. QED  BY <2>1, LogMoves
  \* What is held stays held while the coroutine does.
  <1>4. ASSUME NEW s \in Slots, attempt[s].at # "free", attempt'[s].at # "free",
               attempt'[s].task = attempt[s].task,
               attempt'[s].worker = attempt[s].worker,
               attempt'[s].msg = attempt[s].msg,
               NEW p \in Partitions, NEW n \in Nat, Holds(attempt[s], p, n)
        PROVE  /\ n < position'[p]
               /\ n + 1 \in DOMAIN log'[p]
               /\ log'[p][n + 1] = attempt'[s].task
               /\ owner'[p] = attempt'[s].worker
    <2>1. owner[p] = attempt[s].worker /\ owner[p] \in Workers /\ n < position[p]
      BY <1>1, <1>4 DEF Holds, RunnerInv
    <2>2. \A w \in Workers : ~Assign(p, w) /\ ~Rebalance(p, w)
      BY <1>1, <2>1 DEF Assign, Rebalance, SubmittedOnce
    <2>3. ~Crash(owner[p])
      BY <1>1, <1>4, <2>1 DEF Crash, DropCoroutines
    <2>4. ~Stop(owner[p])
      BY <2>1 DEF Stop, OnceProcesses
    <2>5. owner'[p] = owner[p] /\ position'[p] >= position[p]
      BY <1>1, <2>1, <2>2, <2>3, <2>4, PartitionMoves
    <2>6. position'[p] \in Nat
      <3>1. TypeOK'
        BY TypeStep
      <3>. QED  BY <3>1 DEF TypeOK, KafkaTypeOK
    <2>. QED  BY <1>1, <1>3, <1>4, <2>1, <2>5, <2>6 DEF Holds
  \* A coroutine goes on with its message, or it starts with a new one.
  <1>. DEFINE Old(s) == /\ attempt[s].at # "free"
                        /\ attempt'[s].task = attempt[s].task
                        /\ attempt'[s].worker = attempt[s].worker
                        /\ attempt'[s].msg = attempt[s].msg
              New(s) == \E w \in Workers, p \in Partitions :
                          /\ Consume(w, p)
                          /\ attempt'[s].task = NextTask(p)
                          /\ attempt'[s].worker = w
                          /\ attempt'[s].msg.part = p
                          /\ attempt'[s].msg.offset = position[p]
                          /\ \A r \in Slots \ {s} : attempt'[r] = attempt[r]
  <1>5. ASSUME NEW s \in Slots, attempt'[s].at # "free"
        PROVE  Old(s) \/ New(s)
    <2>1. CASE attempt'[s] = attempt[s]
      BY <1>5, <2>1
    <2>2. CASE AttemptStep(s) \/ TimesOut(s) \/ SaveFails(s) \/ MarkFails(s) \/ CountFails(s)
      <3>1. attempt[s].at # "free"
        BY <2>2, <1>1 DEF AttemptStep, Acquire, MarkRunning, SaveRunning, Finish, TimeoutRaised,
               MarkOutcome, SaveOutcome, Ack, TimesOut, SaveFails, MarkFails, CountFails, At
      <3>. QED  BY <1>1, <1>5, <2>2, <3>1, AttemptTask
    <2>3. ASSUME NEW w \in Workers, NEW p \in Partitions, Consume(w, p),
                 attempt'[s] = [at |-> "queued", task |-> NextTask(p), worker |-> w,
                                msg |-> [part |-> p, offset |-> position[p]],
                                outcome |-> "none"],
                 \A r \in Slots \ {s} : attempt'[r] = attempt[r]
          PROVE  New(s)
      BY <2>3
    <2>. QED  BY <1>1, <1>5, <2>1, <2>2, <2>3, AttemptMoves
  <1>6. ASSUME NEW s \in Slots, NEW w \in Workers, NEW p \in Partitions, Consume(w, p),
               attempt'[s].task = NextTask(p)
        PROVE  /\ position'[p] = position[p] + 1
               /\ owner'[p] = w
               /\ position[p] + 1 \in DOMAIN log[p]
               /\ log[p][position[p] + 1] = attempt'[s].task
               /\ UNCHANGED log
    BY <1>1, <1>6 DEF Consume, Fetch, HasNext, NextTask
  <1>. HIDE DEF Old, New
  <1>7. ASSUME NEW s \in Slots, attempt'[s].at # "free"
        PROVE  LET p == attempt'[s].msg.part
                   n == attempt'[s].msg.offset
               IN  /\ p \in Partitions
                   /\ n < position'[p]
                   /\ n + 1 \in DOMAIN log'[p]
                   /\ log'[p][n + 1] = attempt'[s].task
                   /\ owner'[p] = attempt'[s].worker
    <2>1. CASE Old(s)
      <3>1. PICK p \in Partitions, n \in Nat : Holds(attempt[s], p, n)
        BY <1>2, <2>1 DEF Old
      <3>2. attempt'[s].msg.part = p /\ attempt'[s].msg.offset = n
        BY <2>1, <3>1 DEF Old, Holds
      <3>. QED  BY <1>4, <1>7, <2>1, <3>1, <3>2 DEF Old
    <2>2. CASE New(s)
      <3>1. PICK w \in Workers, p \in Partitions :
                  /\ Consume(w, p)
                  /\ attempt'[s].task = NextTask(p)
                  /\ attempt'[s].worker = w
                  /\ attempt'[s].msg.part = p
                  /\ attempt'[s].msg.offset = position[p]
        BY <2>2 DEF New
      <3>. QED  BY <1>1, <1>6, <3>1
    <2>. QED  BY <1>5, <1>7, <2>1, <2>2
  \* A new message is no other coroutine's.
  <1>8. ASSUME NEW r \in Slots, NEW s \in Slots, New(r), Old(s), r # s,
               attempt'[r].task = attempt'[s].task
        PROVE  FALSE
    <2>1. PICK w \in Workers, p \in Partitions : Consume(w, p) /\ attempt'[r].task = NextTask(p)
      BY <1>8 DEF New
    <2>2. position[p] + 1 \in DOMAIN log[p] /\ log[p][position[p] + 1] = attempt'[r].task
      BY <1>6, <2>1
    <2>3. PICK q \in Partitions, n \in Nat : Holds(attempt[s], q, n)
      BY <1>2, <1>8 DEF Old
    <2>4. n < position[q] /\ n + 1 \in DOMAIN log[q] /\ log[q][n + 1] = attempt'[r].task
      BY <1>8, <2>3 DEF Holds, Old
    <2>5. \A q1, r1 \in Partitions : \A i1 \in DOMAIN log[q1], j1 \in DOMAIN log[r1] :
             log[q1][i1] = log[r1][j1] => q1 = r1 /\ i1 = j1
      BY DEF OnceMessages
    <2>6. q = p /\ n + 1 = position[p] + 1
      BY <2>2, <2>4, <2>5
    <2>. QED  BY <1>1, <2>4, <2>6
  <1>9. ASSUME NEW r \in Slots, NEW s \in Slots, attempt'[r].at # "free", attempt'[s].at # "free",
               attempt'[r].task = attempt'[s].task, r # s
        PROVE  FALSE
    <2>1. CASE Old(r) /\ Old(s)
      BY <1>9, <2>1 DEF Old, OnceAttempts
    <2>2. CASE New(r) /\ New(s)
      <3>1. attempt'[s] = attempt[s] /\ attempt'[r] = attempt[r]
        BY <1>9, <2>2 DEF New
      <3>2. Old(r) /\ Old(s)
        BY <1>9, <3>1 DEF Old
      <3>. QED  BY <2>1, <3>2
    <2>. QED  BY <1>5, <1>8, <1>9, <2>1, <2>2
  <1>. QED  BY <1>7, <1>9 DEF OnceAttempts

\* A hash that throws messages away does so until its row waits and no sweep,
\* and no request, has anything left to do for it.
LEMMA SkippedMoves ==
    ASSUME SubmittedOnce, OnceKnown, [Next]_vars, NEW t \in Tasks,
           redis[t] \in Skipped, redis'[t] \notin Skipped
    PROVE  \/ \E c \in Clients : request[c].task = t
           \/ \E w \in Workers : SweepMark(w) /\ sweep[w].task = t
  <1>1. \A c \in Clients : ~CancelMark(c)
    BY DEF CancelMark, OnceKnown, OnceInv, OnceMessages
  <1>2. ASSUME NEW s \in Slots, MarkOutcome(s), attempt[s].task = t
        PROVE  redis'[t] \in Skipped
    <2>1. attempt[s].outcome # "none" /\ attempt[s].outcome \in Outcomes
      BY <1>2 DEF MarkOutcome, At, OnceKnown, TypeOK, WorkerTypeOK, Attempt, Recording
    <2>2. Recorded(attempt[s].outcome) \in Skipped
      BY <2>1 DEF Outcomes, Recorded, Finished, Skipped
    <2>. QED  BY <1>2, <2>2 DEF MarkOutcome, SetRedis, OnceKnown, TypeOK, StoresTypeOK
  <1>3. ~HashExpires(t)
    BY DEF HashExpires, SubmittedOnce
  <1>. QED
    BY <1>1, <1>2, <1>3, HashWriters DEF HashWritten, OnceKnown, Skipped

\* Two coroutines at work on a task are one.
LEMMA OneCoroutine ==
    ASSUME OnceAttempts, NEW r \in Slots, NEW s \in Slots, attempt[r].task = attempt[s].task,
           attempt[r].at # "free", attempt[s].at # "free"
    PROVE  r = s
  BY DEF OnceAttempts

\* A row that runs goes on under its worker or is ended by the coroutine, or it
\* is an orphan and reset.
LEMMA RunningMoves ==
    ASSUME SubmittedOnce, OnceKnown, [Next]_vars, NEW t \in Tasks, dbStatus[t] = "running"
    PROVE  \/ dbStatus'[t] = "running" /\ dbWorker'[t] = dbWorker[t]
           \/ \E s \in Slots : SaveOutcome(s) /\ attempt[s].task = t /\ dbWorker[t] = attempt[s].worker
           \/ \E w \in Workers : SweepReset(w, t) /\ Orphan(t)
  <1>. USE DEF OnceKnown, OnceInv
  <1>1. ASSUME NEW s \in Slots, SaveRunning(s), attempt[s].task = t
        PROVE  FALSE
    BY <1>1 DEF SaveRunning, At, OnceStores
  <1>2. ASSUME NEW s \in Slots, SaveOutcome(s), attempt[s].task = t
        PROVE  dbWorker[t] = attempt[s].worker
    BY <1>2 DEF SaveOutcome, At, OnceStores, RunningStages
  <1>3. ASSUME NEW w \in Workers, SweepReset(w, t)
        PROVE  Orphan(t)
    BY <1>3 DEF SweepReset, Sweeping, OnceSweeps
  <1>4. CASE dbStatus'[t] = "running"
    BY <1>1, <1>4, RowStep DEF RowMoves
  <1>5. CASE dbStatus'[t] # "running"
    <2>1. \A c \in Clients : ~CancelSave(c) /\ ~Submit(c, t) /\ ~RetrySave(c)
      BY DEF CancelSave, Submit, RetrySave, OnceMessages
    <2>. QED  BY <1>2, <1>3, <1>5, <2>1, RowWriters DEF RowWritten
  <1>. QED  BY <1>4, <1>5

LEMMA OnceStoresStep ==
    ASSUME SubmittedOnce, OnceKnown, [Next]_vars
    PROVE  OnceStores'
  <1>. USE DEF OnceKnown, OnceInv
  <1>1. /\ attempt \in [Slots -> Attempt]
        /\ \A s \in Slots : attempt[s] \in Attempt
        /\ \A s \in Slots : attempt[s].at # "free" => attempt[s].task \in Tasks
        /\ dbStatus \in [Tasks -> Status] /\ redis \in [Tasks -> Status]
        /\ NoAttempt.at = "free"
        /\ TypeOK
    <2>1. \A s \in Slots : attempt[s].at # "free" => attempt[s].task \in Tasks
      BY DEF OnceAttempts, TypeOK, KafkaTypeOK
    <2>. QED  BY <2>1 DEF TypeOK, StoresTypeOK, WorkerTypeOK, NoAttempt
  \* Whatever a coroutine holds, no request and no sweep's mark is about it.
  <1>2. ASSUME NEW s \in Slots, attempt[s].at \in WritingStages
        PROVE  /\ \A c \in Clients : request[c].task # attempt[s].task
               /\ \A w \in Workers : SweepMark(w) => sweep[w].task # attempt[s].task
    <2>1. attempt[s].at # "free"
      BY <1>2 DEF WritingStages, RunningStages
    <2>2. InLog(attempt[s].task)
      BY <2>1, AttemptInLog
    <2>3. \A c \in Clients : request[c].task # attempt[s].task
      BY <1>1, <2>1, <2>2 DEF OnceMessages
    <2>. QED  BY <1>2, <2>3 DEF SweepMark, Sweeping, OnceSweeps
  <1>3. ASSUME NEW t \in Tasks, dbStatus'[t] \in {"running"} \cup Finished
        PROVE  redis'[t] \in Skipped
    <2>1. CASE dbStatus'[t] = dbStatus[t]
      <3>1. redis[t] \in Skipped /\ dbStatus[t] # "pending"
        BY <1>3, <2>1 DEF OnceStores, Finished
      <3>2. \A c \in Clients : request[c].task # t
        BY <3>1 DEF OnceMessages
      <3>3. \A w \in Workers : SweepMark(w) => sweep[w].task # t
        BY <3>1 DEF SweepMark, Sweeping, OnceSweeps
      <3>. QED  BY <3>1, <3>2, <3>3, SkippedMoves
    <2>2. CASE dbStatus'[t] # dbStatus[t]
      <3>1. PICK s \in Slots : (SaveRunning(s) \/ SaveOutcome(s)) /\ attempt[s].task = t
        <4>1. \A c \in Clients : ~CancelSave(c)
          BY DEF CancelSave, OnceMessages
        <4>. QED  BY <1>3, <2>2, <4>1, RowWriters DEF RowWritten, Finished
      <3>2. redis[t] \in Skipped
        BY <3>1 DEF SaveRunning, SaveOutcome, At, OnceStores, RunningStages
      <3>3. UNCHANGED redis
        BY <3>1 DEF SaveRunning, SaveOutcome
      <3>. QED  BY <3>2, <3>3
    <2>. QED  BY <2>1, <2>2
  \* A coroutine that does not move finds its row as it was.
  <1>4. ASSUME NEW s \in Slots, attempt'[s] = attempt[s], attempt[s].at \in WritingStages
        PROVE  /\ attempt[s].at \in {"claimed", "marked"} => dbStatus'[attempt[s].task] = "pending"
               /\ attempt[s].at = "marked" => redis'[attempt[s].task] \in Skipped
               /\ attempt[s].at \in RunningStages =>
                     /\ dbStatus'[attempt[s].task] = "running"
                     /\ dbWorker'[attempt[s].task] = attempt[s].worker
    <2>. DEFINE t == attempt[s].task
    <2>1. attempt[s].at # "free" /\ t \in Tasks
      BY <1>1, <1>4 DEF WritingStages, RunningStages
    <2>2. ASSUME NEW r \in Slots, SaveRunning(r) \/ SaveOutcome(r), attempt[r].task = t
          PROVE  FALSE
      <3>1. r = s
        BY <2>1, <2>2, OneCoroutine DEF SaveRunning, SaveOutcome, At
      <3>2. attempt'[r].at # attempt[r].at
        BY <1>1, <2>2 DEF SaveRunning, SaveOutcome, At, Goto, Attempt
      <3>. QED  BY <1>4, <3>1, <3>2
    <2>3. CASE attempt[s].at \in {"claimed", "marked"}
      <3>1. dbStatus[t] = "pending" /\ (attempt[s].at = "marked" => redis[t] \in Skipped)
        BY <2>3 DEF OnceStores
      <3>2. dbStatus'[t] = "pending"
        BY <2>1, <2>2, <3>1, PendingMoves
      <3>3. attempt[s].at = "marked" => redis'[t] \in Skipped
        BY <1>2, <1>4, <2>1, <3>1, SkippedMoves
      <3>. QED  BY <2>3, <3>2, <3>3 DEF RunningStages
    <2>4. CASE attempt[s].at \in RunningStages
      <3>1. dbStatus[t] = "running" /\ dbWorker[t] = attempt[s].worker
        BY <2>4 DEF OnceStores
      <3>2. ~Orphan(t)
        BY <2>1, <3>1 DEF Orphan, RunnerInv, Alive
      <3>. QED  BY <2>1, <2>2, <2>4, <3>1, <3>2, RunningMoves DEF RunningStages
    <2>. QED  BY <1>4, <2>3, <2>4 DEF WritingStages
  <1>. DEFINE Stored(s) ==
           /\ attempt'[s].at = "claimed" => dbStatus'[attempt'[s].task] = "pending"
           /\ attempt'[s].at = "marked" =>
                 dbStatus'[attempt'[s].task] = "pending" /\ redis'[attempt'[s].task] \in Skipped
           /\ attempt'[s].at \in RunningStages =>
                 /\ dbStatus'[attempt'[s].task] = "running"
                 /\ dbWorker'[attempt'[s].task] = attempt'[s].worker
  <1>5. ASSUME NEW s \in Slots, attempt'[s] = attempt[s]
        PROVE  Stored(s)
    BY <1>4, <1>5 DEF WritingStages
  <1>6. ASSUME NEW s \in Slots, Acquire(s)
        PROVE  Stored(s)
    <2>. DEFINE t == attempt[s].task
    <2>1. t \in Tasks
      BY <1>1, <1>6 DEF Acquire, At
    <2>2. attempt'[s].task = t /\ attempt'[s].at \in {"ack", "claimed"}
      BY <1>1, <1>6 DEF Acquire, Goto, Attempt
    <2>3. attempt'[s].at = "claimed" => redis[t] \notin Skipped
      BY <1>1, <1>6 DEF Acquire, Goto, Attempt
    <2>4. UNCHANGED dbStatus
      BY <1>6 DEF Acquire, storeVars, dbVars
    <2>5. dbStatus[t] # "absent"
      BY <2>1 DEF MessageHasRow
    <2>6. redis[t] \notin Skipped => dbStatus[t] = "pending"
      BY <1>1, <2>1, <2>5 DEF OnceStores, Status
    <2>. QED  BY <2>2, <2>3, <2>4, <2>6 DEF RunningStages
  <1>7. ASSUME NEW s \in Slots, MarkRunning(s)
        PROVE  Stored(s)
    <2>1. attempt'[s].task = attempt[s].task /\ attempt'[s].at = "marked"
      BY <1>1, <1>7 DEF MarkRunning, Goto, Attempt
    <2>2. dbStatus[attempt[s].task] = "pending" /\ attempt[s].task \in Tasks
      BY <1>1, <1>7 DEF MarkRunning, At, OnceStores
    <2>3. redis'[attempt[s].task] = "running" /\ UNCHANGED dbStatus
      BY <1>1, <1>7, <2>2 DEF MarkRunning, SetRedis, dbVars
    <2>. QED  BY <2>1, <2>2, <2>3 DEF Skipped, RunningStages
  <1>8. ASSUME NEW s \in Slots, SaveRunning(s)
        PROVE  Stored(s)
    <2>1. /\ attempt'[s].task = attempt[s].task /\ attempt'[s].at = "executing"
          /\ attempt'[s].worker = attempt[s].worker
          /\ attempt[s].task \in Tasks
      BY <1>1, <1>8 DEF SaveRunning, Goto, Attempt, At
    <2>2. dbStatus'[attempt[s].task] = "running" /\ dbWorker'[attempt[s].task] = attempt[s].worker
      BY <1>1, <1>8, <2>1 DEF SaveRunning, WorkerWritesRow, TypeOK, StoresTypeOK
    <2>. QED  BY <2>1, <2>2
  <1>9. ASSUME NEW s \in Slots,
               TimeoutRaised(s) \/ MarkOutcome(s) \/ \E outcome \in Outcomes : Finish(s, outcome)
        PROVE  Stored(s)
    <2>1. attempt[s].at \in RunningStages
      BY <1>9 DEF TimeoutRaised, MarkOutcome, Finish, At, RunningStages, SubmittedOnce, OnceProcesses
    <2>2. dbStatus[attempt[s].task] = "running" /\ dbWorker[attempt[s].task] = attempt[s].worker
      BY <2>1 DEF OnceStores
    <2>3. UNCHANGED <<dbStatus, dbWorker>>
      BY <1>9 DEF TimeoutRaised, MarkOutcome, Finish, storeVars, dbVars
    <2>4. /\ attempt'[s].task = attempt[s].task /\ attempt'[s].at \notin {"claimed", "marked"}
          /\ attempt'[s].worker = attempt[s].worker
      BY <1>1, <1>9 DEF TimeoutRaised, MarkOutcome, Finish, Goto, Attempt
    <2>. QED  BY <2>2, <2>3, <2>4
  <1>10. ASSUME NEW s \in Slots, SaveOutcome(s) \/ Ack(s) \/ attempt'[s] = NoAttempt
         PROVE  Stored(s)
    <2>1. attempt'[s].at \in {"ack", "free"}
      BY <1>1, <1>10 DEF SaveOutcome, Ack, Goto, Attempt
    <2>. QED  BY <2>1 DEF RunningStages
  <1>11. ASSUME NEW s \in Slots, NEW w \in Workers, NEW p \in Partitions,
                attempt'[s] = [at |-> "queued", task |-> NextTask(p), worker |-> w,
                               msg |-> [part |-> p, offset |-> position[p]],
                               outcome |-> "none"]
         PROVE  Stored(s)
    BY <1>11 DEF RunningStages
  <1>12. \A s \in Slots : ~TimesOut(s) /\ ~SaveFails(s) /\ ~MarkFails(s) /\ ~CountFails(s)
    BY DEF TimesOut, SaveFails, MarkFails, CountFails, SubmittedOnce
  <1>. HIDE DEF Stored
  <1>13. ASSUME NEW s \in Slots
         PROVE  Stored(s)
    BY <1>1, <1>5, <1>6, <1>7, <1>8, <1>9, <1>10, <1>11, <1>12, AttemptMoves DEF AttemptStep
  <1>. QED  BY <1>3, <1>13 DEF OnceStores, Stored

\* An orphan stays one until its row is reset.
LEMMA OrphanStays ==
    ASSUME SubmittedOnce, OnceKnown, [Next]_vars, NEW t \in Tasks, Orphan(t),
           \A w \in Workers : SweepReset(w, t) => UNCHANGED dbVars
    PROVE  Orphan(t)'
  <1>. USE DEF OnceKnown, OnceInv
  <1>1. dbStatus[t] = "running" /\ dbWorker[t] \in Workers /\ worker[dbWorker[t]] = "down"
    BY DEF Orphan
  <1>2. worker'[dbWorker[t]] = "down"
    BY <1>1, WorkerStep DEF Alive, TypeOK, WorkerTypeOK
  <1>3. ASSUME NEW s \in Slots, SaveOutcome(s), attempt[s].task = t, dbWorker[t] = attempt[s].worker
        PROVE  FALSE
    BY <1>1, <1>3 DEF SaveOutcome, At, RunnerInv, Alive
  <1>4. dbStatus'[t] = "running" /\ dbWorker'[t] = dbWorker[t]
    BY <1>1, <1>3, RunningMoves DEF dbVars
  <1>. QED  BY <1>1, <1>2, <1>4 DEF Orphan

\* What a sweep's reset does to the rows.
LEMMA ResetMoves ==
    ASSUME TypeOK, NEW w \in Workers, NEW t \in Tasks, SweepReset(w, t)
    PROVE  /\ sweep[w].at = "reset" /\ LoopRuns(w) /\ t \in sweep[w].todo
           /\ \/ /\ dbStatus[t] = "running"
                 /\ dbStatus' = [dbStatus EXCEPT ![t] = "pending"]
                 /\ sweep'[w].at = "mark" /\ sweep'[w].task = t
                 /\ sweep'[w].todo = sweep[w].todo
              \/ /\ dbStatus[t] # "running"
                 /\ UNCHANGED dbVars
                 /\ sweep'[w] = Without(w, t)
  <1>1. sweep \in [Workers -> Sweep] /\ sweep[w] \in Sweep
    BY DEF TypeOK, WorkerTypeOK
  <1>2. ASSUME sweep' = [sweep EXCEPT ![w].at = "mark", ![w].task = t]
        PROVE  /\ sweep'[w].at = "mark" /\ sweep'[w].task = t
               /\ sweep'[w].todo = sweep[w].todo
    BY <1>1, <1>2 DEF Sweep
  <1>3. ASSUME sweep' = [sweep EXCEPT ![w] = Without(w, t)]
        PROVE  sweep'[w] = Without(w, t)
    BY <1>1, <1>3
  <1>. QED  BY <1>2, <1>3 DEF SweepReset, Sweeping, ResetRow

LEMMA WithoutMoves ==
    ASSUME NEW w \in Workers, NEW t
    PROVE  /\ Without(w, t).at \in {"idle", "reset"}
           /\ Without(w, t).at = "reset" => Without(w, t).todo = sweep[w].todo \ {t}
  BY DEF Without, NoSweep

LEMMA OnceSweepsStep ==
    ASSUME SubmittedOnce, OnceKnown, [Next]_vars
    PROVE  OnceSweeps'
  <1>. USE DEF OnceKnown, OnceInv
  <1>1. /\ sweep \in [Workers -> Sweep]
        /\ \A w \in Workers : sweep[w] \in Sweep /\ sweep[w].todo \subseteq Tasks
        /\ attempt \in [Slots -> Attempt]
        /\ dbStatus \in [Tasks -> Status]
        /\ aged \subseteq Tasks
        /\ NoSweep.at = "idle" /\ NoAttempt.at = "free"
        /\ TypeOK
    <2>1. sweep \in [Workers -> Sweep]
      BY DEF TypeOK, WorkerTypeOK
    <2>2. \A w \in Workers : sweep[w] \in Sweep /\ sweep[w].todo \subseteq Tasks
      BY <2>1 DEF Sweep
    <2>. QED  BY <2>1, <2>2 DEF TypeOK, StoresTypeOK, WorkerTypeOK, NoSweep, NoAttempt
  <1>2. ASSUME NEW w \in Workers, sweep[w].at \in {"reset", "mark"}, NEW v \in Workers, v # w
        PROVE  sweep[v].at = "idle"
    BY <1>2 DEF OnceProcesses
  \* query
  <1>3. ASSUME NEW w \in Workers, sweep'[w].at = "query", NEW t \in sweep'[w].todo \cap aged',
               dbStatus'[t] = "running", dbWorker'[t] \notin sweep'[w].active
        PROVE  Orphan(t)'
    <2>1. TypeOK' /\ t \in Tasks
      BY <1>3, TypeStep DEF TypeOK, StoresTypeOK
    <2>2. CASE SweepScan(w)
      <3>1. sweep'[w] = [sweep[w] EXCEPT !.at = "query",
                                         !.active = {v \in Workers : key[v] # "absent"},
                                         !.todo = aged]
        BY <1>1, <2>2 DEF SweepScan
      <3>2. sweep'[w].active = {v \in Workers : key[v] # "absent"}
        BY <1>1, <3>1 DEF Sweep
      <3>3. UNCHANGED <<dbStatus, dbWorker, worker>>
        BY <2>2 DEF SweepScan, storeVars, dbVars
      <3>4. dbWorker[t] \in Workers /\ worker[dbWorker[t]] \in {"up", "draining", "down"}
        BY <1>3, <2>1, <3>3 DEF RunnerInv
      <3>5. key[dbWorker[t]] = "absent"
        BY <1>3, <3>2, <3>3, <3>4
      <3>6. worker[dbWorker[t]] = "down"
        BY <3>4, <3>5 DEF OnceProcesses
      <3>. QED  BY <1>3, <3>3, <3>4, <3>6 DEF Orphan
    <2>3. CASE sweep'[w] = sweep[w]
      <3>1. sweep[w].at = "query" /\ t \in sweep[w].todo
        BY <1>3, <2>3
      <3>2. t \in aged /\ \A s \in Slots : SaveRunning(s) => attempt[s].task # t
        <4>1. ~Age(t)
          BY <3>1 DEF Age
        <4>. QED  BY <1>3, <2>1, <4>1, AgedMoves
      <3>3. dbStatus[t] = "running" /\ dbWorker'[t] = dbWorker[t]
        BY <1>3, <2>1, <3>2, RowStep DEF RowMoves
      <3>4. Orphan(t)
        BY <1>3, <2>3, <3>1, <3>2, <3>3 DEF OnceSweeps
      <3>5. ASSUME NEW v \in Workers, SweepReset(v, t)
            PROVE  UNCHANGED dbVars
        <4>1. sweep[v].at = "reset"
          BY <3>5 DEF SweepReset, Sweeping
        <4>. QED  BY <1>2, <3>1, <4>1
      <3>. QED  BY <2>1, <3>4, <3>5, OrphanStays
    <2>4. CASE SweepQuery(w) \/ (\E u \in Tasks : SweepReset(w, u)) \/ SweepMark(w)
               \/ sweep'[w] = NoSweep
      <3>1. sweep'[w].at # "query"
        <4>1. CASE SweepQuery(w)
          BY <1>1, <4>1 DEF SweepQuery, NoSweep
        <4>2. ASSUME NEW u \in Tasks, SweepReset(w, u)
              PROVE  sweep'[w].at # "query"
          BY <1>1, <4>2, ResetMoves, WithoutMoves
        <4>3. CASE SweepMark(w)
          BY <1>1, <4>3, WithoutMoves DEF SweepMark
        <4>4. CASE sweep'[w] = NoSweep
          BY <1>1, <4>4
        <4>. QED  BY <2>4, <4>1, <4>2, <4>3, <4>4
      <3>. QED  BY <1>3, <3>1
    <2>5. ~SweepFails(w)
      BY DEF SweepFails, SubmittedOnce
    <2>. QED  BY <1>1, <2>2, <2>3, <2>4, <2>5, SweepMoves DEF SweepStep
  \* Rows still to be reset stay orphans.
  <1>4. ASSUME NEW w \in Workers, sweep[w].at \in {"reset", "mark"}, NEW t \in Tasks, Orphan(t),
               ~SweepReset(w, t) \/ UNCHANGED dbVars
        PROVE  Orphan(t)'
    <2>1. ASSUME NEW v \in Workers, SweepReset(v, t)
          PROVE  v = w
      BY <1>2, <1>4, <2>1 DEF SweepReset, Sweeping
    <2>. QED  BY <1>4, <2>1, OrphanStays
  \* A sweep at its list.
  <1>5. ASSUME NEW w \in Workers, sweep'[w].at = "reset", NEW t \in sweep'[w].todo
        PROVE  Orphan(t)'
    <2>1. CASE SweepQuery(w)
      <3>1. /\ sweep'[w] = [NoSweep EXCEPT !.at = "reset", !.todo = Stale(w)]
            /\ UNCHANGED <<dbStatus, dbWorker, worker>>
        BY <1>1, <1>5, <2>1 DEF SweepQuery, storeVars, dbVars
      <3>2. t \in Stale(w) /\ sweep[w].at = "query"
        BY <1>5, <2>1, <3>1 DEF NoSweep, SweepQuery, Sweeping
      <3>3. Orphan(t)
        BY <3>2 DEF Stale, OnceSweeps
      <3>. QED  BY <3>1, <3>3 DEF Orphan
    <2>2. CASE sweep'[w] = sweep[w]
      <3>1. sweep[w].at = "reset" /\ t \in sweep[w].todo /\ t \in Tasks /\ Orphan(t)
        BY <1>1, <1>5, <2>2 DEF OnceSweeps
      <3>2. SweepReset(w, t) => UNCHANGED dbVars
        <4>1. SweepReset(w, t) => UNCHANGED dbVars \/ sweep'[w].at = "mark"
          BY <1>1, <3>1, ResetMoves
        <4>. QED  BY <1>5, <4>1
      <3>. QED  BY <1>4, <3>1, <3>2
    <2>3. ASSUME NEW u \in Tasks, SweepReset(w, u)
          PROVE  Orphan(t)'
      <3>1. sweep'[w] = Without(w, u) /\ UNCHANGED dbVars /\ sweep[w].at = "reset"
        BY <1>1, <1>5, <2>3, ResetMoves
      <3>2. t \in sweep[w].todo
        BY <1>5, <3>1, WithoutMoves
      <3>. QED  BY <1>1, <1>4, <3>1, <3>2 DEF OnceSweeps
    <2>4. CASE SweepMark(w)
      <3>1. sweep[w].at = "mark" /\ sweep'[w] = Without(w, sweep[w].task) /\ UNCHANGED dbVars
        BY <1>1, <2>4 DEF SweepMark, Sweeping
      <3>2. t \in sweep[w].todo \ {sweep[w].task}
        BY <1>5, <3>1, WithoutMoves
      <3>. QED  BY <1>1, <1>4, <3>1, <3>2 DEF OnceSweeps
    <2>5. CASE SweepScan(w) \/ sweep'[w] = NoSweep
      <3>1. sweep'[w].at # "reset"
        <4>1. CASE SweepScan(w)
          <5>1. sweep'[w] = [sweep[w] EXCEPT !.at = "query",
                                             !.active = {v \in Workers : key[v] # "absent"},
                                             !.todo = aged]
            BY <1>1, <4>1 DEF SweepScan
          <5>. QED  BY <1>1, <5>1 DEF Sweep
        <4>. QED  BY <1>1, <2>5, <4>1
      <3>. QED  BY <1>5, <3>1
    <2>6. ~SweepFails(w)
      BY DEF SweepFails, SubmittedOnce
    <2>. QED  BY <2>1, <2>2, <2>3, <2>4, <2>5, <2>6, SweepMoves DEF SweepStep
  \* A sweep between its two writes.
  <1>. DEFINE Marking(w, t) ==
           /\ t \in Tasks
           /\ dbStatus'[t] = "pending"
           /\ redis'[t] \in Skipped
           /\ \A c \in Clients : request'[c].task # t
           /\ \A s \in Slots : attempt'[s].task = t => attempt'[s].at \notin WritingStages
           /\ \A u \in sweep'[w].todo \ {t} : Orphan(u)'
  <1>6. ASSUME NEW w \in Workers, NEW t \in Tasks, SweepReset(w, t), dbStatus[t] = "running",
               sweep'[w].at = "mark"
        PROVE  Marking(w, t) /\ sweep'[w].task = t
    <2>1. /\ sweep[w].at = "reset" /\ t \in sweep[w].todo
          /\ dbStatus' = [dbStatus EXCEPT ![t] = "pending"]
      BY <1>1, <1>6, ResetMoves
    <2>2. sweep'[w].task = t /\ sweep'[w].todo = sweep[w].todo
      BY <1>1, <1>6, ResetMoves
    <2>3. Orphan(t) /\ redis[t] \in Skipped
      BY <1>6, <2>1 DEF OnceSweeps, OnceStores
    <2>4. UNCHANGED <<attempt, redis, worker>>
      BY <1>6 DEF SweepReset
    <2>5. ASSUME NEW s \in Slots, attempt[s].task = t
          PROVE  attempt[s].at \notin WritingStages
      <3>1. attempt[s].at \notin {"claimed", "marked"}
        BY <1>6, <2>5 DEF OnceStores
      <3>2. attempt[s].at \notin RunningStages
        BY <2>3, <2>5 DEF OnceStores, Orphan, RunnerInv, Alive, RunningStages
      <3>. QED  BY <3>1, <3>2 DEF WritingStages
    <2>6. UNCHANGED request
      <3>1. ~MasterNext
        <4>1. MasterNext => UNCHANGED sweep
          BY DEF MasterNext, workerVars
        <4>. QED  BY <2>1, <1>6, <4>1
      <3>2. CASE \E u \in Tasks, p \in Partitions : SendConfirmed(u, p)
        BY <3>2 DEF SendConfirmed
      <3>. QED  BY <3>1, <3>2 DEF Next, WorkerNext, masterVars, vars
    <2>7. \A c \in Clients : request[c].task # t
      BY <1>6 DEF OnceMessages
    <2>8. ASSUME NEW u \in sweep[w].todo \ {t}
          PROVE  Orphan(u)'
      <3>1. Orphan(u) /\ u \in Tasks
        BY <1>1, <2>1, <2>8 DEF OnceSweeps
      <3>2. ~SweepReset(w, u) \/ UNCHANGED dbVars
        <4>1. SweepReset(w, u) => sweep'[w].task = u \/ UNCHANGED dbVars
          BY <1>1, <3>1, ResetMoves
        <4>. QED  BY <2>2, <2>8, <4>1
      <3>. QED  BY <1>4, <2>1, <3>1, <3>2
    <2>9. dbStatus'[t] = "pending"
      BY <1>1, <2>1
    <2>. QED  BY <2>2, <2>3, <2>4, <2>5, <2>6, <2>7, <2>8, <2>9
  <1>7. ASSUME NEW w \in Workers, sweep[w].at = "mark", sweep'[w] = sweep[w]
        PROVE  Marking(w, sweep[w].task)
    <2>. DEFINE t == sweep[w].task
    <2>1. /\ t \in Tasks
          /\ dbStatus[t] = "pending"
          /\ redis[t] \in Skipped
          /\ \A c \in Clients : request[c].task # t
          /\ \A s \in Slots : attempt[s].task = t => attempt[s].at \notin WritingStages
          /\ \A u \in sweep[w].todo \ {t} : Orphan(u)
      BY <1>7 DEF OnceSweeps
    <2>2. dbStatus'[t] = "pending"
      <3>1. \A s \in Slots : SaveRunning(s) => attempt[s].task # t
        BY <2>1 DEF SaveRunning, At, WritingStages
      <3>. QED  BY <2>1, <3>1, PendingMoves
    <2>3. redis'[t] \in Skipped
      <3>1. \A v \in Workers : SweepMark(v) => v = w
        BY <1>2, <1>7 DEF SweepMark, Sweeping
      <3>2. ~SweepMark(w)
        BY <1>1, <1>7, WithoutMoves DEF SweepMark
      <3>. QED  BY <2>1, <3>1, <3>2, SkippedMoves
    <2>4. ASSUME NEW c \in Clients
          PROVE  request'[c].task # t
      <3>1. CASE RequestStep(c) \/ RequestFails(c) \/ UpdateIsLost(c)
        <4>1. request \in [Clients -> Request] /\ None \notin Tasks
          BY StoresAssumption DEF TypeOK, MasterTypeOK
        <4>2. (\E at \in Stages : Advance(c, at)) \/ Reply(c)
          BY <3>1 DEF RequestStep, SeedRedis, Dispatch, RetrySave, CancelSave, CancelMark,
                      RequestFails, UpdateIsLost, Stages
        <4>. QED  BY <2>1, <4>1, <4>2, RequestTask
      <3>2. ASSUME NEW u \in Tasks, RequestStarts(c, u)
            PROVE  request'[c].task # t
        <4>1. Submit(c, u)
          BY <3>2 DEF RequestStarts, RetryRead, CancelRead, SubmittedOnce
        <4>2. u # t
          BY <2>1, <4>1 DEF Submit
        <4>. QED  BY <4>1, <4>2 DEF Submit, Enter, TypeOK, MasterTypeOK
      <3>3. CASE request'[c] = NoRequest
        BY <2>1, <3>3, StoresAssumption DEF NoRequest
      <3>. QED  BY <2>1, <3>1, <3>2, <3>3, RequestMoves
    <2>5. ASSUME NEW s \in Slots, attempt'[s].task = t, attempt'[s].at \in WritingStages
          PROVE  FALSE
      <3>1. CASE attempt'[s] = attempt[s]
        BY <2>1, <2>5, <3>1
      <3>2. CASE AttemptStep(s)
        <4>1. attempt[s].at # "free"
          BY <1>1, <3>2 DEF AttemptStep, Acquire, MarkRunning, SaveRunning, Finish, TimeoutRaised,
                       MarkOutcome, SaveOutcome, Ack, At
        <4>2. attempt'[s].task = attempt[s].task
          BY <1>1, <2>1, <2>5, <3>2, AttemptTask, StoresAssumption DEF NoAttempt
        <4>3. attempt[s].at \notin WritingStages
          BY <2>1, <2>5, <4>2
        <4>4. CASE Acquire(s)
          BY <1>1, <2>1, <2>5, <4>2, <4>4 DEF Acquire, Goto, Attempt, WritingStages, RunningStages
        <4>5. CASE Ack(s)
          BY <1>1, <2>5, <4>5 DEF Ack, WritingStages, RunningStages
        <4>. QED
          BY <3>2, <4>3, <4>4, <4>5 DEF AttemptStep, MarkRunning, SaveRunning, Finish, TimeoutRaised,
                 MarkOutcome, SaveOutcome, At, WritingStages, RunningStages, SubmittedOnce
      <3>3. CASE attempt'[s] = NoAttempt
        BY <1>1, <2>5, <3>3 DEF WritingStages, RunningStages
      <3>4. ASSUME NEW v \in Workers, NEW p \in Partitions,
                   attempt'[s] = [at |-> "queued", task |-> NextTask(p), worker |-> v,
                                  msg |-> [part |-> p, offset |-> position[p]],
                                  outcome |-> "none"]
            PROVE  FALSE
        BY <2>5, <3>4 DEF WritingStages, RunningStages
      <3>5. ~TimesOut(s) /\ ~SaveFails(s) /\ ~MarkFails(s) /\ ~CountFails(s)
        BY DEF TimesOut, SaveFails, MarkFails, CountFails, SubmittedOnce
      <3>. QED  BY <3>1, <3>2, <3>3, <3>4, <3>5, AttemptMoves
    <2>6. ASSUME NEW u \in sweep[w].todo \ {t}
          PROVE  Orphan(u)'
      <3>1. Orphan(u) /\ u \in Tasks /\ ~SweepReset(w, u)
        BY <1>1, <1>7, <2>1, <2>6 DEF SweepReset, Sweeping
      <3>. QED  BY <1>4, <1>7, <3>1
    <2>. QED  BY <1>7, <2>1, <2>2, <2>3, <2>4, <2>5, <2>6
  <1>8. ASSUME NEW w \in Workers, sweep'[w].at = "mark"
        PROVE  Marking(w, sweep'[w].task)
    <2>1. ASSUME NEW t \in Tasks, SweepReset(w, t)
          PROVE  Marking(w, sweep'[w].task)
      <3>1. dbStatus[t] = "running"
        BY <1>1, <1>8, <2>1, ResetMoves, WithoutMoves
      <3>. QED  BY <1>6, <1>8, <2>1, <3>1
    <2>2. CASE sweep'[w] = sweep[w]
      BY <1>7, <1>8, <2>2
    <2>3. CASE SweepScan(w)
      <3>1. sweep'[w] = [sweep[w] EXCEPT !.at = "query",
                                         !.active = {v \in Workers : key[v] # "absent"},
                                         !.todo = aged]
        BY <1>1, <2>3 DEF SweepScan
      <3>2. sweep'[w].at = "query"
        BY <1>1, <3>1 DEF Sweep
      <3>. QED  BY <1>8, <3>2
    <2>4. CASE SweepQuery(w) \/ SweepMark(w) \/ sweep'[w] = NoSweep
      <3>1. sweep'[w].at # "mark"
        BY <1>1, <2>4, WithoutMoves DEF SweepQuery, SweepMark, NoSweep
      <3>. QED  BY <1>8, <3>1
    <2>5. ~SweepFails(w)
      BY DEF SweepFails, SubmittedOnce
    <2>. QED  BY <2>1, <2>2, <2>3, <2>4, <2>5, SweepMoves DEF SweepStep
  <1>. QED  BY <1>3, <1>5, <1>8 DEF OnceSweeps

\* A step of the system is a step of the durable status, or leaves the rows.
LEMMA DurableStep ==
    ASSUME SubmittedOnce, OnceKnown, [Next]_vars
    PROVE  [Durable!Next]_dbStatus
  <1>. USE DEF OnceKnown, OnceInv
  <1>. USE DEF Durable!Next, Durable!Submit, Durable!Start, Durable!Recover, Durable!End,
               Durable!Moves, Durable!Outcome
  <1>1. /\ dbStatus \in [Tasks -> Status]
        /\ TypeOK
    BY DEF TypeOK, StoresTypeOK
  <1>2. SUFFICES ASSUME NEW t \in Tasks, dbStatus'[t] # dbStatus[t]
                 PROVE  Durable!Next
    <2>1. dbStatus' \in [Tasks -> Status]
      BY TypeStep DEF TypeOK, StoresTypeOK
    <2>2. (\A t \in Tasks : dbStatus'[t] = dbStatus[t]) => dbStatus' = dbStatus
      BY <1>1, <2>1
    <2>. QED  BY <2>2
  <1>3. ASSUME NEW c \in Clients, Submit(c, t)
        PROVE  Durable!Next
    BY <1>3 DEF Submit, InsertRow
  <1>4. ASSUME NEW s \in Slots, SaveRunning(s), attempt[s].task = t
        PROVE  Durable!Next
    BY <1>4 DEF SaveRunning, At, WorkerWritesRow, OnceStores
  <1>5. ASSUME NEW s \in Slots, SaveOutcome(s), attempt[s].task = t
        PROVE  Durable!Next
    <2>1. dbStatus[t] = "running"
      BY <1>5 DEF SaveOutcome, At, OnceStores, RunningStages
    <2>2. Recorded(attempt[s].outcome) \in {"success", "failed", "timeout"}
      BY <1>5 DEF SaveOutcome, At, TypeOK, WorkerTypeOK, Attempt, Recording, Outcomes, Recorded
    <2>3. dbStatus' = [dbStatus EXCEPT ![t] = Recorded(attempt[s].outcome)]
      BY <1>5 DEF SaveOutcome, WorkerWritesRow
    <2>. QED  BY <2>1, <2>2, <2>3
  <1>6. ASSUME NEW w \in Workers, SweepReset(w, t)
        PROVE  Durable!Next
    <2>1. dbStatus[t] = "running" /\ dbStatus' = [dbStatus EXCEPT ![t] = "pending"]
      BY <1>2, <1>6, ResetMoves DEF dbVars
    <2>. QED  BY <2>1
  <1>7. \A c \in Clients : ~RetrySave(c) /\ ~CancelSave(c)
    BY DEF RetrySave, CancelSave, OnceMessages
  <1>. QED  BY <1>2, <1>3, <1>4, <1>5, <1>6, <1>7, RowWriters DEF RowWritten

\* What the two theorems below rest on.
LEMMA OnceInvariant ==
    ASSUME SubmittedOnce
    PROVE  Spec => []OnceKnown
  <1>. DEFINE Known == TypeOK /\ MessageHasRow /\ RunnerInv
  <1>1. Init => OnceInv
    <2>. SUFFICES ASSUME Init
                  PROVE  OnceInv
      OBVIOUS
    <2>1. OnceProcesses
      BY DEF Init, WorkerInit, NoAttempt, NoSweep, OnceProcesses
    <2>2. OnceMessages
      BY StoresAssumption DEF Init, MasterInit, KafkaInit, NoRequest, InLog, OnceMessages
    <2>3. OnceAttempts
      BY DEF Init, WorkerInit, NoAttempt, OnceAttempts
    <2>4. OnceStores
      BY DEF Init, StoresInit, WorkerInit, NoAttempt, Finished, RunningStages, OnceStores
    <2>5. OnceSweeps
      BY DEF Init, WorkerInit, NoSweep, OnceSweeps
    <2>. QED  BY <2>1, <2>2, <2>3, <2>4, <2>5 DEF OnceInv
  <1>2. Known /\ OnceInv /\ [Next]_vars => OnceInv'
    BY OnceProcessesStep, OnceMessagesStep, OnceAttemptsStep, OnceStoresStep, OnceSweepsStep
       DEF OnceInv, OnceKnown
  <1>3. Spec => []Known
    <2>1. StoresAnswer
      BY DEF SubmittedOnce, StoresAnswer
    <2>. QED  BY <2>1, TypeCorrect, CarriedTasksHaveRows, RunnerInvariant, PTL
  <1>4. OnceKnown <=> Known /\ OnceInv
    BY DEF OnceKnown
  <1>. HIDE DEF Known
  <1>. QED  BY <1>1, <1>2, <1>3, <1>4, PTL DEF Spec

\* Two coroutines that run the same task, of one worker or of two.
OneRunner ==
    \A r, s \in Slots :
        /\ attempt[r].at \in RunningStages
        /\ attempt[s].at \in RunningStages
        /\ attempt[r].task = attempt[s].task
        => r = s

\* A submitted task is never executed by two coroutines at once, although Kafka
\* may deliver its message again and no lock is taken: the redelivered message
\* meets either a hash that throws it away or a coroutine that is gone.
THEOREM TasksRunOnceAtATime ==
    ASSUME SubmittedOnce
    PROVE  Spec => []OneRunner
  <1>1. OnceKnown => OneRunner
    BY DEF OnceKnown, OnceInv, OnceAttempts, RunningStages, OneRunner
  <1>. QED  BY <1>1, OnceInvariant, PTL

\* Of rows that are only submitted, master, Kafka and workers together make a
\* durable status: it starts from pending, it ends once, and only recovery takes
\* a running one back, whichever messages, masters and workers are lost.
THEOREM DurableStatusImplemented ==
    ASSUME SubmittedOnce
    PROVE  Spec => RefinesDurableStatus
  <1>1. OnceKnown /\ [Next]_vars => [Durable!Next]_dbStatus
    BY DurableStep
  <1>2. Init => Durable!Init
    BY DEF Init, StoresInit, Durable!Init
  <1>. QED
    BY <1>1, <1>2, OnceInvariant, PTL DEF Spec, RefinesDurableStatus, Durable!Spec

-----------------------------------------------------------------------------
(* Rows that are retried *)

\* Submissions and retries.  No worker dies, leaves, is rebalanced or overruns
\* its deadline and no store fails, so that no message is delivered twice.
\* Sends fail, the master dies, hashes expire.
RetriedOnly ==
    /\ Operations = {"submit", "retry"}
    /\ Faults \subseteq {"sendFail", "masterCrash", "expiry"}

\* Two requests that have both found the same row retryable, which retry_task
\* does not exclude: each would dispatch the task.
RetriesApart ==
    \A c, d \in Clients :
        /\ request[c].at = "retrySave"
        /\ request[d].at = "retrySave"
        /\ request[c].task = request[d].task
        => c = d

\* Stages before the row says running, and those of a coroutine not done yet.
BeforeRow == {"queued", "claimed", "marked"}
Live == BeforeRow \cup RunningStages

Unfetched(t) ==
    \E p \in Partitions : \E i \in DOMAIN log[p] : i > position[p] /\ log[p][i] = t

\* Nobody but a request or a send has the task.
Underway(t) == Unfetched(t) \/ Works(t, Live)

\* Every worker is up with its key, no sweep finds a row to reset, and a
\* partition without an owner has not been read.
RetriedProcesses ==
    /\ \A w \in Workers :
          /\ worker[w] \in {"new", "registering", "up"}
          /\ worker[w] # "new" => key[w] # "absent"
          /\ sweep[w].at \in {"idle", "query"}
          /\ sweep[w].at = "query" => \A t \in sweep[w].todo \cap aged :
                dbStatus[t] = "running" => dbWorker[t] \in sweep[w].active
    /\ \A s \in Slots : attempt[s].at # "cancelling"
    /\ \A p \in Partitions : owner[p] = None => position[p] = 0 /\ committed[p] = 0

\* A retryable row is with at most one request, and a pending one with at most
\* one request, or in one send, or in one message, and then no coroutine has it.
RetriedMessages ==
    /\ \A c \in Clients : request[c].at \in {"idle", "retrySave", "seed", "dispatch"}
    /\ \A c \in Clients, t \in Tasks : request[c].task = t =>
          /\ request[c].at # "idle"
          /\ request[c].at = "retrySave" => dbStatus[t] \in Retryable
          /\ request[c].at # "retrySave" =>
                dbStatus[t] = "pending" /\ outbox[t] = 0 /\ ~Underway(t)
          /\ \A d \in Clients : request[d].task = t => d = c
    /\ \A t \in Tasks :
          /\ outbox[t] <= 1
          /\ outbox[t] > 0 => dbStatus[t] = "pending" /\ ~Underway(t)
          /\ Unfetched(t) => dbStatus[t] = "pending" /\ ~Works(t, Live)
    /\ \A p, q \in Partitions : \A i \in DOMAIN log[p], j \in DOMAIN log[q] :
          i > position[p] /\ j > position[q] /\ log[p][i] = log[q][j] => p = q /\ i = j

\* The row is where its coroutine has left it, and that coroutine is its only one.
RetriedAttempts ==
    /\ \A s \in Slots :
          /\ attempt[s].at \in Live => attempt[s].task \in Tasks
          /\ attempt[s].at \in BeforeRow => dbStatus[attempt[s].task] = "pending"
          /\ attempt[s].at \in RunningStages =>
                /\ dbStatus[attempt[s].task] = "running"
                /\ dbWorker[attempt[s].task] = attempt[s].worker
    /\ \A r, s \in Slots :
          /\ attempt[r].at \in Live
          /\ attempt[s].at \in Live
          /\ attempt[r].task = attempt[s].task
          => r = s

RetriedInv == RetriedProcesses /\ RetriedMessages /\ RetriedAttempts

\* What holds besides, proved above.
RetriedKnown == TypeOK /\ MessageHasRow /\ RunnerInv /\ RetriedInv

\* The failures and requests that RetriedOnly leaves out do not happen.
LEMMA RetriedCalm ==
    ASSUME RetriedOnly, RetriedKnown
    PROVE  /\ \A w \in Workers : /\ ~Crash(w) /\ ~Stop(w) /\ ~Shutdown(w) /\ ~KeyExpires(w)
                                 /\ ~SweepFails(w) /\ ~SweepMark(w)
                                 /\ \A t \in Tasks : ~SweepReset(w, t)
                                 /\ \A p \in Partitions : ~Rebalance(p, w)
           /\ \A s \in Slots : /\ ~TimesOut(s) /\ ~TimeoutRaised(s) /\ ~SaveFails(s)
                               /\ ~MarkFails(s) /\ ~CountFails(s)
           /\ \A c \in Clients : /\ ~CancelSave(c) /\ ~CancelMark(c)
                                 /\ \A t \in Tasks : ~CancelRead(c, t)
  <1>. USE DEF RetriedKnown, RetriedInv, RetriedOnly
  <1>1. \A w \in Workers : ~Blocked(w)
    BY DEF Blocked, RetriedProcesses
  <1>2. \A w \in Workers : /\ ~Crash(w) /\ ~Stop(w) /\ ~Shutdown(w) /\ ~KeyExpires(w)
                           /\ \A p \in Partitions : ~Rebalance(p, w)
    BY <1>1 DEF Crash, Stop, Shutdown, KeyExpires, Rebalance, RetriedProcesses
  <1>3. \A w \in Workers : /\ ~SweepFails(w) /\ ~SweepMark(w)
                           /\ \A t \in Tasks : ~SweepReset(w, t)
    BY DEF SweepFails, SweepMark, SweepReset, Sweeping, RetriedProcesses
  <1>4. \A s \in Slots : /\ ~TimesOut(s) /\ ~TimeoutRaised(s) /\ ~SaveFails(s)
                         /\ ~MarkFails(s) /\ ~CountFails(s)
    BY DEF TimesOut, TimeoutRaised, SaveFails, MarkFails, CountFails, RetriedProcesses
  <1>5. \A c \in Clients : /\ ~CancelSave(c) /\ ~CancelMark(c)
                           /\ \A t \in Tasks : ~CancelRead(c, t)
    BY DEF CancelSave, CancelMark, CancelRead, RetriedMessages
  <1>. QED  BY <1>2, <1>3, <1>4, <1>5

\* The four things that happen to a row.
LEMMA RetriedRow ==
    ASSUME RetriedOnly, RetriedKnown, [Next]_vars, NEW t \in Tasks, dbStatus'[t] # dbStatus[t]
    PROVE  \/ \E c \in Clients : Submit(c, t) /\ dbStatus[t] = "absent" /\ dbStatus'[t] = "pending"
           \/ \E c \in Clients : /\ RetrySave(c) /\ request[c].task = t
                                 /\ dbStatus[t] \in Retryable /\ dbStatus'[t] = "pending"
           \/ \E s \in Slots : /\ SaveRunning(s) /\ attempt[s].task = t
                               /\ dbStatus[t] = "pending" /\ dbStatus'[t] = "running"
           \/ \E s \in Slots : /\ SaveOutcome(s) /\ attempt[s].task = t
                               /\ dbStatus[t] = "running"
                               /\ dbStatus'[t] \in {"success", "failed", "timeout"}
  <1>. USE DEF RetriedKnown, RetriedInv
  <1>1. \A c \in Clients : Submit(c, t) => dbStatus[t] = "absent"
    BY DEF Submit
  <1>2. \A c \in Clients : RetrySave(c) /\ request[c].task = t => dbStatus[t] \in Retryable
    BY DEF RetrySave, RetriedMessages
  <1>3. \A s \in Slots : SaveRunning(s) /\ attempt[s].task = t => dbStatus[t] = "pending"
    BY DEF SaveRunning, At, RetriedAttempts, BeforeRow
  <1>4. ASSUME NEW s \in Slots, SaveOutcome(s), attempt[s].task = t,
               dbStatus'[t] = Recorded(attempt[s].outcome)
        PROVE  dbStatus[t] = "running" /\ dbStatus'[t] \in {"success", "failed", "timeout"}
    <2>1. dbStatus[t] = "running"
      BY <1>4 DEF SaveOutcome, At, RetriedAttempts, RunningStages
    <2>2. attempt[s].outcome # "none" /\ attempt[s].outcome \in Outcomes
      BY <1>4 DEF SaveOutcome, At, TypeOK, WorkerTypeOK, Attempt, Recording
    <2>3. Recorded(attempt[s].outcome) \in {"success", "failed", "timeout"}
      BY <2>2 DEF Outcomes, Recorded
    <2>. QED  BY <1>4, <2>1, <2>3
  <1>. QED  BY <1>1, <1>2, <1>3, <1>4, RowWriters, RetriedCalm DEF RowWritten

\* A pending row that no coroutine has stays pending.
LEMMA RetriedPendingStays ==
    ASSUME RetriedOnly, RetriedKnown, [Next]_vars, NEW t \in Tasks, dbStatus[t] = "pending",
           ~Works(t, Live)
    PROVE  dbStatus'[t] = "pending"
  <1>1. \A s \in Slots : SaveRunning(s) => attempt[s].at \in Live
    BY DEF SaveRunning, At, Live, BeforeRow
  <1>. QED  BY <1>1, RetriedRow DEF Works, Retryable

\* A partition without an owner is neither read nor committed.
LEMMA UnownedStays ==
    ASSUME RetriedOnly, RetriedKnown, [Next]_vars, NEW p \in Partitions, owner[p] = None
    PROVE  committed'[p] = 0 /\ position'[p] = 0
  <1>. USE DEF RetriedKnown, RetriedInv
  <1>1. /\ committed \in [Partitions -> Nat] /\ position \in [Partitions -> Nat]
        /\ attempt \in [Slots -> Attempt]
        /\ None \notin Workers
        /\ committed[p] = 0 /\ position[p] = 0
    BY StoresAssumption DEF TypeOK, KafkaTypeOK, WorkerTypeOK, RetriedProcesses
  <1>2. CASE UNCHANGED <<committed, position>>
    BY <1>1, <1>2
  <1>3. ASSUME NEW w \in Workers, NEW offsets, CommitOffsets(w, offsets)
        PROVE  committed'[p] = 0 /\ position'[p] = 0
    BY <1>1, <1>3 DEF CommitOffsets
  <1>4. CASE ProcessNext
    BY <1>2, <1>4, RetriedCalm
       DEF ProcessNext, Register, RegisterExpire, HeartbeatSet, HeartbeatExpire, kafkaVars
  <1>5. CASE ConsumerNext
    BY <1>1, <1>3, <1>5, RetriedCalm
       DEF ConsumerNext, Assign, Consume, CommitSkipped, CommitIdle, AssignTo, Fetch,
           CommitPositions
  <1>6. CASE AttemptNext
    <2>1. \A s \in Slots : Ack(s) => attempt[s].worker \in Workers
      BY DEF Ack, At, RunnerInv
    <2>. QED
      BY <1>2, <1>3, <1>6, <2>1, RetriedCalm
         DEF AttemptNext, AttemptStep, Acquire, MarkRunning, SaveRunning, Finish, MarkOutcome,
             SaveOutcome, Ack, kafkaVars
  <1>7. CASE SweepNext
    BY <1>2, <1>7 DEF SweepNext, SweepStep, SweepScan, SweepQuery, SweepReset, SweepMark,
                      SweepFails, Age, kafkaVars
  <1>. QED
    BY <1>2, <1>4, <1>5, <1>6, <1>7
       DEF Next, MasterNext, WorkerNext, SendConfirmed, AppendMessage, kafkaVars, vars

LEMMA RetriedProcessesStep ==
    ASSUME RetriedOnly, RetriedKnown, [Next]_vars
    PROVE  RetriedProcesses'
  <1>. USE DEF RetriedKnown, RetriedInv
  <1>1. /\ worker \in [Workers -> ProcessStates] /\ key \in [Workers -> KeyStates]
        /\ sweep \in [Workers -> Sweep]
        /\ attempt \in [Slots -> Attempt]
        /\ committed \in [Partitions -> Nat]
        /\ owner \in [Partitions -> Workers \cup {None}]
        /\ position \in [Partitions -> Nat]
        /\ None \notin Workers
        /\ NoSweep.at = "idle"
        /\ TypeOK
    BY StoresAssumption DEF TypeOK, WorkerTypeOK, KafkaTypeOK, NoSweep
  <1>2. ASSUME NEW w \in Workers
        PROVE  worker'[w] \in {"new", "registering", "up"} /\ (worker'[w] # "new" => key'[w] # "absent")
    <2>1. worker'[w] = worker[w] \/ Register(w) \/ RegisterExpire(w)
      BY WorkerMoves, RetriedCalm
    <2>2. worker'[w] \in {"new", "registering", "up"}
      BY <1>1, <2>1 DEF Register, RegisterExpire, RetriedProcesses
    <2>3. CASE Register(w) \/ RegisterExpire(w)
      BY <1>1, <2>2, <2>3 DEF Register, RegisterExpire
    <2>4. CASE worker'[w] = worker[w]
      BY <2>2, <2>4, KeyMoves, RetriedCalm DEF RetriedProcesses
    <2>. QED  BY <2>1, <2>2, <2>3, <2>4
  <1>3. ASSUME NEW w \in Workers
        PROVE  /\ sweep'[w].at \in {"idle", "query"}
               /\ sweep'[w].at = "query" => \A t \in sweep'[w].todo \cap aged' :
                     dbStatus'[t] = "running" => dbWorker'[t] \in sweep'[w].active
    <2>1. CASE sweep'[w] = sweep[w]
      <3>. SUFFICES ASSUME sweep[w].at = "query", NEW t \in sweep[w].todo \cap aged',
                           dbStatus'[t] = "running"
                    PROVE  dbWorker'[t] \in sweep[w].active
        BY <2>1 DEF RetriedProcesses
      <3>1. t \in Tasks /\ t \in aged
        <4>1. sweep[w].todo \subseteq Tasks
          BY <1>1 DEF Sweep
        <4>. QED  BY <4>1, AgedMoves DEF Age
      <3>2. dbStatus[t] = "running" /\ dbWorker'[t] = dbWorker[t]
        BY <3>1, AgedMoves, RowStep DEF RowMoves
      <3>. QED  BY <3>1, <3>2 DEF RetriedProcesses
    <2>2. CASE SweepScan(w)
      <3>1. sweep'[w] = [sweep[w] EXCEPT !.at = "query",
                                         !.active = {v \in Workers : key[v] # "absent"},
                                         !.todo = aged]
        BY <1>1, <2>2 DEF SweepScan
      <3>2. sweep'[w].at = "query" /\ sweep'[w].active = {v \in Workers : key[v] # "absent"}
            /\ sweep'[w].todo = aged
        BY <1>1, <3>1 DEF Sweep
      <3>3. UNCHANGED <<dbStatus, dbWorker, aged>> /\ aged \subseteq Tasks
        BY <2>2 DEF SweepScan, storeVars, dbVars, TypeOK, StoresTypeOK
      <3>4. \A t \in Tasks : dbStatus[t] = "running" =>
               dbWorker[t] \in Workers /\ key[dbWorker[t]] # "absent"
        BY DEF RunnerInv, RetriedProcesses
      <3>. QED  BY <3>2, <3>3, <3>4
    <2>3. CASE SweepQuery(w)
      <3>1. Stale(w) = {}
        BY <2>3 DEF SweepQuery, Sweeping, Stale, RetriedProcesses
      <3>. QED  BY <1>1, <2>3, <3>1 DEF SweepQuery
    <2>. QED  BY <2>1, <2>2, <2>3, SweepMoves, RetriedCalm DEF SweepStep
  <1>4. ASSUME NEW s \in Slots
        PROVE  attempt'[s].at # "cancelling"
    <2>1. CASE attempt'[s] = attempt[s]
      BY <2>1 DEF RetriedProcesses
    <2>2. CASE AttemptStep(s)
      <3>1. ~TimeoutRaised(s)
        BY RetriedCalm
      <3>. QED
        BY <1>1, <2>2, <3>1 DEF AttemptStep, Acquire, MarkRunning, SaveRunning, Finish,
              MarkOutcome, SaveOutcome, Ack, Goto, Attempt, NoAttempt
    <2>3. ASSUME NEW w \in Workers, NEW p \in Partitions,
                 attempt'[s] = [at |-> "queued", task |-> NextTask(p), worker |-> w,
                                msg |-> [part |-> p, offset |-> position[p]],
                                outcome |-> "none"]
          PROVE  attempt'[s].at # "cancelling"
      BY <2>3
    <2>. QED  BY <2>1, <2>2, <2>3, AttemptMoves, RetriedCalm
  <1>5. ASSUME NEW p \in Partitions, owner'[p] = None
        PROVE  position'[p] = 0 /\ committed'[p] = 0
    <2>1. \A w \in Workers : ~Assign(p, w)
      BY <1>1, <1>5 DEF Assign, AssignTo
    <2>2. owner[p] = None
      BY <1>1, <1>5, <2>1, PartitionMoves, RetriedCalm
    <2>. QED  BY <2>2, UnownedStays
  <1>. QED  BY <1>2, <1>3, <1>4, <1>5 DEF RetriedProcesses

\* A message that is not fetched yet was so before, or it was just sent.
LEMMA UnfetchedMoves ==
    ASSUME RetriedOnly, RetriedKnown, [Next]_vars, NEW p \in Partitions,
           NEW i \in DOMAIN log'[p], i > position'[p]
    PROVE  \/ i \in DOMAIN log[p] /\ log'[p][i] = log[p][i] /\ i > position[p]
           \/ /\ i = Len(log[p]) + 1
              /\ log'[p][i] \in Tasks
              /\ SendConfirmed(log'[p][i], p)
  <1>. USE DEF RetriedKnown, RetriedInv
  <1>1. /\ log \in [Partitions -> Seq(Tasks)] /\ log[p] \in Seq(Tasks)
        /\ position \in [Partitions -> Nat] /\ position' \in [Partitions -> Nat]
        /\ i \in Nat
    <2>1. TypeOK'
      BY TypeStep
    <2>2. log' \in [Partitions -> Seq(Tasks)] /\ position' \in [Partitions -> Nat]
      BY <2>1 DEF TypeOK, KafkaTypeOK
    <2>. QED  BY <2>2 DEF TypeOK, KafkaTypeOK
  <1>2. position'[p] >= position[p]
    <2>1. ASSUME NEW w \in Workers, Assign(p, w)
          PROVE  position[p] = 0
      BY <2>1 DEF Assign, RetriedProcesses
    <2>2. position[p] \in Nat /\ position'[p] \in Nat
      BY <1>1
    <2>3. (\E w \in Workers : Assign(p, w)) \/ position'[p] >= position[p]
      BY PartitionMoves, RetriedCalm
    <2>. QED  BY <2>1, <2>2, <2>3
  <1>3. i > position[p]
    BY <1>1, <1>2
  <1>4. CASE log'[p] = log[p]
    BY <1>3, <1>4
  <1>5. ASSUME NEW u \in Tasks, SendConfirmed(u, p), log'[p] = Append(log[p], u)
        PROVE  \/ i \in DOMAIN log[p] /\ log'[p][i] = log[p][i] /\ i > position[p]
               \/ i = Len(log[p]) + 1 /\ log'[p][i] \in Tasks /\ SendConfirmed(log'[p][i], p)
    <2>1. \/ i \in DOMAIN log[p] /\ log'[p][i] = log[p][i]
          \/ i = Len(log[p]) + 1 /\ log'[p][i] = u
      BY <1>1, <1>5
    <2>. QED  BY <1>3, <1>5, <2>1
  <1>. QED  BY <1>4, <1>5, LogMoves

\* A coroutine that is not done was so before, or it has just got its message.
LEMMA LiveMoves ==
    ASSUME RetriedOnly, RetriedKnown, [Next]_vars, NEW s \in Slots, attempt'[s].at \in Live
    PROVE  \/ /\ attempt[s].at \in Live
              /\ attempt'[s].task = attempt[s].task
              /\ attempt'[s].worker = attempt[s].worker
              /\ attempt'[s].at \in BeforeRow => attempt[s].at \in BeforeRow
              /\ attempt[s].at \in BeforeRow /\ attempt'[s].at \notin BeforeRow => SaveRunning(s)
              /\ SaveRunning(s) => attempt'[s].at \notin BeforeRow
              /\ ~SaveOutcome(s)
           \/ \E w \in Workers, p \in Partitions :
                 /\ Consume(w, p)
                 /\ attempt'[s].at = "queued" /\ attempt'[s].task = NextTask(p)
                 /\ \A r \in Slots \ {s} : attempt'[r] = attempt[r]
  <1>. USE DEF RetriedKnown, RetriedInv
  <1>1. attempt \in [Slots -> Attempt]
    BY DEF TypeOK, WorkerTypeOK
  <1>2. NoAttempt.at \notin Live
    BY DEF NoAttempt, Live, BeforeRow, RunningStages
  <1>3. CASE AttemptStep(s)
    <2>. USE DEF Live, BeforeRow, RunningStages, At, Goto, Attempt
    <2>1. CASE Acquire(s)
      BY <1>1, <2>1 DEF Acquire, SaveRunning, SaveOutcome
    <2>2. CASE MarkRunning(s)
      BY <1>1, <2>2 DEF MarkRunning, SaveRunning, SaveOutcome
    <2>3. CASE SaveRunning(s)
      BY <1>1, <2>3 DEF SaveRunning, SaveOutcome
    <2>4. CASE (\E outcome \in Outcomes : Finish(s, outcome)) \/ MarkOutcome(s)
      BY <1>1, <2>4 DEF Finish, MarkOutcome, SaveRunning, SaveOutcome
    <2>5. CASE SaveOutcome(s)
      BY <1>1, <2>5 DEF SaveOutcome
    <2>6. CASE Ack(s)
      BY <1>1, <1>2, <2>6 DEF Ack
    <2>. QED  BY <1>3, <2>1, <2>2, <2>3, <2>4, <2>5, <2>6, RetriedCalm DEF AttemptStep
  <1>4. CASE attempt'[s] = attempt[s]
    <2>1. ~SaveRunning(s) /\ ~SaveOutcome(s)
      BY <1>1, <1>4 DEF SaveRunning, SaveOutcome, At, Goto, Attempt
    <2>. QED  BY <1>4, <2>1
  <1>5. ASSUME NEW w \in Workers, NEW p \in Partitions, Consume(w, p),
               attempt'[s] = [at |-> "queued", task |-> NextTask(p), worker |-> w,
                              msg |-> [part |-> p, offset |-> position[p]],
                              outcome |-> "none"],
               \A r \in Slots \ {s} : attempt'[r] = attempt[r]
        PROVE  /\ attempt'[s].at = "queued" /\ attempt'[s].task = NextTask(p)
               /\ Consume(w, p)
    BY <1>5
  <1>. QED  BY <1>3, <1>4, <1>5, AttemptMoves, RetriedCalm

\* The message consume_tasks takes is one not fetched yet, and then is fetched.
LEMMA ConsumeMoves ==
    ASSUME TypeOK, NEW w \in Workers, NEW p \in Partitions, Consume(w, p)
    PROVE  /\ position[p] + 1 \in DOMAIN log[p] /\ position[p] + 1 > position[p]
           /\ log[p][position[p] + 1] = NextTask(p)
           /\ NextTask(p) \in Tasks
           /\ Unfetched(NextTask(p))
           /\ position'[p] = position[p] + 1
           /\ UNCHANGED <<log, storeVars>>
  <1>1. log[p] \in Seq(Tasks) /\ position \in [Partitions -> Nat]
    BY DEF TypeOK, KafkaTypeOK
  <1>2. /\ position[p] + 1 \in DOMAIN log[p] /\ position[p] + 1 > position[p]
        /\ log[p][position[p] + 1] = NextTask(p)
        /\ position'[p] = position[p] + 1
        /\ UNCHANGED <<log, storeVars>>
    BY <1>1 DEF Consume, Fetch, HasNext, NextTask
  <1>. QED  BY <1>1, <1>2 DEF Unfetched

\* Only a handler adds a send.
LEMMA OutboxMoves ==
    ASSUME TypeOK, [Next]_vars, NEW t \in Tasks
    PROVE  /\ \/ outbox'[t] <= outbox[t]
              \/ /\ outbox'[t] = outbox[t] + 1
                 /\ \E c \in Clients : Dispatch(c) /\ request[c].task = t
           /\ \A p \in Partitions : SendConfirmed(t, p) => outbox[t] > 0 /\ outbox'[t] = outbox[t] - 1
  <1>1. outbox \in [Tasks -> Nat] /\ outbox[t] \in Nat
    BY DEF TypeOK, MasterTypeOK
  <1>2. CASE UNCHANGED outbox
    BY <1>1, <1>2 DEF SendConfirmed
  <1>3. ASSUME NEW u \in Tasks, outbox' = [outbox EXCEPT ![u] = @ - 1], outbox[u] > 0
        PROVE  outbox'[t] <= outbox[t]
    <2>1. outbox'[t] = IF t = u THEN outbox[t] - 1 ELSE outbox[t]
      BY <1>1, <1>3
    <2>. QED  BY <1>1, <2>1
  <1>4. \A p \in Partitions : SendConfirmed(t, p) => outbox[t] > 0 /\ outbox'[t] = outbox[t] - 1
    BY <1>1 DEF SendConfirmed
  <1>5. CASE MasterNext
    <2>1. ASSUME NEW c \in Clients, Dispatch(c)
          PROVE  \/ outbox'[t] <= outbox[t]
                 \/ outbox'[t] = outbox[t] + 1 /\ request[c].task = t
      <3>1. outbox'[t] = IF t = request[c].task THEN outbox[t] + 1 ELSE outbox[t]
        BY <1>1, <2>1 DEF Dispatch
      <3>. QED  BY <1>1, <3>1
    <2>2. ASSUME MasterCrash
          PROVE  outbox'[t] <= outbox[t]
      BY <1>1, <2>2 DEF MasterCrash
    <2>. QED
      BY <1>1, <1>2, <1>3, <1>4, <1>5, <2>1, <2>2
         DEF MasterNext, RequestStep, SeedRedis, RetrySave, CancelSave, CancelMark, RequestFails, UpdateIsLost,
             RequestStarts, Submit, RetryRead, CancelRead, SendFails
  <1>6. ASSUME NEW u \in Tasks, NEW p \in Partitions, SendConfirmed(u, p)
        PROVE  outbox'[t] <= outbox[t]
    BY <1>3, <1>6 DEF SendConfirmed
  <1>. QED
    BY <1>2, <1>4, <1>5, <1>6 DEF Next, WorkerNext, masterVars, vars

\* Nothing has a task whose row is neither pending nor running, but a request
\* that is about to make it pending again.
LEMMA SettledIsFree ==
    ASSUME RetriedKnown, NEW t \in Tasks, dbStatus[t] \notin {"pending", "running"}
    PROVE  /\ outbox[t] = 0 /\ ~Underway(t)
           /\ \A c \in Clients : request[c].task = t => request[c].at = "retrySave"
  <1>. USE DEF RetriedKnown, RetriedInv
  <1>1. outbox[t] \in Nat
    BY DEF TypeOK, MasterTypeOK
  <1>2. ~Works(t, Live)
    BY DEF Works, Live, RetriedAttempts
  <1>. QED  BY <1>1, <1>2 DEF RetriedMessages, Underway

\* A message or a coroutine for t comes from a send of t.
LEMMA UnderwayMoves ==
    ASSUME RetriedOnly, RetriedKnown, [Next]_vars, NEW t \in Tasks, ~Underway(t), Underway(t)'
    PROVE  \E p \in Partitions : SendConfirmed(t, p)
  <1>. USE DEF Underway
  <1>1. CASE Unfetched(t)'
    <2>1. PICK p \in Partitions : \E i \in DOMAIN log'[p] : i > position'[p] /\ log'[p][i] = t
      BY <1>1 DEF Unfetched
    <2>2. PICK i \in DOMAIN log'[p] : i > position'[p] /\ log'[p][i] = t
      BY <2>1
    <2>. QED  BY <2>2, UnfetchedMoves DEF Unfetched
  <1>2. CASE Works(t, Live)'
    <2>1. PICK s \in Slots : attempt'[s].task = t /\ attempt'[s].at \in Live
      BY <1>2 DEF Works
    <2>2. \A w \in Workers, p \in Partitions : Consume(w, p) => NextTask(p) # t
      BY ConsumeMoves DEF RetriedKnown
    <2>. QED  BY <2>1, <2>2, LiveMoves DEF Works
  <1>. QED  BY <1>1, <1>2

\* How a request moves.
LEMMA RetriedRequestMoves ==
    ASSUME RetriedOnly, RetriedKnown, [Next]_vars, NEW c \in Clients
    PROVE  \/ request'[c] = NoRequest
           \/ request'[c] = request[c] /\ ~Dispatch(c) /\ ~RetrySave(c)
           \/ /\ request[c].at = "seed" /\ request'[c].at = "dispatch"
              /\ request'[c].task = request[c].task
           \/ /\ RetrySave(c) /\ request'[c].at = "seed"
              /\ request'[c].task = request[c].task
           \/ \E u \in Tasks : Submit(c, u) /\ request'[c].at = "seed" /\ request'[c].task = u
           \/ \E u \in Tasks : RetryRead(c, u) /\ request'[c].at = "retrySave" /\ request'[c].task = u
  <1>1. request \in [Clients -> Request] /\ request[c] \in Request
    BY DEF RetriedKnown, TypeOK, MasterTypeOK
  <1>2. CASE SeedRedis(c) \/ RetrySave(c)
    BY <1>1, <1>2 DEF SeedRedis, RetrySave, Advance, Request
  <1>3. CASE Dispatch(c) \/ RequestFails(c)
    BY <1>1, <1>3 DEF Dispatch, RequestFails, Reply
  <1>4. CASE \E u \in Tasks : Submit(c, u) \/ RetryRead(c, u)
    BY <1>1, <1>4 DEF Submit, RetryRead, Enter
  <1>5. CASE request'[c] = request[c]
    <2>1. Dispatch(c) => request'[c] = NoRequest
      BY <1>1 DEF Dispatch, Reply
    <2>2. ~RetrySave(c)
      BY <1>1, <1>5 DEF RetrySave, Advance, Request
    <2>. QED  BY <1>5, <2>1, <2>2
  <1>. QED
    BY <1>2, <1>3, <1>4, <1>5, RequestMoves, RetriedCalm
       DEF RequestStep, RequestStarts, RetriedKnown, RetriedOnly, UpdateIsLost

\* A request keeps what it found.
LEMMA RetriedRequestStep ==
    ASSUME RetriedOnly, RetriedKnown, [Next]_vars, RetriesApart', NEW c \in Clients, NEW t \in Tasks,
           request'[c].task = t
    PROVE  /\ request'[c].at # "idle"
           /\ request'[c].at = "retrySave" => dbStatus'[t] \in Retryable
           /\ request'[c].at # "retrySave" =>
                dbStatus'[t] = "pending" /\ outbox'[t] = 0 /\ ~Underway(t)'
           /\ \A d \in Clients : request'[d].task = t => d = c
  <1>. USE DEF RetriedKnown, RetriedInv
  <1>1. /\ request \in [Clients -> Request]
        /\ outbox[t] \in Nat /\ outbox'[t] \in Nat
        /\ NoRequest.task \notin Tasks
        /\ dbStatus \in [Tasks -> Status]
    <2>1. TypeOK'
      BY TypeStep
    <2>. QED  BY <2>1, StoresAssumption DEF TypeOK, MasterTypeOK, StoresTypeOK, NoRequest
  <1>2. ASSUME NEW d \in Clients, request[d].task = t, NEW e \in Clients, request[e].task = t
        PROVE  d = e
    BY <1>2 DEF RetriedMessages
  \* What is free stays so, unless a request dispatches it.
  <1>3. ASSUME outbox[t] = 0, ~Underway(t), \A d \in Clients : Dispatch(d) => request[d].task # t
        PROVE  outbox'[t] = 0 /\ ~Underway(t)'
    BY <1>1, <1>3, OutboxMoves, UnderwayMoves
  <1>4. ASSUME request[c].task = t, ~RetrySave(c), ~Dispatch(c), request[c].at = "retrySave"
        PROVE  dbStatus'[t] \in Retryable
    <2>1. dbStatus[t] \in Retryable
      BY <1>4 DEF RetriedMessages
    <2>. QED  BY <1>2, <1>4, <2>1, RetriedRow DEF Retryable
  <1>5. ASSUME request[c].task = t, ~Dispatch(c), request[c].at # "retrySave"
        PROVE  dbStatus'[t] = "pending" /\ outbox'[t] = 0 /\ ~Underway(t)'
    <2>1. dbStatus[t] = "pending" /\ outbox[t] = 0 /\ ~Underway(t)
      BY <1>5 DEF RetriedMessages
    <2>2. dbStatus'[t] = "pending"
      BY <2>1, RetriedPendingStays DEF Underway
    <2>. QED  BY <1>2, <1>3, <1>5, <2>1, <2>2
  <1>6. ASSUME RetrySave(c), request[c].task = t
        PROVE  dbStatus'[t] = "pending" /\ outbox'[t] = 0 /\ ~Underway(t)'
    <2>1. request[c].at = "retrySave" /\ dbStatus'[t] = "pending"
      BY <1>1, <1>6 DEF RetrySave, ReopenRow
    <2>2. outbox[t] = 0 /\ ~Underway(t)
      BY <1>6, <2>1, SettledIsFree DEF RetriedMessages, Retryable
    <2>3. ~Dispatch(c)
      BY <2>1 DEF Dispatch
    <2>. QED  BY <1>2, <1>3, <1>6, <2>1, <2>2, <2>3
  <1>7. ASSUME Submit(c, t)
        PROVE  /\ dbStatus'[t] = "pending" /\ outbox'[t] = 0 /\ ~Underway(t)'
               /\ \A d \in Clients : request'[d].task = t => d = c
    <2>1. dbStatus[t] = "absent" /\ dbStatus'[t] = "pending"
      BY <1>1, <1>7 DEF Submit, InsertRow
    <2>2. \A d \in Clients : request[d].task # t
      BY <2>1 DEF MessageHasRow
    <2>3. \A d \in Clients : d # c => request'[d] = request[d]
      BY <1>1, <1>7 DEF Submit, Enter
    <2>. QED  BY <1>3, <2>1, <2>2, <2>3, SettledIsFree
  <1>8. ASSUME RetryRead(c, t), request'[c].at = "retrySave"
        PROVE  /\ dbStatus'[t] \in Retryable
               /\ \A d \in Clients : request'[d].task = t => d = c
    <2>1. dbStatus[t] \in Retryable /\ UNCHANGED dbStatus
      BY <1>8 DEF RetryRead, storeVars, dbVars
    <2>2. \A d \in Clients : d # c => request'[d] = request[d]
      BY <1>1, <1>8 DEF RetryRead, Enter
    <2>3. \A d \in Clients : request[d].task = t => request[d].at = "retrySave"
      BY <2>1, SettledIsFree DEF Retryable
    <2>. QED  BY <1>8, <2>1, <2>2, <2>3 DEF RetriesApart
  <1>9. ASSUME request[c].task = t, NEW d \in Clients, request'[d].task = t, d # c
        PROVE  \E u \in Tasks : Submit(d, u) \/ RetryRead(d, u)
    <2>1. request[d].task # t
      BY <1>2, <1>9
    <2>. QED  BY <1>1, <1>9, <2>1, RetriedRequestMoves
  <1>10. ASSUME request[c].task = t
         PROVE  \A d \in Clients : request'[d].task = t => d = c
    <2>1. ASSUME NEW d \in Clients, request'[d].task = t, d # c
          PROVE  FALSE
      <3>1. PICK u \in Tasks : Submit(d, u) \/ RetryRead(d, u)
        BY <1>9, <1>10, <2>1
      <3>2. u = t /\ request'[c] = request[c]
        BY <1>1, <2>1, <3>1 DEF Submit, RetryRead, Enter
      <3>3. CASE Submit(d, t)
        BY <1>10, <3>3 DEF Submit, MessageHasRow
      <3>4. CASE RetryRead(d, t)
        <4>1. dbStatus[t] \in Retryable /\ request'[d].at = "retrySave"
          BY <1>1, <3>4 DEF RetryRead, Enter
        <4>2. request'[c].at = "retrySave"
          BY <1>10, <3>2, <4>1, SettledIsFree DEF Retryable
        <4>. QED  BY <2>1, <4>1, <4>2 DEF RetriesApart
      <3>. QED  BY <3>1, <3>2, <3>3, <3>4
    <2>. QED  BY <2>1
  <1>11. CASE request[c].task = t /\ request'[c] = request[c] /\ ~Dispatch(c) /\ ~RetrySave(c)
    <2>1. request'[c].at # "idle"
      BY <1>11 DEF RetriedMessages
    <2>. QED  BY <1>4, <1>5, <1>10, <1>11, <2>1
  <1>12. CASE /\ request[c].at = "seed" /\ request'[c].at = "dispatch"
              /\ request[c].task = t
    <2>1. ~Dispatch(c)
      BY <1>12 DEF Dispatch
    <2>. QED  BY <1>5, <1>10, <1>12, <2>1
  <1>13. CASE RetrySave(c) /\ request'[c].at = "seed" /\ request[c].task = t
    BY <1>6, <1>10, <1>13
  <1>14. CASE (Submit(c, t) /\ request'[c].at = "seed")
              \/ (RetryRead(c, t) /\ request'[c].at = "retrySave")
    BY <1>7, <1>8, <1>14
  <1>. QED  BY <1>1, <1>11, <1>12, <1>13, <1>14, RetriedRequestMoves

\* Two messages not fetched yet are of different tasks.
LEMMA UnfetchedStayApart ==
    ASSUME RetriedOnly, RetriedKnown, [Next]_vars,
           NEW p \in Partitions, NEW i \in DOMAIN log'[p], i > position'[p],
           NEW q \in Partitions, NEW j \in DOMAIN log'[q], j > position'[q],
           log'[p][i] = log'[q][j]
    PROVE  p = q /\ i = j
  <1>. USE DEF RetriedKnown, RetriedInv
  <1>. DEFINE Old(r, k) == k \in DOMAIN log[r] /\ log'[r][k] = log[r][k] /\ k > position[r]
              Sent(r, k) == /\ k = Len(log[r]) + 1
                            /\ log'[r][k] \in Tasks
                            /\ SendConfirmed(log'[r][k], r)
  <1>1. ASSUME NEW r \in Partitions, NEW k, Sent(r, k), NEW r2 \in Partitions, NEW k2, Old(r2, k2),
               log'[r][k] = log'[r2][k2]
        PROVE  FALSE
    <2>1. outbox[log'[r][k]] > 0
      BY <1>1, OutboxMoves
    <2>2. Unfetched(log'[r][k])
      BY <1>1 DEF Unfetched
    <2>. QED  BY <1>1, <2>1, <2>2 DEF RetriedMessages, Underway
  <1>2. ASSUME Sent(p, i), Sent(q, j)
        PROVE  p = q
    <2>1. log \in [Partitions -> Seq(Tasks)] /\ log[p] \in Seq(Tasks)
      BY DEF TypeOK, KafkaTypeOK
    <2>2. log' = [log EXCEPT ![q] = Append(@, log'[q][j])]
      BY <1>2 DEF SendConfirmed, AppendMessage
    <2>3. CASE p # q
      <3>1. log'[p] = log[p]
        BY <2>1, <2>2, <2>3
      <3>. QED  BY <1>2, <2>1, <3>1
    <2>. QED  BY <2>3
  <1>3. Old(p, i) \/ Sent(p, i)
    BY UnfetchedMoves
  <1>4. Old(q, j) \/ Sent(q, j)
    BY UnfetchedMoves
  <1>5. CASE Old(p, i) /\ Old(q, j)
    <2>1. \A p1, q1 \in Partitions : \A i1 \in DOMAIN log[p1], j1 \in DOMAIN log[q1] :
             i1 > position[p1] /\ j1 > position[q1] /\ log[p1][i1] = log[q1][j1]
                => p1 = q1 /\ i1 = j1
      BY DEF RetriedMessages
    <2>2. log[p][i] = log[q][j]
      BY <1>5
    <2>. QED  BY <1>5, <2>1, <2>2
  <1>. QED  BY <1>1, <1>2, <1>3, <1>4, <1>5

LEMMA RetriedMessagesStep ==
    ASSUME RetriedOnly, RetriedKnown, [Next]_vars, RetriesApart'
    PROVE  RetriedMessages'
  <1>. USE DEF RetriedKnown, RetriedInv
  <1>1. ASSUME NEW c \in Clients
        PROVE  request'[c].at \in {"idle", "retrySave", "seed", "dispatch"}
    BY RetriedRequestMoves DEF RetriedMessages, NoRequest
  \* sends
  <1>2. ASSUME NEW t \in Tasks
        PROVE  /\ outbox'[t] <= 1
               /\ outbox'[t] > 0 => dbStatus'[t] = "pending" /\ ~Underway(t)'
    <2>1. outbox[t] \in Nat /\ outbox'[t] \in Nat /\ outbox[t] <= 1
      <3>1. TypeOK'
        BY TypeStep
      <3>. QED  BY <3>1 DEF TypeOK, MasterTypeOK, RetriedMessages
    <2>2. CASE \E c \in Clients : Dispatch(c) /\ request[c].task = t
      <3>1. dbStatus[t] = "pending" /\ outbox[t] = 0 /\ ~Underway(t)
        BY <2>2 DEF Dispatch, RetriedMessages
      <3>2. dbStatus'[t] = "pending"
        BY <3>1, RetriedPendingStays DEF Underway
      <3>. QED  BY <2>1, <3>1, <3>2, OutboxMoves, UnderwayMoves
    <2>3. CASE outbox'[t] <= outbox[t]
      <3>. SUFFICES ASSUME outbox'[t] > 0
                    PROVE  dbStatus'[t] = "pending" /\ ~Underway(t)'
        BY <2>1, <2>3
      <3>1. outbox[t] = 1 /\ outbox'[t] = 1
        BY <2>1, <2>3
      <3>2. dbStatus[t] = "pending" /\ ~Underway(t)
        BY <3>1 DEF RetriedMessages
      <3>3. dbStatus'[t] = "pending"
        BY <3>2, RetriedPendingStays DEF Underway
      <3>4. \A p \in Partitions : ~SendConfirmed(t, p)
        BY <3>1, OutboxMoves
      <3>. QED  BY <3>2, <3>3, <3>4, UnderwayMoves
    <2>. QED  BY <2>2, <2>3, OutboxMoves
  \* messages
  <1>3. ASSUME NEW t \in Tasks, Unfetched(t)'
        PROVE  dbStatus'[t] = "pending" /\ ~Works(t, Live)'
    <2>0. PICK p \in Partitions : \E i \in DOMAIN log'[p] : i > position'[p] /\ log'[p][i] = t
      BY <1>3 DEF Unfetched
    <2>1. PICK i \in DOMAIN log'[p] : i > position'[p] /\ log'[p][i] = t
      BY <2>0
    <2>2. \/ i \in DOMAIN log[p] /\ log[p][i] = t /\ i > position[p]
          \/ SendConfirmed(t, p) /\ outbox[t] > 0
      BY <2>1, UnfetchedMoves, OutboxMoves
    <2>3. dbStatus[t] = "pending" /\ ~Works(t, Live)
      BY <2>2 DEF RetriedMessages, Underway, Unfetched
    <2>4. dbStatus'[t] = "pending"
      BY <2>3, RetriedPendingStays
    <2>5. ASSUME NEW w \in Workers, NEW q \in Partitions, Consume(w, q), NextTask(q) = t
          PROVE  FALSE
      <3>1. /\ position[q] + 1 \in DOMAIN log[q] /\ position[q] + 1 > position[q]
            /\ log[q][position[q] + 1] = t /\ Unfetched(t)
            /\ position'[q] = position[q] + 1
        BY <2>5, ConsumeMoves
      <3>2. i \in DOMAIN log[p] /\ log[p][i] = t /\ i > position[p]
        BY <2>2, <3>1 DEF RetriedMessages, Underway
      <3>3. \A p1, q1 \in Partitions : \A i1 \in DOMAIN log[p1], j1 \in DOMAIN log[q1] :
               i1 > position[p1] /\ j1 > position[q1] /\ log[p1][i1] = log[q1][j1]
                  => p1 = q1 /\ i1 = j1
        BY DEF RetriedMessages
      <3>4. p = q /\ i = position[q] + 1
        BY <3>1, <3>2, <3>3
      <3>. QED  BY <2>1, <3>1, <3>4, TypeStep DEF TypeOK, KafkaTypeOK
    <2>6. ASSUME NEW s \in Slots, attempt'[s].task = t, attempt'[s].at \in Live
          PROVE  FALSE
      BY <2>3, <2>5, <2>6, LiveMoves DEF Works
    <2>. QED  BY <2>4, <2>6 DEF Works
  <1>. QED
    BY <1>1, <1>2, <1>3, UnfetchedStayApart, RetriedRequestStep DEF RetriedMessages

LEMMA RetriedAttemptsStep ==
    ASSUME RetriedOnly, RetriedKnown, [Next]_vars
    PROVE  RetriedAttempts'
  <1>. USE DEF RetriedKnown, RetriedInv
  <1>1. /\ attempt \in [Slots -> Attempt]
        /\ dbStatus \in [Tasks -> Status] /\ dbWorker \in [Tasks -> Workers \cup {None}]
        /\ dbStatus' \in [Tasks -> Status]
        /\ BeforeRow \cap RunningStages = {} /\ Live = BeforeRow \cup RunningStages
    <2>1. TypeOK'
      BY TypeStep
    <2>. QED  BY <2>1 DEF TypeOK, WorkerTypeOK, StoresTypeOK, Live, BeforeRow, RunningStages
  <1>2. \A t \in Tasks, r, s \in Slots :
           attempt[r].at \in Live /\ attempt[s].at \in Live /\ attempt[r].task = t
              /\ attempt[s].task = t => r = s
    BY DEF RetriedAttempts
  <1>3. ASSUME NEW s \in Slots, attempt[s].at \in Live
        PROVE  /\ attempt[s].task \in Tasks
               /\ \A r \in Slots : SaveRunning(r) \/ SaveOutcome(r) => attempt[r].at \in Live
    <2>2. attempt[s].task \in Tasks
      BY <1>3 DEF RetriedAttempts
    <2>3. \A r \in Slots : SaveRunning(r) \/ SaveOutcome(r) => attempt[r].at \in Live
      BY DEF SaveRunning, SaveOutcome, At, Live, BeforeRow, RunningStages
    <2>. QED  BY <2>2, <2>3
  \* A coroutine that goes on.
  <1>4. ASSUME NEW s \in Slots, attempt[s].at \in Live,
               attempt'[s].task = attempt[s].task,
               attempt'[s].worker = attempt[s].worker,
               attempt'[s].at \in BeforeRow => attempt[s].at \in BeforeRow,
               attempt[s].at \in BeforeRow /\ attempt'[s].at \notin BeforeRow => SaveRunning(s),
               SaveRunning(s) => attempt'[s].at \notin BeforeRow,
               ~SaveOutcome(s)
        PROVE  /\ attempt'[s].at \in BeforeRow => dbStatus'[attempt'[s].task] = "pending"
               /\ attempt'[s].at \in RunningStages =>
                     /\ dbStatus'[attempt'[s].task] = "running"
                     /\ dbWorker'[attempt'[s].task] = attempt'[s].worker
    <2>. DEFINE t == attempt[s].task
    <2>1. t \in Tasks
      BY <1>3, <1>4
    <2>2. \A r \in Slots : SaveRunning(r) \/ SaveOutcome(r) => (attempt[r].task = t <=> r = s)
      BY <1>2, <1>3, <1>4
    <2>3. CASE attempt'[s].at \in BeforeRow
      <3>1. dbStatus[t] = "pending"
        BY <1>4, <2>3 DEF RetriedAttempts
      <3>2. dbStatus'[t] = "pending"
        BY <1>4, <2>1, <2>2, <2>3, <3>1, RetriedRow DEF Retryable
      <3>. QED  BY <1>1, <1>4, <2>3, <3>2
    <2>4. CASE SaveRunning(s)
      BY <1>1, <1>4, <2>1, <2>4 DEF SaveRunning, WorkerWritesRow
    <2>5. CASE attempt[s].at \in RunningStages
      <3>1. dbStatus[t] = "running" /\ dbWorker[t] = attempt[s].worker
        BY <2>5 DEF RetriedAttempts
      <3>2. dbStatus'[t] = "running"
        BY <1>4, <2>1, <2>2, <3>1, RetriedRow DEF Retryable
      <3>3. ~SaveRunning(s)
        BY <2>5 DEF SaveRunning, At, RunningStages
      <3>4. dbWorker'[t] = dbWorker[t]
        BY <2>1, <2>2, <3>2, <3>3, RowStep DEF RowMoves
      <3>. QED  BY <1>1, <1>4, <2>5, <3>1, <3>2, <3>4
    <2>. QED  BY <1>1, <1>4, <2>3, <2>4, <2>5
  \* A coroutine that starts.
  <1>5. ASSUME NEW w \in Workers, NEW p \in Partitions, Consume(w, p)
        PROVE  /\ NextTask(p) \in Tasks
               /\ dbStatus'[NextTask(p)] = "pending"
               /\ ~Works(NextTask(p), Live)
    BY <1>5, ConsumeMoves DEF RetriedMessages, storeVars, dbVars
  <1>6. ASSUME NEW s \in Slots
        PROVE  /\ attempt'[s].at \in Live => attempt'[s].task \in Tasks
               /\ attempt'[s].at \in BeforeRow => dbStatus'[attempt'[s].task] = "pending"
               /\ attempt'[s].at \in RunningStages =>
                     /\ dbStatus'[attempt'[s].task] = "running"
                     /\ dbWorker'[attempt'[s].task] = attempt'[s].worker
    <2>. SUFFICES ASSUME attempt'[s].at \in Live
                  PROVE  /\ attempt'[s].task \in Tasks
                         /\ attempt'[s].at \in BeforeRow => dbStatus'[attempt'[s].task] = "pending"
                         /\ attempt'[s].at \in RunningStages =>
                               /\ dbStatus'[attempt'[s].task] = "running"
                               /\ dbWorker'[attempt'[s].task] = attempt'[s].worker
      BY <1>1
    <2>1. CASE \E w \in Workers, p \in Partitions :
                  Consume(w, p) /\ attempt'[s].at = "queued" /\ attempt'[s].task = NextTask(p)
      BY <1>1, <1>5, <2>1 DEF BeforeRow
    <2>. QED  BY <1>3, <1>4, <2>1, LiveMoves
  <1>7. ASSUME NEW r \in Slots, NEW s \in Slots, attempt'[r].at \in Live, attempt'[s].at \in Live,
               attempt'[r].task = attempt'[s].task, r # s
        PROVE  FALSE
    <2>1. ASSUME NEW a \in Slots, NEW b \in Slots, a # b, attempt'[b].at \in Live,
                 attempt'[a].task = attempt'[b].task,
                 NEW w \in Workers, NEW p \in Partitions, Consume(w, p),
                 attempt'[a].task = NextTask(p),
                 \A e \in Slots \ {a} : attempt'[e] = attempt[e]
          PROVE  FALSE
      BY <1>5, <2>1 DEF Works
    <2>2. attempt[r].at \in Live /\ attempt'[r].task = attempt[r].task
      BY <1>7, <2>1, LiveMoves
    <2>3. attempt[s].at \in Live /\ attempt'[s].task = attempt[s].task
      BY <1>7, <2>1, LiveMoves
    <2>. QED  BY <1>7, <2>2, <2>3 DEF RetriedAttempts
  <1>. QED  BY <1>6, <1>7 DEF RetriedAttempts

\* A step is a step of the durable status with retries, or leaves the rows.
LEMMA RetriedDurableStep ==
    ASSUME RetriedOnly, RetriedKnown, [Next]_vars
    PROVE  [Durable!Next]_dbStatus
  <1>. USE DEF Durable!Next, Durable!Submit, Durable!Start, Durable!End, Durable!Retry,
               Durable!Moves, Durable!Outcome
  <1>1. dbStatus \in [Tasks -> Status] /\ dbStatus' \in [Tasks -> Status]
    <2>1. TypeOK'
      BY TypeStep DEF RetriedKnown
    <2>. QED  BY <2>1 DEF RetriedKnown, TypeOK, StoresTypeOK
  <1>2. SUFFICES ASSUME NEW t \in Tasks, dbStatus'[t] # dbStatus[t]
                 PROVE  Durable!Next
    <2>1. (\A t \in Tasks : dbStatus'[t] = dbStatus[t]) => dbStatus' = dbStatus
      BY <1>1
    <2>. QED  BY <2>1
  <1>3. ASSUME NEW x, dbStatus' = [dbStatus EXCEPT ![t] = x]
        PROVE  dbStatus'[t] = x
    BY <1>1, <1>3
  <1>4. CASE \E c \in Clients : Submit(c, t)
    BY <1>4 DEF Submit, InsertRow
  <1>5. ASSUME NEW c \in Clients, RetrySave(c), request[c].task = t, dbStatus[t] \in Retryable
        PROVE  Durable!Next
    <2>1. "retry" \in Operations
      BY DEF RetriedOnly
    <2>. QED  BY <1>5, <2>1 DEF RetrySave, ReopenRow
  <1>6. ASSUME NEW s \in Slots, SaveRunning(s), attempt[s].task = t, dbStatus[t] = "pending"
        PROVE  Durable!Next
    BY <1>6 DEF SaveRunning, WorkerWritesRow
  <1>7. ASSUME NEW s \in Slots, SaveOutcome(s), attempt[s].task = t, dbStatus[t] = "running",
               dbStatus'[t] \in {"success", "failed", "timeout"}
        PROVE  Durable!Next
    <2>1. dbStatus' = [dbStatus EXCEPT ![t] = dbStatus'[t]]
      BY <1>3, <1>7 DEF SaveOutcome, WorkerWritesRow
    <2>. QED  BY <1>7, <2>1
  <1>. QED  BY <1>2, <1>4, <1>5, <1>6, <1>7, RetriedRow

\* What the two theorems below rest on.
LEMMA RetriedInvariant ==
    ASSUME RetriedOnly
    PROVE  Spec /\ []RetriesApart => []RetriedKnown
  <1>. DEFINE Known == TypeOK /\ MessageHasRow /\ RunnerInv
  <1>1. Init => RetriedInv
    <2>. SUFFICES ASSUME Init
                  PROVE  RetriedInv
      OBVIOUS
    <2>1. \A t \in Tasks : ~Works(t, Live)
      BY DEF Init, WorkerInit, NoAttempt, Works, Live, BeforeRow, RunningStages
    <2>2. \A t \in Tasks : ~Unfetched(t)
      BY DEF Init, KafkaInit, Unfetched
    <2>3. RetriedProcesses
      BY DEF Init, WorkerInit, KafkaInit, NoAttempt, NoSweep, RetriedProcesses
    <2>4. RetriedMessages
      BY <2>1, <2>2, StoresAssumption
         DEF Init, MasterInit, KafkaInit, NoRequest, RetriedMessages, Underway
    <2>5. RetriedAttempts
      BY DEF Init, WorkerInit, NoAttempt, RetriedAttempts, Live, BeforeRow, RunningStages
    <2>. QED  BY <2>3, <2>4, <2>5 DEF RetriedInv
  <1>2. Known /\ RetriedInv /\ [Next]_vars /\ RetriesApart' => RetriedInv'
    BY RetriedProcessesStep, RetriedMessagesStep, RetriedAttemptsStep
       DEF RetriedInv, RetriedKnown
  <1>3. Spec => []Known
    <2>1. StoresAnswer
      BY DEF RetriedOnly, StoresAnswer
    <2>. QED  BY <2>1, TypeCorrect, CarriedTasksHaveRows, RunnerInvariant, PTL
  <1>4. RetriedKnown <=> Known /\ RetriedInv
    BY DEF RetriedKnown
  <1>. HIDE DEF Known
  <1>. QED  BY <1>1, <1>2, <1>3, <1>4, PTL DEF Spec

\* A task that is retried, also while its first run's sends and handlers fail,
\* is never executed by two coroutines at once, if no two retries of it overlap.
THEOREM RetriedTasksRunOnceAtATime ==
    ASSUME RetriedOnly
    PROVE  Spec /\ []RetriesApart => []OneRunner
  <1>1. RetriedKnown => OneRunner
    BY DEF RetriedKnown, RetriedInv, RetriedAttempts, Live, OneRunner
  <1>. QED  BY <1>1, RetriedInvariant, PTL

\* With retries that do not overlap the rows still follow the durable status: a
\* retry takes a row back from an end only, and each such reopening is run at
\* most once before the row ends again.
THEOREM RetriedStatusImplemented ==
    ASSUME RetriedOnly
    PROVE  Spec /\ []RetriesApart => RefinesDurableStatus
  <1>1. RetriedKnown /\ [Next]_vars => [Durable!Next]_dbStatus
    BY RetriedDurableStep
  <1>2. Init => Durable!Init
    BY DEF Init, StoresInit, Durable!Init
  <1>. QED
    BY <1>1, <1>2, RetriedInvariant, PTL DEF Spec, RefinesDurableStatus, Durable!Spec
=============================================================================
