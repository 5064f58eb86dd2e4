---------------------------- MODULE TaskReports ----------------------------
(***************************************************************************)
(* How the outcome of one execution leaves the worker, and who reads it:   *)
(* execute_task runs the workflow, posts the callback in batches, writes   *)
(* hash and row and detaches its log sink; meanwhile the master streams    *)
(* the hash as Server-Sent Events and the log file as a console.  The      *)
(* deadline of wait_for may cut the worker between any two of its steps, a *)
(* write of the hash may raise into the handlers of execute_task and of    *)
(* its caller, which record failed, and a write of the row may be lost.    *)
(*                                                                         *)
(* The workflow has run before (retry_task keeps the old result in the     *)
(* hash) or not.  Its steps are numbered; of a log line the model keeps    *)
(* whether it holds a text the console takes for the end.                  *)
(***************************************************************************)
EXTENDS Naturals, Sequences, SequencesExt, FiniteSetsExt

CONSTANTS
    MaxSteps,     \* Bound: steps of a report
    StepsPerPost, \* Bound: batch_size, 50 in the code
    LargeSteps,   \* Bound: the steps above which a success skips the hash, 50
    Posts,        \* Bound: retry_count, 3 in the code
    Strangers,    \* Bound: lines of other workflows of the same worker
    Troubles      \* what the environment may do: a behaviour has one of these sets

ASSUME ReportsAssumption ==
    /\ MaxSteps \in Nat
    /\ StepsPerPost \in Nat \ {0}
    /\ LargeSteps \in Nat
    /\ Posts \in Nat \ {0}
    /\ Strangers \in Nat
    /\ Troubles \subseteq SUBSET {"lost", "unseen", "raise", "deadline", "redis", "row"}

VARIABLES
    troubles,   \* what the environment may do
    batched,    \* enable_batch
    worker,     \* execute_task
    server,     \* what the receiver of the callback has been told
    hash,       \* status and result of task:<id>
    row,        \* status of the row
    logFile,       \* the task's console log
    strangers,  \* lines other workflows may still write into it
    sse,        \* event_stream
    console     \* log_stream

reportVars == <<troubles, batched, worker, server, hash, row, logFile, strangers, sse, console>>

Quiet == "line"
Marker == "marker"

\* A request is of one of the two readers, and neither changes what another
\* one sees: a behaviour has one.

\* batch, posts: the batch being posted and how often; acked: all batches so far
\* were acknowledged; answer: what send_workflow_result_callback returned.
\* code: who writes, execute_task, its handler of exceptions, the branch of the
\* deadline, or the handler around it; record: the status it writes.
\* raised: a write of the hash raised into a handler; unwritten: the last write
\* of the row was lost.
WorkerStart ==
    [at |-> "begin", outcome |-> "none", steps |-> 0, batch |-> 1, posts |-> 0,
     acked |-> TRUE, answer |-> "none", sink |-> FALSE,
     code |-> "task", record |-> "none", raised |-> FALSE, unwritten |-> FALSE]

\* What an earlier execution left in the hash.
StoredBefore == [status : {"pending"}, result : {"none", "old"}]

ReportsInit ==
    /\ troubles \in Troubles
    /\ batched \in BOOLEAN
    /\ worker = WorkerStart
    /\ server = [steps |-> {}, totals |-> FALSE, status |-> {}]
    /\ hash \in StoredBefore
    /\ row = "pending"
    /\ logFile = << >>
    /\ strangers = Strangers
    /\ \E reader \in {"sse", "console"} :
        /\ sse = [at |-> IF reader = "sse" THEN "poll" ELSE "closed",
                  seen |-> "none", last |-> "none", nodes |-> {},
                  end |-> "none", result |-> "none"]
        /\ console = [at |-> IF reader = "console" THEN "wait" ELSE "closed",
                      pos |-> 0, size |-> 0, shown |-> << >>]

readers == <<sse, console>>

Log(line) == logFile' = IF worker.sink THEN Append(logFile, line) ELSE logFile

-----------------------------------------------------------------------------
(* execute_task *)

\* The row is written, or update_task_status_in_db swallows the error.
Written(status) ==
    \/ row' = status /\ worker'.unwritten = FALSE
    \/ "row" \in troubles /\ row' = row /\ worker'.unwritten = TRUE

\* The sink is added, then running goes to the hash and to the row.
BeginTask ==
    /\ worker.at = "begin"
    /\ \E unwritten \in BOOLEAN :
          worker' = [worker EXCEPT !.at = "execute", !.sink = TRUE, !.unwritten = unwritten]
    /\ hash' = [hash EXCEPT !.status = "running"]
    /\ Written("running")
    /\ logFile' = Append(logFile, Quiet)
    /\ UNCHANGED <<batched, server, strangers, readers>>

\* execute_task's handler removes the sink, then it writes failed; the one
\* around it writes failed too.
RaisedInto(code) ==
    worker' = [worker EXCEPT !.at = "hash", !.code = code, !.record = "failed",
                             !.raised = TRUE, !.sink = @ /\ code # "except"]

\* A write of the hash raises before anything is executed.
BeginRaises ==
    /\ "redis" \in troubles
    /\ worker.at = "begin"
    /\ RaisedInto("except")
    /\ hash' \in {hash, [hash EXCEPT !.status = "running"]}
    /\ logFile' = Append(logFile, Quiet)
    /\ UNCHANGED <<batched, server, row, strangers, readers>>

\* The executor logs the end of the workflow and returns its report.
Execute(outcome, n) ==
    /\ worker.at = "execute"
    /\ worker' = [worker EXCEPT !.at = "post", !.outcome = outcome, !.record = outcome,
                                !.steps = n]
    /\ Log(Marker)
    /\ UNCHANGED <<batched, server, hash, row, strangers, readers>>

\* It raises: a callback without steps, and a failed outcome.
ExecuteRaises ==
    /\ "raise" \in troubles
    /\ worker.at = "execute"
    /\ worker' = [worker EXCEPT !.at = "post", !.outcome = "failed", !.record = "failed"]
    /\ Log(Quiet)
    /\ UNCHANGED <<batched, server, hash, row, strangers, readers>>

-----------------------------------------------------------------------------
(* send_workflow_result_callback *)

TotalBatches ==
    IF batched /\ worker.steps > 0
    THEN (worker.steps + StepsPerPost - 1) \div StepsPerPost ELSE 1

StepsOfBatch(b) ==
    IF ~batched THEN 1 .. worker.steps
    ELSE ((b - 1) * StepsPerPost + 1) .. Min({b * StepsPerPost, worker.steps})

\* A plausible slip: the last batch decides.
LastBatchDecides(acked) ==
    worker' = IF worker.batch = TotalBatches
              THEN [worker EXCEPT !.at = "progress", !.acked = acked,
                                  !.answer = IF acked THEN "success" ELSE "failure"]
              ELSE [worker EXCEPT !.batch = @ + 1, !.posts = 0, !.acked = TRUE]

\* Behind the last batch the callback answers.
NextBatchOfPosts(acked) ==
    worker' = IF worker.batch = TotalBatches
              THEN [worker EXCEPT !.at = "progress", !.acked = acked,
                                  !.answer = IF acked THEN "success" ELSE "failure"]
              ELSE [worker EXCEPT !.batch = @ + 1, !.posts = 0, !.acked = acked]

\* The receiver stores a batch; only the first one carries the totals.
Handled ==
    server' = [steps |-> server.steps \cup StepsOfBatch(worker.batch),
               totals |-> server.totals \/ worker.batch = 1,
               status |-> server.status \cup {worker.outcome}]

PostAcknowledged ==
    /\ worker.at = "post"
    /\ Handled
    /\ NextBatchOfPosts(worker.acked)
    /\ UNCHANGED <<batched, hash, row, logFile, strangers, readers>>

\* Another status, an error or a timeout: of the request or of its answer.
\* After the last attempt the loop goes on with the next batch.
PostFails ==
    /\ worker.at = "post"
    /\ \/ "unseen" \in troubles /\ Handled
       \/ "lost" \in troubles /\ UNCHANGED server
    /\ IF worker.posts + 1 < Posts
       THEN worker' = [worker EXCEPT !.posts = @ + 1]
       ELSE NextBatchOfPosts(FALSE)
    /\ UNCHANGED <<batched, hash, row, logFile, strangers, readers>>

-----------------------------------------------------------------------------
(* The outcome is recorded: progress, status, result, row; then the sink is *)
(* removed and the caller counts the task out.                              *)

\* Of a large workflow that succeeds nothing is written to the hash.
Large == worker.outcome = "success" /\ worker.steps > LargeSteps

RecordProgress ==
    /\ worker.at = "progress"
    /\ worker' = [worker EXCEPT !.at = "hash"]
    /\ UNCHANGED <<batched, server, hash, row, logFile, strangers, readers>>

RecordsSuccess == worker.code = "task" /\ worker.record = "success"

\* The status of a success is written in a try of its own: an error is
\* swallowed.
RecordStatus ==
    /\ worker.at = "hash"
    /\ \/ hash' = IF RecordsSuccess /\ Large THEN hash ELSE [hash EXCEPT !.status = worker.record]
       \/ "redis" \in troubles /\ RecordsSuccess /\ UNCHANGED hash
    /\ worker' = [worker EXCEPT !.at = IF RecordsSuccess /\ ~Large THEN "result" ELSE "row"]
    /\ UNCHANGED <<batched, server, row, logFile, strangers, readers>>

\* So is the result.
RecordResult ==
    /\ worker.at = "result"
    /\ \/ hash' = [hash EXCEPT !.result = "new"]
       \/ "redis" \in troubles /\ UNCHANGED hash
    /\ worker' = [worker EXCEPT !.at = "row"]
    /\ UNCHANGED <<batched, server, row, logFile, strangers, readers>>

\* execute_task goes on to the sink; its handler and the branch of the deadline
\* return to the caller; that one's handler ends.
BehindRow == IF worker.code = "task" THEN "unsink"
             ELSE IF worker.code = "handler" THEN "over" ELSE "counters"

\* A plausible slip: a callback that failed fails the row.
RecordRowAnswered ==
    /\ worker.at = "row"
    /\ \E unwritten \in BOOLEAN :
          worker' = [worker EXCEPT !.at = BehindRow, !.unwritten = unwritten]
    /\ Written(IF worker.answer = "failure" THEN "failed" ELSE worker.record)
    /\ Log(Quiet)
    /\ UNCHANGED <<batched, server, hash, strangers, readers>>

RecordRow ==
    /\ worker.at = "row"
    /\ \E unwritten \in BOOLEAN :
          worker' = [worker EXCEPT !.at = BehindRow, !.unwritten = unwritten]
    /\ Written(worker.record)
    /\ Log(Quiet)
    /\ UNCHANGED <<batched, server, hash, strangers, readers>>

\* What is logged from here on, the end of the task included, is not written
\* to the file any more.
RemoveSink ==
    /\ worker.at = "unsink"
    /\ worker' = [worker EXCEPT !.at = "counters", !.sink = FALSE]
    /\ UNCHANGED <<batched, server, hash, row, logFile, strangers, readers>>

\* The caller writes the worker's counters, a hash as well.
CountOut ==
    /\ worker.at = "counters"
    /\ worker' = [worker EXCEPT !.at = "over"]
    /\ UNCHANGED <<batched, server, hash, row, logFile, strangers, readers>>

\* wait_for cancels execute_task, whose handler is not reached by a
\* CancelledError: the sink stays.
Deadline ==
    /\ "deadline" \in troubles
    /\ worker.code \in {"task", "except"}
    /\ worker.at \in {"execute", "post", "progress", "hash", "result", "row", "unsink"}
    /\ worker' = [worker EXCEPT !.at = "hash", !.code = "cut", !.record = "timeout"]
    /\ Log(Quiet)
    /\ UNCHANGED <<batched, server, hash, row, strangers, readers>>

\* Redis raises behind the callback: at the progress, at a status other than
\* that of a success, before or behind the write of the status itself, or at
\* the counters.  Only what execute_task does itself reaches its handler.
HashRaises ==
    /\ "redis" \in troubles
    /\ worker.code # "handler"
    /\ \/ worker.at \in {"progress", "counters"} /\ UNCHANGED hash
       \/ worker.at = "hash" /\ ~RecordsSuccess /\ hash' \in {hash, [hash EXCEPT !.status = worker.record]}
    /\ RaisedInto(IF worker.code = "task" /\ worker.at # "counters" THEN "except" ELSE "handler")
    /\ Log(Quiet)
    /\ UNCHANGED <<batched, server, row, strangers, readers>>

\* It raises again in the caller's handler: the row is not written.
HandlerGivesUp ==
    /\ "redis" \in troubles
    /\ worker.code = "handler" /\ worker.at = "hash"
    /\ hash' \in {hash, [hash EXCEPT !.status = "failed"]}
    /\ worker' = [worker EXCEPT !.at = "over", !.unwritten = TRUE]
    /\ Log(Quiet)
    /\ UNCHANGED <<batched, server, row, strangers, readers>>

\* The sink has no filter: it takes the lines of every workflow of the
\* worker process, the last one of each included.
StrangerLogs(line) ==
    /\ strangers > 0
    /\ worker.sink
    /\ strangers' = strangers - 1
    /\ logFile' = Append(logFile, line)
    /\ UNCHANGED <<batched, worker, server, hash, row, readers>>

-----------------------------------------------------------------------------
(* event_stream of stream_workflow_status *)

SseStatus ==
    /\ sse.at = "poll"
    /\ sse' = [sse EXCEPT !.at = "result", !.seen = hash.status]
    /\ UNCHANGED <<batched, worker, server, hash, row, logFile, strangers, console>>

\* The result is a second read.  A final status ends the stream before the
\* nodes are pushed; another one pushes the nodes of the result there is.
SseResult ==
    /\ sse.at = "result"
    /\ IF sse.seen # sse.last /\ sse.seen \in {"success", "failed", "timeout"}
       THEN sse' = [sse EXCEPT !.at = "closed", !.end = sse.seen, !.result = hash.result]
       ELSE sse' = [sse EXCEPT !.at = "poll", !.last = sse.seen,
                               !.nodes = @ \cup ({hash.result} \ {"none"})]
    /\ UNCHANGED <<batched, worker, server, hash, row, logFile, strangers, console>>

\* An hour has passed.
SseGivesUp ==
    /\ sse.at = "poll"
    /\ sse' = [sse EXCEPT !.at = "closed"]
    /\ UNCHANGED <<batched, worker, server, hash, row, logFile, strangers, console>>

-----------------------------------------------------------------------------
(* log_stream of get_workflow_console_log *)

\* Five minutes are waited for a file with something in it.
ConsoleFindsFile ==
    /\ console.at = "wait"
    /\ logFile # << >>
    /\ console' = [console EXCEPT !.at = "size"]
    /\ UNCHANGED <<batched, worker, server, hash, row, logFile, strangers, sse>>

ConsoleGivesUp ==
    /\ console.at = "wait"
    /\ logFile = << >>
    /\ console' = [console EXCEPT !.at = "closed"]
    /\ UNCHANGED <<batched, worker, server, hash, row, logFile, strangers, sse>>

ConsoleMeasures ==
    /\ console.at = "size"
    /\ Len(logFile) > console.pos
    /\ console' = [console EXCEPT !.at = "read", !.size = Len(logFile)]
    /\ UNCHANGED <<batched, worker, server, hash, row, logFile, strangers, sse>>

LinesFrom(pos) == [i \in 1 .. (Len(logFile) - pos) |-> pos + i]

\* A plausible slip: what was written since the size was taken is passed over.
ConsoleReadsMeasured ==
    /\ console.at = "read"
    /\ console' = [console EXCEPT
                      !.shown = @ \o [i \in 1 .. (console.size - console.pos) |-> console.pos + i],
                      !.pos = Len(logFile), !.at = "size"]
    /\ UNCHANGED <<batched, worker, server, hash, row, logFile, strangers, sse>>

\* What is read goes to the end of the file; the position is the size that
\* was measured before.
ConsoleReads ==
    /\ console.at = "read"
    /\ LET shown == console.shown \o LinesFrom(console.pos)
           ended == \E i \in Range(shown) : logFile[i] = Marker
       IN console' = [console EXCEPT !.shown = shown, !.pos = console.size,
                                     !.at = IF ended THEN "last" ELSE "size"]
    /\ UNCHANGED <<batched, worker, server, hash, row, logFile, strangers, sse>>

\* A second later, what there is now.
ConsoleReadsLast ==
    /\ console.at = "last"
    /\ console' = [console EXCEPT !.shown = @ \o LinesFrom(console.pos), !.at = "closed"]
    /\ UNCHANGED <<batched, worker, server, hash, row, logFile, strangers, sse>>

-----------------------------------------------------------------------------
WorkerStep ==
    \/ BeginTask \/ BeginRaises \/ PostAcknowledged \/ PostFails \/ ExecuteRaises
    \/ \E outcome \in {"success", "failed"}, n \in 0 .. MaxSteps : Execute(outcome, n)
    \/ RecordProgress \/ RecordStatus \/ RecordResult \/ RecordRow
    \/ RemoveSink \/ CountOut \/ HashRaises \/ HandlerGivesUp
SseStep == SseStatus \/ SseResult
ConsoleStep == ConsoleFindsFile \/ ConsoleMeasures \/ ConsoleReads \/ ConsoleReadsLast

ReportsNext ==
    /\ UNCHANGED troubles
    /\ \/ WorkerStep \/ Deadline
       \/ \E line \in {Quiet, Marker} : StrangerLogs(line)
       \/ SseStep \/ SseGivesUp
       \/ ConsoleStep \/ ConsoleGivesUp

ReportsSpec == ReportsInit /\ [][ReportsNext]_reportVars

-----------------------------------------------------------------------------
(* Properties *)

\* When the callback answers that it succeeded, the receiver has every step
\* of the report and the totals, however many posts were lost or repeated
\* (_send_batch_callback, all_success).
AcknowledgedIsDelivered ==
    worker.answer = "success" =>
        /\ server.steps = 1 .. worker.steps
        /\ server.totals

\* What the console has shown is a beginning of the file: it may repeat
\* lines, it never leaves one out (log_stream, last_position).
ConsoleHasNoGap ==
    \A i \in Range(console.shown) : \A j \in 1 .. i : j \in Range(console.shown)

\* When a worker is through with a task, whatever outcome the event stream or
\* the callback has told of it is the row's.  Three things may make it another
\* one: the deadline cut the worker after it was told; a write of the hash
\* raised after it was told, and the row says failed unless its write was lost
\* too; or the write of the row was lost, and it says what it said at the
\* start (execute_task: callback, hash and row are written one after the
\* other; update_task_status_in_db swallows its error).
ToldIsRecorded ==
    worker.at = "over" =>
        \A s \in {"success", "failed"} :
            sse.end = s \/ s \in server.status =>
                \/ row \in {s, "timeout"}
                \/ worker.raised /\ (row = "failed" \/ worker.unwritten)
                \/ worker.unwritten /\ row \in {"pending", "running"}
=============================================================================
