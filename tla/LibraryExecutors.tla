-------------------------- MODULE LibraryExecutors --------------------------
(***************************************************************************)
(* The other executors of packages/engine/src/core: streaming_executor.py, *)
(* advanced_executor.py, checkpoint.py (the resumable one) and             *)
(* observability.py.  Each repeats the walk of the engine with a test of   *)
(* its own before a node, and some write a checkpoint file after each      *)
(* node.  A process runs one execution_id; it may die between two steps,   *)
(* and the same execution_id may be started again.                         *)
(***************************************************************************)
EXTENDS WorkflowGraph, Sequences

CONSTANTS
    Executors,   \* the executors of the instance
    MaxStarts    \* Bound: how often an execution is started

ASSUME ExecutorsAssumption ==
    Executors \subseteq {"streaming", "advanced_stream", "advanced_execute",
                         "resumable", "metrics"}

VARIABLES
    executor,    \* the class, and for the advanced one the method
    mode,        \* where the process is
    at,          \* the node the loop is at; N + 1 after the loop
    completed,   \* completed_nodes
    loaded,      \* the checkpoint this process has loaded
    file,        \* the checkpoint file of the execution_id
    ranNow,      \* the nodes this process has run
    starts,      \* the processes started so far
    startedOver  \* history: some process ran again what it had restored

execVars == <<executor, mode, at, completed, loaded, file, ranNow,
              starts, startedOver>>
libVars == <<wf, result, execVars>>

Checkpointing == {"advanced_stream", "resumable"}

\* next = 0 is next_node_id None.
Checkpoint(done, node, results) ==
    [kind |-> "saved", completed |-> done, next |-> node, results |-> results]
NoFile == [kind |-> "none"]
\* open(..., 'w') has truncated the file and json.dump has not finished.
TornFile == [kind |-> "torn"]

LibInit ==
    /\ wf \in Workflows
    /\ result = NoResults
    /\ executor \in Executors
    /\ mode = "down"
    /\ at = 1
    /\ completed = <<>>
    /\ loaded = NoFile
    /\ file = NoFile
    /\ ranNow = {}
    /\ starts = 0
    /\ startedOver = FALSE

-----------------------------------------------------------------------------
(***************************************************************************)
(* The tests before a node.  The streaming and the advanced executor look  *)
(* for an active path; a condition without a standard result counts as     *)
(* "false".  The resumable and the observability executor compare the      *)
(* response of a condition, a dictionary, with the source_handle: they are *)
(* never equal.                                                            *)
(***************************************************************************)
BranchValue(p) == IF result[p] \in Branches THEN result[p] ELSE "false"

ActiveEdge(p, n) ==
    IF wf[p, n] = "plain" THEN result[p] # NoResult ELSE BranchValue(p) = wf[p, n]

\* A plausible slip: one inactive edge is enough to skip.
ShouldSkipAny(n) == \E p \in Preds(wf, n) : ~ActiveEdge(p, n)

ShouldSkip(n) ==
    IF executor \in {"resumable", "metrics"}
    THEN \E p \in Preds(wf, n) : wf[p, n] \in Branches
    ELSE Preds(wf, n) # {} /\ \A p \in Preds(wf, n) : ~ActiveEdge(p, n)

-----------------------------------------------------------------------------
(***************************************************************************)
(* A process starts: the checkpoint is loaded, its results are put back    *)
(* into the new context and the loop begins at its next node; execute() of *)
(* the advanced executor restores the context and begins at the first      *)
(* node.  A caller of the advanced executor may use either method.         *)
(***************************************************************************)
Restart(how) ==
    /\ executor' = how
    /\ how = executor \/ {how, executor} = {"advanced_stream", "advanced_execute"}
    /\ starts < MaxStarts
    /\ starts' = starts + 1
    /\ ranNow' = {}
    /\ UNCHANGED <<wf, file>>

StartFresh ==
    /\ mode \in {"down", "failed"}
    /\ file = NoFile
    /\ \E how \in Executors : Restart(how)
    /\ mode' = "running"
    /\ at' = 1
    /\ completed' = <<>>
    /\ loaded' = NoFile
    /\ result' = NoResults
    /\ UNCHANGED startedOver

\* A plausible slip: what was restored runs again.
StartFromCheckpointFirst ==
    /\ mode \in {"down", "failed"}
    /\ file.kind = "saved"
    /\ \E how \in Executors : Restart(how)
    /\ mode' = "running"
    /\ at' = 1
    /\ completed' = file.completed
    /\ loaded' = file
    /\ result' = file.results
    /\ UNCHANGED startedOver

StartFromCheckpoint ==
    /\ mode \in {"down", "failed"}
    /\ file.kind = "saved"
    /\ \E how \in Executors : Restart(how)
    /\ mode' = "running"
    /\ at' = IF file.next = 0 \/ executor' = "advanced_execute" THEN 1 ELSE file.next
    /\ completed' = file.completed
    /\ loaded' = file
    /\ result' = file.results
    /\ startedOver' = (startedOver \/ (at' = 1 /\ file.next # 1))

\* json.load raises on a torn file: the process ends where it began.
StartFromTornFile ==
    /\ mode \in {"down", "failed"}
    /\ file = TornFile
    /\ \E how \in Executors : Restart(how)
    /\ mode' = "failed"
    /\ completed' = <<>>
    /\ loaded' = NoFile
    /\ result' = NoResults
    /\ UNCHANGED <<at, startedOver>>

SkipNode ==
    /\ mode = "running" /\ at <= N
    /\ ShouldSkip(at)
    /\ at' = at + 1
    /\ UNCHANGED <<wf, result, executor, mode, completed, loaded, file, ranNow,
                   starts, startedOver>>

\* The node has run; a checkpointing executor opens its file.
RunNode ==
    /\ mode = "running" /\ at <= N
    /\ ~ShouldSkip(at)
    /\ \E r \in ResultsOf(at) : result' = [result EXCEPT ![at] = r]
    /\ completed' = Append(completed, at)
    /\ ranNow' = ranNow \cup {at}
    /\ IF executor \in Checkpointing
       THEN mode' = "saving" /\ file' = TornFile /\ UNCHANGED at
       ELSE at' = at + 1 /\ UNCHANGED <<mode, file>>
    /\ UNCHANGED <<wf, executor, loaded, starts, startedOver>>

\* A plausible slip: the results are not written.
SaveCheckpointBare ==
    /\ mode = "saving"
    /\ file' = Checkpoint(completed, IF at = N THEN 0 ELSE at + 1, NoResults)
    /\ mode' = "running"
    /\ at' = at + 1
    /\ UNCHANGED <<wf, result, executor, completed, loaded, ranNow,
                   starts, startedOver>>

\* _save_checkpoint_after_node: the next node is the next of the order, None
\* behind the last.
SaveCheckpoint ==
    /\ mode = "saving"
    /\ file' = Checkpoint(completed, IF at = N THEN 0 ELSE at + 1, result)
    /\ mode' = "running"
    /\ at' = at + 1
    /\ UNCHANGED <<wf, result, executor, completed, loaded, ranNow,
                   starts, startedOver>>

\* What the except branch of a node does: the streaming and the advanced
\* stream executor leave the error output as its result, and a checkpointing
\* executor opens its file again.
NodeError ==
    /\ result' = IF executor \in {"streaming", "advanced_stream"}
                 THEN [result EXCEPT ![at] = "error"] ELSE result
    /\ IF executor \in Checkpointing
       THEN mode' = "saving_failure" /\ file' = TornFile
       ELSE mode' = "failed" /\ UNCHANGED file
    /\ UNCHANGED <<wf, executor, at, completed, loaded, ranNow, starts,
                   startedOver>>

NodeRaises ==
    /\ mode = "running" /\ at <= N
    /\ ~ShouldSkip(at)
    /\ NodeError

\* Writing the checkpoint is inside the try of the node: when json.dump
\* raises, the node that has just completed is treated as failed.
SaveRaises ==
    /\ mode = "saving"
    /\ NodeError

\* A plausible slip: the error is swallowed and the node tried again.
SaveOnFailureRetries ==
    /\ mode = "saving_failure"
    /\ file' = Checkpoint(completed, at, result)
    /\ mode' = "running"
    /\ UNCHANGED <<wf, result, executor, at, completed, loaded, ranNow,
                   starts, startedOver>>

\* _save_checkpoint_on_failure: the failed node is the next one.
SaveOnFailure ==
    /\ mode = "saving_failure"
    /\ \/ file' = Checkpoint(completed, at, result)
       \/ UNCHANGED file
    /\ mode' = "failed"
    /\ UNCHANGED <<wf, result, executor, at, completed, loaded, ranNow,
                   starts, startedOver>>

\* The checkpoint is deleted at the end; execute_with_checkpoint may be asked
\* to leave it (save_on_complete).
FinishRun ==
    /\ mode = "running" /\ at = N + 1
    /\ mode' = "finished"
    /\ \/ executor \in Checkpointing /\ file' = NoFile
       \/ executor # "advanced_stream" /\ UNCHANGED file
    /\ UNCHANGED <<wf, result, executor, at, completed, loaded, ranNow,
                   starts, startedOver>>

\* The process dies: its memory is gone, the file stays as it is.
Die ==
    /\ mode \in {"running", "saving", "saving_failure"}
    /\ starts < MaxStarts
    /\ mode' = "down"
    /\ UNCHANGED <<wf, result, executor, at, completed, loaded, file, ranNow,
                   starts, startedOver>>

LibStep ==
    \/ SkipNode \/ RunNode \/ SaveCheckpoint \/ NodeRaises \/ SaveRaises
    \/ SaveOnFailure \/ FinishRun

LibNext == StartFresh \/ StartFromCheckpoint \/ StartFromTornFile \/ LibStep \/ Die

LibSpec == LibInit /\ [][LibNext]_libVars

-----------------------------------------------------------------------------
InSeq(s) == {s[k] : k \in DOMAIN s}

\* This process went on at the node its checkpoint named, and so did every
\* process before it that loaded one.
WentOn == loaded.kind = "saved" /\ ~startedOver

(***************************************************************************)
(* "Completed nodes need not run again" (checkpoint.py): after any number  *)
(* of deaths and failures, a process that goes on at a checkpoint's next   *)
(* node runs no node of its completed list but that one (it is completed   *)
(* and next when the write of its own checkpoint had failed).              *)
(***************************************************************************)
ResumeRunsNoCompletedNode ==
    WentOn => ranNow \cap InSeq(loaded.completed) \subseteq {loaded.next}

(***************************************************************************)
(* What is restored is what had run: as long as no process started over,   *)
(* the completed nodes of a checkpoint lie before its next node or are it, *)
(* and have a result in it, so that the successors the resumed process     *)
(* reaches find their inputs.                                              *)
(***************************************************************************)
CheckpointIsConsistent ==
    (file.kind = "saved" /\ ~startedOver) =>
        \A n \in InSeq(file.completed) :
            /\ file.results[n] # NoResult
            /\ file.next # 0 => n <= file.next

(***************************************************************************)
(* Crash, restart and branches together: when the streaming or advanced    *)
(* executor finishes, as one process or by going on at checkpoints, the    *)
(* nodes with a result are those a path of open edges leads to, provided   *)
(* every condition has run.  (One that was skipped counts as "false".)     *)
(***************************************************************************)
FinishedRunsLivePaths ==
    (/\ mode = "finished"
     /\ executor \in {"streaming", "advanced_stream", "advanced_execute"}
     /\ ~startedOver
     /\ \A p \in Nodes : IsCondition(wf, p) => result[p] # NoResult)
       => \A n \in Nodes : result[n] # NoResult <=> LivePath(n)

\* A process that is started comes to an end, however it is interrupted.
ProcessEnds == []<>(mode \in {"down", "failed", "finished"})

=============================================================================
