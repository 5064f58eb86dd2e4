---------------------------- MODULE SystemParts ----------------------------
(***************************************************************************)
(* The parts around WorkflowEngine's own walk that do not interact with    *)
(* each other: the executors of LibraryExecutors, the debugger, the log    *)
(* collectors, one node in its processor, the loop node, the MySQL node,   *)
(* the browser session, and how an outcome leaves the worker.  A behaviour *)
(* is of one part; the executors and the debugger walk the same workflows. *)
(***************************************************************************)
EXTENDS LibraryExecutors, WorkflowDebugger, StepLogs, NodeHandlers, LoopNodes, SqlBatch,
        UISession, TaskReports

VARIABLE part   \* the part a behaviour is of

walkVars == <<libVars, debuggerVars>>
nodeVars == <<handlerVars, loopVars, sqlVars, uiVars>>
partVars == <<walkVars, logVars, nodeVars, reportVars, part>>

\* What the other parts start with does not matter: one value stands for all.
Started(name, actual, one) == IF part = name THEN actual ELSE {one}

PartsInit ==
    /\ part \in {"run", "debug", "logs", "node", "loop", "sql", "browser", "reports"}
    /\ wf \in (IF part \in {"run", "debug"} THEN Workflows
               ELSE {CHOOSE w \in Workflows : TRUE})
    /\ executor \in Started("run", Executors, CHOOSE e \in Executors : TRUE)
    /\ op \in Started("node", Operations, <<"wait", "wait_for_time">>)
    /\ page \in Started("node", BOOLEAN, FALSE)
    /\ loop \in Started("loop", Configurations, [type |-> "count", due |-> 0, valid |-> TRUE])
    /\ subs \in Started("loop", BoundedSeq(SubKinds, MaxSubs), << >>)
    /\ batched \in Started("reports", BOOLEAN, FALSE)
    /\ troubles \in Started("reports", Troubles, CHOOSE t \in Troubles : TRUE)
    /\ hash \in Started("reports", StoredBefore, [status |-> "pending", result |-> "none"])
    /\ LibInit
    /\ DebugInit
    /\ LogsInit
    /\ HandlersInit
    /\ LoopInit
    /\ SqlInit
    /\ UIInit
    /\ ReportsInit
    /\ part # "reports" => sse.at = "closed"

InRun(A) == part = "run" /\ A /\ UNCHANGED <<debuggerVars, logVars, nodeVars, reportVars, part>>

PartsNext ==
    \/ InRun(LibNext)
    \/ /\ part = "debug" /\ DebugNext
       /\ UNCHANGED <<result, execVars, logVars, nodeVars, reportVars, part>>
    \/ /\ part = "logs" /\ LogsNext
       /\ UNCHANGED <<walkVars, nodeVars, reportVars, part>>
    \/ /\ part = "node" /\ HandlersNext
       /\ UNCHANGED <<walkVars, logVars, loopVars, sqlVars, uiVars, reportVars, part>>
    \/ /\ part = "loop" /\ LoopNext
       /\ UNCHANGED <<walkVars, logVars, handlerVars, sqlVars, uiVars, reportVars, part>>
    \/ /\ part = "sql" /\ SqlNext
       /\ UNCHANGED <<walkVars, logVars, handlerVars, loopVars, uiVars, reportVars, part>>
    \/ /\ part = "browser" /\ UINext
       /\ UNCHANGED <<walkVars, logVars, handlerVars, loopVars, sqlVars, reportVars, part>>
    \/ /\ part = "reports" /\ ReportsNext
       /\ UNCHANGED <<walkVars, logVars, nodeVars, part>>

\* A process that is not killed goes on until it returns or raises; the user
\* of a debugger may stop at any time.
PartsSpec == PartsInit /\ [][PartsNext]_partVars /\ WF_partVars(InRun(LibStep))
=============================================================================
