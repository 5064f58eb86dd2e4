------------------------------ MODULE StepLogs ------------------------------
(***************************************************************************)
(* The collectors of log_collector.py: one per node id for the whole       *)
(* worker process, used by the engine around every node it executes.       *)
(* Engines run in threads, one workflow each.  Two runs of one workflow use *)
(* the same node ids, so a step may be of any node.                        *)
(*                                                                         *)
(* A log line is identified by its thread, the number of the step that     *)
(* wrote it and its own number in that step.                               *)
(***************************************************************************)
EXTENDS Naturals, Sequences, FiniteSets

CONSTANTS
    Threads,    \* engine threads
    NodeIds,    \* ids of the nodes of their workflows
    MaxRounds,  \* Bound: steps of a thread
    MaxLines    \* Bound: lines of a step

ASSUME LogsAssumption ==
    NodeIds # {} /\ MaxRounds \in Nat /\ MaxLines \in Nat

NoThread == "nobody"

VARIABLES
    collectors,  \* per node id: enabled, the thread that started it, logs
    thread,      \* per engine thread: its step
    abandoned,   \* history: node ids whose collection was never stopped
    overlapped   \* history: threads whose step another thread's step of the
                 \* same node has overlapped with

logVars == <<collectors, thread, abandoned, overlapped>>

AnyNode == CHOOSE n \in NodeIds : TRUE

LogsInit ==
    /\ collectors = [n \in NodeIds |-> [enabled |-> FALSE, thread |-> NoThread, logs |-> << >>]]
    /\ thread = [t \in Threads |-> [at |-> "idle", node |-> AnyNode, round |-> 0, lines |-> 0,
                                   logs |-> << >>]]
    /\ abandoned = {}
    /\ overlapped = {}

\* A plausible slip: the lines of the step before stay.
StartKeepingLogs(n, t) ==
    IF collectors[n].enabled THEN UNCHANGED collectors
    ELSE collectors' = [collectors EXCEPT ![n].enabled = TRUE, ![n].thread = t]

\* start returns at once while the collector is enabled; else the logs of
\* the step before are cleared and the sink is the caller's.
Start(n, t) ==
    IF collectors[n].enabled THEN UNCHANGED collectors
    ELSE collectors' = [collectors EXCEPT
                           ![n] = [enabled |-> TRUE, thread |-> t, logs |-> << >>]]

\* The other threads that are in a step of node n.
OthersAt(n, t) == {u \in Threads \ {t} : thread[u].at # "idle" /\ thread[u].node = n}

StartCollection(t, n) ==
    /\ thread[t].at = "idle"
    /\ thread[t].round < MaxRounds
    /\ Start(n, t)
    /\ thread' = [thread EXCEPT ![t] = [at |-> "node", node |-> n, round |-> @.round + 1,
                                        lines |-> 0, logs |-> << >>]]
    /\ overlapped' = IF OthersAt(n, t) = {} THEN overlapped \ {t}
                     ELSE overlapped \cup OthersAt(n, t) \cup {t}
    /\ UNCHANGED abandoned

\* Every enabled sink whose thread this is takes the line.
LogLine(t) ==
    /\ thread[t].at = "node"
    /\ thread[t].lines < MaxLines
    /\ LET line == <<t, thread[t].round, thread[t].lines + 1>>
       IN collectors' = [n \in NodeIds |->
              IF collectors[n].enabled /\ collectors[n].thread = t
              THEN [collectors[n] EXCEPT !.logs = Append(@, line)]
              ELSE collectors[n]]
    /\ thread' = [thread EXCEPT ![t].lines = @ + 1]
    /\ UNCHANGED <<abandoned, overlapped>>

StopCollection(t) ==
    /\ thread[t].at = "node"
    /\ collectors' = [collectors EXCEPT ![thread[t].node].enabled = FALSE]
    /\ thread' = [thread EXCEPT ![t].at = "stopped"]
    /\ UNCHANGED <<abandoned, overlapped>>

\* execute raises on a condition without a result, between start and stop: the
\* collector stays enabled when the thread goes on to another workflow.
Abandon(t) ==
    /\ thread[t].at = "node"
    /\ thread' = [thread EXCEPT ![t] = [@ EXCEPT !.at = "idle", !.lines = 0, !.logs = << >>]]
    /\ abandoned' = abandoned \cup {thread[t].node}
    /\ UNCHANGED <<collectors, overlapped>>

\* The lock is not held between stop and get_logs.
GetLogs(t) ==
    /\ thread[t].at = "stopped"
    /\ thread' = [thread EXCEPT ![t].at = "idle", ![t].logs = collectors[thread[t].node].logs]
    /\ UNCHANGED <<collectors, abandoned, overlapped>>

LogsNext ==
    \E t \in Threads :
        \/ \E n \in NodeIds : StartCollection(t, n)
        \/ LogLine(t) \/ StopCollection(t) \/ Abandon(t) \/ GetLogs(t)

LogsSpec == LogsInit /\ [][LogsNext]_logVars

-----------------------------------------------------------------------------
\* A step's logs are the lines its own thread wrote during it, all of them
\* and in order, whatever other threads run and whoever used the collector
\* before (log_sink, the comment on thread isolation).  Two runs of one workflow
\* share their collectors: it takes a step that no step of the same node in
\* another thread overlaps with, and a node id whose collection no run has
\* left open.
StepLogsAreOwn ==
    \A t \in Threads :
        thread[t].at = "idle" /\ thread[t].node \notin abandoned /\ t \notin overlapped =>
            thread[t].logs = [i \in 1 .. thread[t].lines |-> <<t, thread[t].round, i>>]
=============================================================================
