-------------------------- MODULE WorkflowDebugger --------------------------
(***************************************************************************)
(* packages/engine/src/core/workflow_debugger.py: WorkflowDebugger steps   *)
(* through the sorted nodes on request, keeps a snapshot from before each  *)
(* node, and goes back to one.  Requests come one at a time.               *)
(***************************************************************************)
EXTENDS WorkflowGraph, Sequences

CONSTANTS
    MaxSnapshots,   \* Bound: the snapshots of a session
    Breakable       \* Bound: the nodes a user sets a breakpoint at

VARIABLES
    context,      \* the results of self.context
    index,        \* current_index: the node the debugger is at
    done,         \* completed_nodes
    snapshots,    \* the snapshots: a node and the results before it
    breakpoints,  \* breakpoints
    continuing,   \* continue_execution has been called and has not returned
    session       \* the saved session, or NoSession

debuggerVars == <<context, index, done, snapshots, breakpoints, continuing, session>>
debugVars == <<wf, debuggerVars>>

NoSession == [saved |-> FALSE]

Snapshot(n) == [node |-> n, results |-> context]

DebugInit ==
    /\ wf \in Workflows
    /\ context = NoResults
    /\ index = 1
    /\ done = <<>>
    /\ snapshots = <<>>
    /\ breakpoints = {}
    /\ continuing = FALSE
    /\ session = NoSession

-----------------------------------------------------------------------------
(***************************************************************************)
(* step_over.  A node behind a condition is skipped: the response of the   *)
(* condition, a dictionary or None, is compared with the handle's name.    *)
(***************************************************************************)
BehindCondition(n) == \E p \in Preds(wf, n) : wf[p, n] \in Branches

\* Bound: the rest of the nodes still fits when this step fails.
MayFail == Len(snapshots) + 1 + (N + 1 - index) <= MaxSnapshots

SkipStep ==
    /\ BehindCondition(index)
    /\ index' = index + 1
    /\ UNCHANGED <<context, done, snapshots, continuing>>

RunStep ==
    /\ ~BehindCondition(index)
    /\ \E r \in ResultsOf(index) : context' = [context EXCEPT ![index] = r]
    /\ snapshots' = Append(snapshots, Snapshot(index))
    /\ done' = Append(done, index)
    /\ index' = index + 1
    /\ UNCHANGED continuing

\* The node raises: its snapshot is kept and the debugger stays at it.
FailStep ==
    /\ ~BehindCondition(index)
    /\ MayFail
    /\ snapshots' = Append(snapshots, Snapshot(index))
    /\ continuing' = FALSE
    /\ UNCHANGED <<context, done, index>>

\* The on_node_end callback raises inside the try: the node has completed, its
\* snapshot is appended again and the step is answered as failed.
CallbackFailStep ==
    /\ ~BehindCondition(index)
    /\ MayFail
    /\ \E r \in ResultsOf(index) : context' = [context EXCEPT ![index] = r]
    /\ snapshots' = snapshots \o <<Snapshot(index), Snapshot(index)>>
    /\ done' = Append(done, index)
    /\ index' = index + 1
    /\ continuing' = FALSE

StepOver ==
    /\ index <= N
    /\ ~continuing \/ index \notin breakpoints
    /\ SkipStep \/ RunStep \/ FailStep \/ CallbackFailStep
    /\ UNCHANGED <<wf, breakpoints, session>>

ContinueExecution ==
    /\ ~continuing
    /\ continuing' = TRUE
    /\ UNCHANGED <<wf, context, index, done, snapshots, breakpoints, session>>

\* The loop returns at a breakpoint, without a step, and after the last node.
ContinueReturns ==
    /\ continuing
    /\ index > N \/ index \in breakpoints
    /\ continuing' = FALSE
    /\ UNCHANGED <<wf, context, index, done, snapshots, breakpoints, session>>

ToggleBreakpoint(n) ==
    /\ ~continuing
    /\ breakpoints' = IF n \in breakpoints THEN breakpoints \ {n}
                                           ELSE breakpoints \cup {n}
    /\ UNCHANGED <<wf, context, index, done, snapshots, continuing, session>>

\* A new context; the breakpoints stay.
RestartSession ==
    /\ ~continuing
    /\ index' = 1
    /\ done' = <<>>
    /\ snapshots' = <<>>
    /\ context' = NoResults
    /\ UNCHANGED <<wf, breakpoints, continuing, session>>

\* A plausible slip: the results of the course given up stay.
RollbackKeepingContext(n) ==
    /\ ~continuing
    /\ n < index
    /\ \E k \in DOMAIN snapshots :
          /\ snapshots[k].node = n
          /\ \A j \in 1 .. k - 1 : snapshots[j].node # n
          /\ snapshots' = SubSeq(snapshots, 1, k - 1)
    /\ index' = n
    /\ done' = SubSeq(done, 1, IF n - 1 < Len(done) THEN n - 1 ELSE Len(done))
    /\ UNCHANGED <<wf, context, breakpoints, continuing, session>>

\* A plausible slip: the snapshots of the course given up stay.
RollbackKeepingSnapshots(n) ==
    /\ ~continuing
    /\ n < index
    /\ \E k \in DOMAIN snapshots :
          /\ snapshots[k].node = n
          /\ \A j \in 1 .. k - 1 : snapshots[j].node # n
          /\ context' = snapshots[k].results
    /\ index' = n
    /\ done' = SubSeq(done, 1, IF n - 1 < Len(done) THEN n - 1 ELSE Len(done))
    /\ UNCHANGED <<wf, snapshots, breakpoints, continuing, session>>

\* The first snapshot of the node is restored, and it and the later ones are
\* dropped; of completed_nodes as many stay as there are nodes before it.
RollbackToNode(n) ==
    /\ ~continuing
    /\ n < index
    /\ \E k \in DOMAIN snapshots :
          /\ snapshots[k].node = n
          /\ \A j \in 1 .. k - 1 : snapshots[j].node # n
          /\ context' = snapshots[k].results
          /\ snapshots' = SubSeq(snapshots, 1, k - 1)
    /\ index' = n
    /\ done' = SubSeq(done, 1, IF n - 1 < Len(done) THEN n - 1 ELSE Len(done))
    /\ UNCHANGED <<wf, breakpoints, continuing, session>>

SaveSession ==
    /\ ~continuing
    /\ session' = [saved |-> TRUE, index |-> index, done |-> done,
                   context |-> context, snapshots |-> snapshots,
                   breakpoints |-> breakpoints]
    /\ UNCHANGED <<wf, context, index, done, snapshots, breakpoints, continuing>>

\* A new debugger for the saved workflow.
LoadSession ==
    /\ ~continuing
    /\ session.saved
    /\ index' = session.index
    /\ done' = session.done
    /\ context' = session.context
    /\ snapshots' = session.snapshots
    /\ breakpoints' = session.breakpoints
    /\ UNCHANGED <<wf, continuing, session>>

DebugNext ==
    \/ StepOver \/ ContinueExecution \/ ContinueReturns
    \/ \E n \in Breakable : ToggleBreakpoint(n)
    \/ \E n \in Nodes : RollbackToNode(n)
    \/ RestartSession \/ SaveSession \/ LoadSession

DebugSpec == DebugInit /\ [][DebugNext]_debugVars

-----------------------------------------------------------------------------
(***************************************************************************)
(* However often one steps, fails, rolls back, saves and loads: no node at *)
(* or behind the current one has a result, so no result of a course that   *)
(* was rolled back reaches a later node.                                   *)
(***************************************************************************)
NoResultAhead == \A n \in Nodes : n >= index => context[n] = NoResult

(***************************************************************************)
(* Every node that has a result can be rolled back to, and every snapshot  *)
(* holds the results of the present course: those of the nodes before its  *)
(* node are the present ones, and it has no others.                        *)
(***************************************************************************)
HistoryIsReachable ==
    /\ \A n \in Nodes : context[n] # NoResult =>
          \E k \in DOMAIN snapshots : snapshots[k].node = n
    /\ \A k \in DOMAIN snapshots : \A n \in Nodes :
          snapshots[k].results[n] =
             IF n < snapshots[k].node THEN context[n] ELSE NoResult

=============================================================================
