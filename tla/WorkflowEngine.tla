--------------------------- MODULE WorkflowEngine ---------------------------
(***************************************************************************)
(* packages/engine/workflow_engine.py: WorkflowExecutor.execute walks the  *)
(* sorted nodes in one thread, and the worker's WorkflowExecutor turns the *)
(* ExecutionResult into the report that is called back.  With the shard    *)
(* storage on (large workflows) a successful step keeps only a reference   *)
(* and the report loads the full output back by step index.                *)
(***************************************************************************)
EXTENDS WorkflowGraph, Sequences, FiniteSets

VARIABLES
    shard,    \* context.is_shard_storage_enabled()
    next,     \* the node the loop is at; N + 1 after the loop
    steps,    \* execution_result.steps
    store,    \* the shard storage: whose output each step index holds
    phase,    \* the state of execute() and of its caller
    report    \* what execute_workflow returns

vars == <<wf, shard, next, result, steps, store, phase, report>>

StepStatus == {"success", "failed", "skipped", "pending"}

\* What a StepResult.output holds: nothing, the output (or the error) itself,
\* or the reference into the shard storage with a summary.
Outputs == {"nothing", "full", "reference"}

Step(n, status, output) == [node |-> n, status |-> status, output |-> output]

NoReport == [success |-> FALSE]

Init ==
    /\ wf \in Workflows
    /\ shard \in BOOLEAN
    /\ next = 1
    /\ result = NoResults
    /\ steps = <<>>
    /\ store = <<>>
    /\ phase = "running"
    /\ report = NoReport

-----------------------------------------------------------------------------
\* A plausible slip: all edges must be open.
OpenAll(n) == \A p \in Preds(wf, n) : OpenEdge(p, n)

(***************************************************************************)
(* The test before a node.  The predecessors are tried in the order their  *)
(* edges were drawn: the first open edge runs the node, the first edge of  *)
(* a condition that has no result raises, and a node none of whose edges   *)
(* does either is skipped.                                                 *)
(***************************************************************************)
Open(n) == \E p \in Preds(wf, n) : OpenEdge(p, n)

UnanswerableEdge(p, n) == wf[p, n] # "plain" /\ result[p] = NoResult

MayRun(n) == Preds(wf, n) = {} \/ Open(n)

MayRaise(n) == \E p \in Preds(wf, n) : UnanswerableEdge(p, n)

MaySkip(n) == ~MayRun(n) /\ ~MayRaise(n)

\* The ValueError is raised outside the try of the node: execute() itself
\* raises and no step result survives.
RaiseOnCondition ==
    /\ phase = "running" /\ next <= N
    /\ MayRaise(next)
    /\ phase' = "raised"
    /\ UNCHANGED <<wf, shard, next, result, steps, store, report>>

Skip ==
    /\ phase = "running" /\ next <= N
    /\ MaySkip(next)
    /\ steps' = Append(steps, Step(next, "skipped", "nothing"))
    /\ next' = next + 1
    /\ UNCHANGED <<wf, shard, result, store, phase, report>>

\* The processor answers with success, and so do the inline extraction and
\* assertion.  The step counts on in the shard storage only here; a failure
\* to store keeps the full output.
Succeed ==
    /\ phase = "running" /\ next <= N
    /\ MayRun(next)
    /\ \E r \in ResultsOf(next) : result' = [result EXCEPT ![next] = r]
    /\ \/ /\ shard
          /\ store' = Append(store, next)
          /\ steps' = Append(steps, Step(next, "success", "reference"))
       \/ /\ steps' = Append(steps, Step(next, "success", "full"))
          /\ UNCHANGED store
    /\ next' = next + 1
    /\ UNCHANGED <<wf, shard, phase, report>>

\* A plausible slip: the nodes behind the failed one are left out.
FinalizeFailureAlone ==
    /\ steps' = Append(steps, Step(next, "failed", "full"))
    /\ phase' = "failed"
    /\ UNCHANGED <<wf, shard, next, store, report>>

\* _finalize_failure: the nodes behind the failed one, in the order of the
\* sort, are reported as pending.
FinalizeFailure ==
    /\ steps' = Append(steps, Step(next, "failed", "full"))
                  \o [k \in 1 .. N - next |-> Step(next + k, "pending", "nothing")]
    /\ phase' = "failed"
    /\ UNCHANGED <<wf, shard, next, store, report>>

\* The configuration or the processor raises: there is no node result.
ProcessorRaises ==
    /\ phase = "running" /\ next <= N
    /\ MayRun(next)
    /\ UNCHANGED result
    /\ FinalizeFailure

\* The processor answers, and its own status, the inline extraction or the
\* inline assertion fails the node: its result stays in the context.
NodeFails ==
    /\ phase = "running" /\ next <= N
    /\ MayRun(next)
    /\ \E r \in ResultsOf(next) : result' = [result EXCEPT ![next] = r]
    /\ FinalizeFailure

Finish ==
    /\ phase = "running" /\ next = N + 1
    /\ phase' = "success"
    /\ UNCHANGED <<wf, shard, next, result, steps, store, report>>

-----------------------------------------------------------------------------
(***************************************************************************)
(* WorkflowExecutor.execute_workflow of the worker, once execute() is back.*)
(***************************************************************************)
Count(status) == Cardinality({k \in DOMAIN steps : steps[k].status = status})

\* A plausible slip: the index counts from one.
ShownOutputShifted(k) ==
    CASE steps[k].output = "full" -> steps[k].node
      [] steps[k].output = "reference" /\ k < Len(store) -> store[k + 1]
      [] OTHER -> 0

\* Whose output the k-th step of the report shows, 0 when it shows none but
\* the reference: load_step_result(idx) takes the position among ALL steps.
ShownOutput(k) ==
    CASE steps[k].output = "full" -> steps[k].node
      [] steps[k].output = "reference" /\ k <= Len(store) -> store[k]
      [] OTHER -> 0

Report ==
    /\ phase \in {"success", "failed"}
    /\ report' = [success |-> phase = "success",
                  passed  |-> Count("success"), failed  |-> Count("failed"),
                  skipped |-> Count("skipped"), pending |-> Count("pending"),
                  shown   |-> [k \in 1 .. Len(steps) |-> ShownOutput(k)]]
    /\ phase' = "reported"
    /\ UNCHANGED <<wf, shard, next, result, steps, store>>

\* A plausible slip: the exception is swallowed and nothing is returned.
ReportErrorLost ==
    /\ phase = "raised"
    /\ report' = NoReport
    /\ UNCHANGED <<wf, shard, next, result, steps, store, phase>>

\* The exception is caught there: {"success": False} without any step.
ReportError ==
    /\ phase = "raised"
    /\ report' = NoReport
    /\ phase' = "reported_error"
    /\ UNCHANGED <<wf, shard, next, result, steps, store>>

Done ==
    /\ phase \in {"reported", "reported_error"}
    /\ UNCHANGED vars

Next ==
    \/ RaiseOnCondition \/ Skip \/ Succeed \/ ProcessorRaises \/ NodeFails
    \/ Finish \/ Report \/ ReportError \/ Done

Spec == Init /\ [][Next]_vars

\* The engine's thread runs until it returns.
FairSpec == Spec /\ WF_vars(Next)

-----------------------------------------------------------------------------
TypeOK ==
    /\ wf \in Workflows
    /\ shard \in BOOLEAN
    /\ next \in 1 .. N + 1
    /\ result \in [Nodes -> Results]
    /\ steps \in Seq([node : Nodes, status : StepStatus, output : Outputs])
    /\ store \in Seq(Nodes)
    /\ phase \in {"running", "raised", "success", "failed", "reported", "reported_error"}

StatusOf(n) == steps[n].status

(***************************************************************************)
(* "Multi-path or" (the comment above the test): whatever the order of the *)
(* edges, a node that ran is at the end of a path that was not cut by an   *)
(* untaken branch or a skipped node, and a skipped node is not.  The test  *)
(* only looks at the direct predecessors, at the time the node is reached. *)
(***************************************************************************)
LivePathsDecide ==
    \A n \in DOMAIN steps :
        /\ StatusOf(n) \in {"success", "failed"} => LivePath(n)
        /\ StatusOf(n) = "skipped" => ~LivePath(n)

(***************************************************************************)
(* The list of steps is complete and in order: the k-th step is of the     *)
(* k-th node, a node is pending exactly when an earlier one failed, and    *)
(* when execute() returns no node is missing.  (_finalize_failure and the  *)
(* loop both write this list.)                                             *)
(***************************************************************************)
StepsAreComplete ==
    /\ \A k \in DOMAIN steps :
          /\ steps[k].node = k
          /\ steps[k].status = "pending" <=>
                \E j \in 1 .. k - 1 : steps[j].status = "failed"
    /\ phase \in {"success", "failed", "reported"} => Len(steps) = N

(***************************************************************************)
(* Shard storage: the report shows a successful step the output of its own *)
(* node as long as no earlier node was skipped or kept its output.         *)
(***************************************************************************)
OwnOutputUnlessSkipped ==
    phase = "reported" =>
        \A k \in DOMAIN steps :
            (steps[k].status = "success" /\ \A j \in 1 .. k - 1 : steps[j].output = "reference")
               => report.shown[k] = k

\* A run ends with a report: the callback gets an answer.
RunEnds == <>(phase \in {"reported", "reported_error"})
=============================================================================
