---------------------------- MODULE WorkflowGraph ----------------------------
(***************************************************************************)
(* The drawn workflow, as Workflow._build_graph turns it into a directed   *)
(* graph and as every executor of the engine walks it.                     *)
(*                                                                         *)
(* A node is its position in nx.topological_sort: the library lists the    *)
(* nodes in the order in which their last predecessor frees them, so the   *)
(* workflows over 1..N below are, up to renaming, all the pairs of an      *)
(* acyclic graph and an order the library may list it in.  A cyclic        *)
(* drawing is refused by WorkflowParser.parse before anything runs.        *)
(***************************************************************************)
EXTENDS Naturals
LOCAL INSTANCE FiniteSetsExt

CONSTANT N           \* Bound: the number of nodes of a workflow.

ASSUME NAssumption == N \in Nat \ {0}

VARIABLES
    wf,       \* the workflow of the executor
    result    \* context._node_results of its ExecutionContext

Nodes == 1 .. N

Pairs == {e \in Nodes \X Nodes : e[1] < e[2]}

\* What an edge says: it leaves a plain node, or it leaves a condition by the
\* branch its source_handle names.
Branches == {"true", "false"}
Labels == {"absent", "plain"} \cup Branches

Preds(w, n) == {p \in Nodes : p < n /\ w[p, n] # "absent"}

Succs(w, p) == {n \in Nodes : p < n /\ w[p, n] # "absent"}

IsCondition(w, p) == \E n \in Succs(w, p) : w[p, n] \in Branches

\* The position after which the sort can list node n.
FreedBy(w, n) == Max({0} \cup Preds(w, n))

\* All edges of a node are of one kind, and the nodes are in the sort's order.
Workflows ==
    {w \in [Pairs -> Labels] :
        /\ \A p \in Nodes : IsCondition(w, p) =>
                               \A n \in Succs(w, p) : w[p, n] \in Branches
        /\ \A i, j \in Nodes : i < j => FreedBy(w, i) <= FreedBy(w, j)}

-----------------------------------------------------------------------------
(***************************************************************************)
(* What a node leaves in the context: nothing, a value, for a condition    *)
(* the branch that its body.result names, or the error output that some    *)
(* executors put there for a node that raised.                             *)
(***************************************************************************)
NoResult == "none"
Results == {NoResult, "value", "error"} \cup Branches

ResultsOf(n) == IF IsCondition(wf, n) THEN Branches ELSE {"value"}

NoResults == [n \in Nodes |-> NoResult]

\* The edge p -> n is open: its source ran and, if it is a condition, took
\* the branch of this edge.
OpenEdge(p, n) ==
    IF wf[p, n] = "plain" THEN result[p] # NoResult ELSE result[p] = wf[p, n]

(***************************************************************************)
(* The reference the executors are compared with: node n is live when a    *)
(* path of open edges leads to it from a node without predecessors.  S is  *)
(* the set of nodes of the path.                                           *)
(***************************************************************************)
LivePath(n) ==
    \E S \in SUBSET (1 .. n) :
        /\ n \in S
        /\ \A m \in S : \/ Preds(wf, m) = {}
                        \/ \E p \in S \cap Preds(wf, m) : OpenEdge(p, m)
=============================================================================
