--------------------------- MODULE DurableStatus ---------------------------
(***************************************************************************)
(* What the master and the workers together promise of a submitted task's  *)
(* row to those who read only the row (the batch status endpoint, the      *)
(* history, the statistics), unless someone cancels it: it runs from       *)
(* pending, a recovery takes a running one back, it ends once, and only    *)
(* from an end that can be retried it is pending again.                    *)
(***************************************************************************)
CONSTANTS
    Tasks,
    Reopened  \* the outcomes a retry takes back

VARIABLE status  \* task_execution.status

Outcome == {"success", "failed", "timeout"}

Init == status = [t \in Tasks |-> "absent"]

Moves(t, from, to) ==
    /\ status[t] = from
    /\ status' = [status EXCEPT ![t] = to]

Submit(t) == Moves(t, "absent", "pending")
Start(t) == Moves(t, "pending", "running")
Recover(t) == Moves(t, "running", "pending")
End(t) == \E outcome \in Outcome : Moves(t, "running", outcome)
Retry(t) == \E outcome \in Reopened : Moves(t, outcome, "pending")

Next == \E t \in Tasks : Submit(t) \/ Start(t) \/ Recover(t) \/ End(t) \/ Retry(t)

Spec == Init /\ [][Next]_status
=============================================================================
