------------------------------ MODULE SqlBatch ------------------------------
(***************************************************************************)
(* The MySQL node (mysql_processor.py): one statement, a list with a       *)
(* transaction for each statement ("auto"), or a list in one transaction   *)
(* ("single"), on connections of the pool (ConnectionPool has the pool).   *)
(* Autocommit is off: the first statement on a connection opens a          *)
(* transaction, which then sees the database as it was at that moment.     *)
(*                                                                         *)
(* A statement is its kind: a "write"; a "text", a write given as a plain  *)
(* string, whose operation is then the default "select"; a "read"; a       *)
(* "probe", a SELECT whose operation is "execute"; a "bad" item, neither a *)
(* string nor an object.                                                   *)
(***************************************************************************)
EXTENDS Naturals, Sequences, FiniteSets, SequencesExt

CONSTANTS
    Conns,      \* connections of the pool
    Kinds,      \* kinds of statements the nodes have
    MaxItems,   \* Bound: statements of a list
    MaxNodes,   \* Bound: MySQL nodes that run, one after the other
    MaxOthers   \* Bound: commits of other clients of the database

ASSUME SqlAssumption ==
    /\ Conns # {} /\ IsFiniteSet(Conns)
    /\ Kinds \subseteq {"write", "text", "read", "probe", "bad"}
    /\ {MaxItems, MaxNodes, MaxOthers} \subseteq Nat

VARIABLES
    version,  \* external: changes the database has committed
    others,   \* external: those of other clients
    tx,       \* external: per connection: its transaction
    queue,    \* the pool's queue
    node,     \* the node that runs: its statements and where it is
    applied,  \* history: statements of the node that are committed
    unsure,   \* history: a commit of the node raised although it was made
    probed,   \* history: a probe has left its transaction open
    lag       \* history: commits the last SELECT did not see

sqlVars == <<version, others, tx, queue, node, applied, unsure, probed, lag>>

NoTx == [open |-> FALSE, base |-> 0, writes |-> {}]
NoNode == [at |-> "idle", mode |-> "one", stop |-> TRUE, items |-> << >>, next |-> 1,
         results |-> << >>, affected |-> 0, number |-> 0, answer |-> "none"]

SqlInit ==
    /\ version = 0
    /\ others = 0
    /\ tx = [c \in Conns |-> NoTx]
    /\ queue = SetToSeq(Conns)
    /\ node = NoNode
    /\ applied = {}
    /\ unsure = FALSE
    /\ probed = FALSE
    /\ lag = 0

Item == node.items[node.next]
Conn == Head(queue)
Writes(items) == {i \in DOMAIN items : items[i] \in {"write", "text"}}

\* cursor.execute of statement i: the transaction it runs in.
Opened(t) == IF t.open THEN t ELSE [NoTx EXCEPT !.open = TRUE, !.base = version]
Executed(t, i) ==
    IF i \in Writes(node.items) THEN [Opened(t) EXCEPT !.writes = @ \cup {i}] ELSE Opened(t)

\* The transaction t is committed: "ok"; refused; or made, but conn.commit()
\* raises.  It is closed in each case, by the rollback that follows at worst.
CommitOutcomes == {"ok", "refused", "lost"}
Commit(t, outcome) ==
    LET made == IF outcome = "refused" THEN {} ELSE t.writes
    IN /\ version' = version + Cardinality(made)
       /\ applied' = applied \cup made
       /\ unsure' = (unsure \/ (outcome = "lost" /\ made # {}))

NoCommit == UNCHANGED <<version, applied, unsure>>

\* get_connection takes the connection from the queue and puts it back.
Back(t) ==
    /\ tx' = [tx EXCEPT ![Conn] = t]
    /\ queue' = Append(Tail(queue), Conn)

\* The item's result is noted, the counter advances; the loop of a list ends
\* early when a statement failed and stop_on_error is set.
Noted(ok, affected) ==
    [node EXCEPT !.results = Append(@, ok), !.affected = @ + affected, !.next = @ + 1,
                 !.at = IF (~ok /\ node.stop) \/ node.next = Len(node.items) THEN "answer" ELSE @]

-----------------------------------------------------------------------------
(* execute, _execute_multiple_sqls *)

\* An empty list answers a dict without a status.
StartNode(mode, stop, items) ==
    /\ node.at = "idle"
    /\ node.number < MaxNodes
    /\ mode = "one" => Len(items) = 1 /\ items[1] \notin {"text", "bad"}
    /\ node' = [NoNode EXCEPT !.mode = mode, !.stop = stop, !.items = items,
                            !.number = node.number + 1,
                            !.at = IF items = << >> THEN "idle"
                                   ELSE IF mode = "single" THEN "begin" ELSE "item",
                            !.answer = IF items = << >> THEN "unmarked" ELSE "none"]
    /\ applied' = {}
    /\ unsure' = FALSE
    /\ UNCHANGED <<version, others, tx, queue, probed, lag>>

\* Not a statement: no connection is asked for.
BadItem ==
    /\ node.at = "item"
    /\ Item = "bad"
    /\ node' = Noted(FALSE, 0)
    /\ NoCommit
    /\ UNCHANGED <<others, tx, queue, probed, lag>>

\* _execute_database_operation_with_pool without a connection, or with a
\* statement the server refuses: the transaction is rolled back, or (select)
\* committed although it is empty.
StatementFails ==
    /\ node.at = "item"
    /\ Item # "bad"
    /\ node' = Noted(FALSE, 0)
    /\ NoCommit
    /\ \/ UNCHANGED <<tx, queue>>
       \/ Back(NoTx)
       \/ Item = "probe" /\ node.mode = "one" /\ Back(Opened(tx[Conn]))
    /\ probed' = (probed \/ (Item = "probe" /\ node.mode = "one"))
    /\ UNCHANGED <<others, lag>>

\* A plausible slip: the SELECT is not committed.
StatementRunsOpen(outcome) ==
    /\ node.at = "item"
    /\ Item \in {"write", "text", "read"} \/ (Item = "probe" /\ node.mode = "auto")
    /\ LET t == Executed(tx[Conn], node.next)
       IN /\ Commit(t, outcome)
          /\ lag' = IF Item \in {"read", "probe"} THEN version - t.base ELSE lag
          /\ Back(IF Item = "read" THEN t ELSE NoTx)
    /\ node' = Noted(outcome = "ok", IF outcome = "ok" /\ Item = "write" THEN 1 ELSE 0)
    /\ UNCHANGED <<others, probed>>

\* _execute_insert, _update, _delete, _generic, and _execute_select with the
\* commit of its caller.  A text counts no rows, its answer being a SELECT's.
StatementRuns(outcome) ==
    /\ node.at = "item"
    /\ Item \in {"write", "text", "read"} \/ (Item = "probe" /\ node.mode = "auto")
    /\ LET t == Executed(tx[Conn], node.next)
       IN /\ Commit(t, outcome)
          /\ lag' = IF Item \in {"read", "probe"} THEN version - t.base ELSE lag
    /\ Back(NoTx)
    /\ node' = Noted(outcome = "ok", IF outcome = "ok" /\ Item = "write" THEN 1 ELSE 0)
    /\ UNCHANGED <<others, probed>>

\* _execute_generic with a SELECT: nobody commits.
ProbeRuns ==
    /\ node.at = "item"
    /\ Item = "probe"
    /\ node.mode = "one"
    /\ Back(Opened(tx[Conn]))
    /\ lag' = version - Opened(tx[Conn]).base
    /\ probed' = TRUE
    /\ node' = Noted(TRUE, 0)
    /\ NoCommit
    /\ UNCHANGED others

-----------------------------------------------------------------------------
(* _execute_sqls_in_single_transaction: the connection is out of the queue  *)
(* from "begin" to "end"; its transaction is kept in place.                 *)

Begin ==
    /\ node.at = "begin"
    /\ node' = [node EXCEPT !.at = "transaction"]
    /\ NoCommit
    /\ UNCHANGED <<others, tx, queue, probed, lag>>

NoConnection ==
    /\ node.at = "begin"
    /\ node' = [node EXCEPT !.at = "answer", !.results = <<FALSE>>]
    /\ NoCommit
    /\ UNCHANGED <<others, tx, queue, probed, lag>>

\* A plausible slip: what was done before the failure is committed.
ItemOfTransactionCommits(ok) ==
    /\ node.at = "transaction"
    /\ node.next <= Len(node.items)
    /\ Item = "bad" => ~ok
    /\ LET stops == ~ok /\ node.stop
       IN /\ node' = [node EXCEPT !.results = Append(@, ok), !.next = @ + 1,
                                  !.at = IF stops THEN "answer" ELSE @]
          /\ IF stops THEN Commit(tx[Conn], "ok") /\ Back(NoTx)
             ELSE /\ tx' = IF ok THEN [tx EXCEPT ![Conn] = Executed(@, node.next)] ELSE tx
                  /\ NoCommit
                  /\ UNCHANGED queue
    /\ UNCHANGED <<others, probed, lag>>

\* A plausible slip: the transaction is left open.
ItemOfTransactionLeft(ok) ==
    /\ node.at = "transaction"
    /\ node.next <= Len(node.items)
    /\ Item = "bad" => ~ok
    /\ LET stops == ~ok /\ node.stop
       IN /\ node' = [node EXCEPT !.results = Append(@, ok), !.next = @ + 1,
                                  !.at = IF stops THEN "answer" ELSE @]
          /\ IF stops THEN Back(tx[Conn])
             ELSE /\ tx' = IF ok THEN [tx EXCEPT ![Conn] = Executed(@, node.next)] ELSE tx
                  /\ UNCHANGED queue
    /\ NoCommit
    /\ UNCHANGED <<others, probed, lag>>

\* One item of the loop; a failure rolls back when stop_on_error is set.
ItemOfTransaction(ok) ==
    /\ node.at = "transaction"
    /\ node.next <= Len(node.items)
    /\ Item = "bad" => ~ok
    /\ LET stops == ~ok /\ node.stop
       IN /\ node' = [node EXCEPT !.results = Append(@, ok), !.next = @ + 1,
                                  !.affected = IF ok /\ node.next \in Writes(node.items)
                                               THEN @ + 1 ELSE @,
                                  !.at = IF stops THEN "answer" ELSE @]
          /\ IF stops THEN Back(NoTx)
             ELSE /\ tx' = IF ok THEN [tx EXCEPT ![Conn] = Executed(@, node.next)] ELSE tx
                  /\ UNCHANGED queue
    /\ NoCommit
    /\ UNCHANGED <<others, probed, lag>>

\* All statements succeeded, or some failed and stop_on_error is not set.
\* A commit that raises makes the whole list a failure without affected rows.
EndTransaction(outcome) ==
    /\ node.at = "transaction"
    /\ node.next > Len(node.items)
    /\ Commit(tx[Conn], outcome)
    /\ Back(NoTx)
    /\ node' = [node EXCEPT !.at = "answer",
                            !.affected = IF outcome = "ok" THEN @ ELSE 0,
                            !.results = IF outcome = "ok" THEN @ ELSE Append(@, FALSE)]
    /\ UNCHANGED <<others, probed, lag>>

-----------------------------------------------------------------------------
\* A plausible slip: one success is enough.
AnySucceeds(results) == \E i \in DOMAIN results : results[i]

AllSucceed(results) == \A i \in DOMAIN results : results[i]

Answer ==
    /\ node.at = "answer"
    /\ node' = [node EXCEPT !.at = "idle",
                            !.answer = IF AllSucceed(node.results) THEN "success" ELSE "error"]
    /\ UNCHANGED <<version, others, tx, queue, applied, unsure, probed, lag>>

\* Another client of the database commits.
OtherCommits ==
    /\ others < MaxOthers
    /\ others' = others + 1
    /\ version' = version + 1
    /\ UNCHANGED <<tx, queue, node, applied, unsure, probed, lag>>

SqlNext ==
    \/ \E mode \in {"one", "auto", "single"}, stop \in BOOLEAN,
          items \in BoundedSeq(Kinds, MaxItems) : StartNode(mode, stop, items)
    \/ BadItem \/ StatementFails \/ ProbeRuns
    \/ \E outcome \in CommitOutcomes : StatementRuns(outcome) \/ EndTransaction(outcome)
    \/ Begin \/ NoConnection
    \/ \E ok \in BOOLEAN : ItemOfTransaction(ok)
    \/ Answer
    \/ OtherCommits

SqlSpec == SqlInit /\ [][SqlNext]_sqlVars

-----------------------------------------------------------------------------
\* A node that answers success has every write of its list committed, in each
\* transaction mode (the commit at the end of the single transaction and
\* those after each statement).
SuccessMeansCommitted ==
    node.answer = "success" => applied = Writes(node.items)

\* One transaction with stop_on_error is all or nothing: when it answers an
\* error none of its writes stay, unless the commit itself was made and
\* raised; without an answer lost, an error never hides a commit.
StopMeansNothing ==
    node.answer = "error" /\ node.mode = "single" /\ node.stop /\ ~unsure => applied = {}

\* A SELECT outside a single transaction sees all that was committed before
\* it, on whichever pooled connection it runs (with_pool: the commit after a
\* SELECT ends its snapshot).  It takes nodes without probes, which leave
\* their transaction open.
SelectSeesLatest == ~probed => lag = 0

\* A connection in the pool carries no uncommitted write of an earlier node,
\* which the next node's commit would make permanent.
PooledHoldsNoWrites ==
    node.at = "idle" => \A c \in Conns : tx[c].writes = {}
=============================================================================
