----------------------------- MODULE KafkaGroup -----------------------------
(***************************************************************************)
(* What the workers rely on of Kafka: one consumer group over the workflow *)
(* topics' partitions.  A partition is a log that is never consumed; its   *)
(* one owner reads at `position' and the group remembers `committed', from *)
(* where the next owner starts.  External to src/: modelled from the calls *)
(* getmany, commit(offsets), commit() and stop of consume_tasks and        *)
(* send_and_wait of the producer, which gives no key, so that a task's     *)
(* messages may land in any partition.                                     *)
(***************************************************************************)
EXTENDS TaskStores

CONSTANT Partitions

ASSUME KafkaAssumption == None \notin Partitions

VARIABLES
    log,        \* per partition: the tasks of its messages, by offset
    committed,  \* per partition: the group's committed offset
    position,   \* per partition: the owner's next offset to fetch
    owner       \* per partition: the worker it is assigned to, or None

kafkaVars == <<log, committed, position, owner>>

KafkaTypeOK ==
    /\ log \in [Partitions -> Seq(Tasks)]
    /\ committed \in [Partitions -> Nat]
    /\ position \in [Partitions -> Nat]
    /\ owner \in [Partitions -> Workers \cup {None}]

KafkaInit ==
    /\ log = [p \in Partitions |-> <<>>]
    /\ committed = [p \in Partitions |-> 0]
    /\ position = [p \in Partitions |-> 0]
    /\ owner = [p \in Partitions |-> None]

\* The broker appends a message.
AppendMessage(t, p) ==
    /\ log' = [log EXCEPT ![p] = Append(@, t)]
    /\ UNCHANGED <<committed, position, owner>>

HasNext(p) == position[p] < Len(log[p])
NextTask(p) == log[p][position[p] + 1]

\* getmany returns the next message.
Fetch(p) ==
    /\ position' = [position EXCEPT ![p] = @ + 1]
    /\ UNCHANGED <<log, committed, owner>>

\* commit(offsets), 0 where it names no offset; it raises, and the caller logs a
\* warning, when the worker no longer owns one of the partitions.
CommitOffsets(w, offsets) ==
    /\ committed' = IF \A p \in Partitions : offsets[p] > 0 => owner[p] = w
                    THEN [p \in Partitions |-> IF offsets[p] > 0 THEN offsets[p]
                                               ELSE committed[p]]
                    ELSE committed
    /\ UNCHANGED <<log, position, owner>>

\* commit() without offsets: everything fetched so far.
CommitPositions(w) ==
    /\ committed' = [p \in Partitions |->
                        IF owner[p] = w THEN position[p] ELSE committed[p]]
    /\ UNCHANGED <<log, position, owner>>

\* The group gives the partition to w, who starts at the committed offset.
AssignTo(p, w) ==
    /\ owner' = [owner EXCEPT ![p] = w]
    /\ position' = [position EXCEPT ![p] = committed[p]]
    /\ UNCHANGED <<log, committed>>

\* A member leaves: its partitions wait for an owner.
LeaveGroup(w) ==
    /\ owner' = [p \in Partitions |-> IF owner[p] = w THEN None ELSE owner[p]]
    /\ position' = [p \in Partitions |->
                        IF owner[p] = w THEN committed[p] ELSE position[p]]
    /\ UNCHANGED <<log, committed>>
=============================================================================
