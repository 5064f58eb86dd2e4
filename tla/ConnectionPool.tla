--------------------------- MODULE ConnectionPool ---------------------------
(***************************************************************************)
(* The engine's MySQL connection pool (connection_pool.py), one pool of    *)
(* it: the threads of concurrent workflows borrow connections through      *)
(* get_connection while the clean-up thread closes idle and broken ones.   *)
(* The pool's lock guards the counter current_connections; the queue and   *)
(* the map of wrappers are used with and without it.                       *)
(***************************************************************************)
EXTENDS Integers, Sequences, FiniteSets

CONSTANTS Conns,           \* bounds the connections that exist at one time
          Borrowers,       \* threads that use the pool
          Cleaner,         \* the clean-up thread
          Nobody,
          MinConnections, MaxConnections,
          MaxDrops,        \* bounds the connections the server drops
          ConnectFails     \* whether connecting to the server may fail

ASSUME PoolAssumption ==
    /\ Cleaner \notin Borrowers /\ Nobody \notin Borrowers \cup {Cleaner} \cup Conns
    /\ MinConnections \in Nat /\ MaxConnections \in Nat
    /\ MinConnections <= MaxConnections /\ MaxConnections > 0
    /\ MaxDrops \in Nat
    /\ ConnectFails \in BOOLEAN

VARIABLES
    queue,     \* the pool's Queue of idle connections
    current,   \* current_connections
    wrapped,   \* keys of the map of ConnectionWrappers
    health,    \* per connection: open, dropped by the server, or closed by us
    lock,      \* who holds the pool's lock
    borrower,  \* per thread: where it is in get_connection, its `connection',
               \* and whether its `wrapper' is one
    cleaner,   \* the clean-up thread, and its temp_connections
    drops

vars == <<queue, current, wrapped, health, lock, borrower, cleaner, drops>>

\* Stages with no connection in hand, and those with one.
EmptyHanded == {"idle", "locking", "creating", "waiting"}
Holding == {"checking", "uncounting", "recreating", "counting", "using",
            "returning", "shedding"}
CleanerStages == {"idle", "cleaning", "testing", "refilling", "restoring"}

Thread ==
    {r \in [at : EmptyHanded \cup Holding, conn : Conns \cup {Nobody}, wrapper : BOOLEAN] :
        r.conn = Nobody <=> r.at \in EmptyHanded}

TypeOK ==
    /\ queue \in Seq(Conns)
    /\ current \in Int
    /\ wrapped \in SUBSET Conns
    /\ health \in [Conns -> {"open", "broken", "closed"}]
    /\ lock \in Borrowers \cup {Cleaner, Nobody}
    /\ borrower \in [Borrowers -> Thread]
    /\ cleaner \in [at : CleanerStages, keep : Seq(Conns)]
    /\ drops \in 0..MaxDrops

Members(q) == {q[i] : i \in DOMAIN q}
Held == {borrower[b].conn : b \in Borrowers} \ {Nobody}

\* Objects no thread can reach; a new connection is one of them.
Fresh == Conns \ (Members(queue) \cup Members(cleaner.keep) \cup wrapped \cup Held)

Idle == [at |-> "idle", conn |-> Nobody, wrapper |-> FALSE]

\* The pool as create_pool leaves it: with min_connections connections, or
\* fewer when connecting failed.
Init ==
    /\ \E k \in 0..MinConnections :
          /\ k = MinConnections \/ ConnectFails
          /\ queue \in {q \in [1..k -> Conns] : Cardinality(Members(q)) = k}
          /\ current = k
    /\ wrapped = Members(queue)
    /\ health = [c \in Conns |-> IF c \in wrapped THEN "open" ELSE "closed"]
    /\ lock = Nobody
    /\ borrower = [b \in Borrowers |-> Idle]
    /\ cleaner = [at |-> "idle", keep |-> <<>>]
    /\ drops = 0

-----------------------------------------------------------------------------
(* get_connection *)

Goto(b, stage) == borrower' = [borrower EXCEPT ![b].at = stage]

\* The oldest idle connection, and its wrapper if it still has one.
Take(b) ==
    /\ queue # <<>>
    /\ queue' = Tail(queue)
    /\ borrower' = [borrower EXCEPT ![b] = [at |-> "checking", conn |-> Head(queue),
                                            wrapper |-> Head(queue) \in wrapped]]
    /\ UNCHANGED <<current, wrapped, health, lock, cleaner, drops>>

\* A new connection, with a wrapper in the map.
Connect(c) ==
    /\ c \in Fresh
    /\ health' = [health EXCEPT ![c] = "open"]
    /\ wrapped' = wrapped \cup {c}

\* The first get_nowait, without the lock.
GetNow(b) == borrower[b].at = "idle" /\ Take(b)

GetEmpty(b) ==
    /\ borrower[b].at = "idle"
    /\ queue = <<>>
    /\ Goto(b, "locking")
    /\ UNCHANGED <<queue, current, wrapped, health, lock, cleaner, drops>>

\* The second get_nowait, with the lock, which is released again.
LockedGet(b) == borrower[b].at = "locking" /\ lock = Nobody /\ Take(b)

\* The capacity test off by one.
LockedGrowOneMore(b) ==
    /\ borrower[b].at = "locking"
    /\ lock = Nobody
    /\ queue = <<>>
    /\ current <= MaxConnections
    /\ lock' = b
    /\ Goto(b, "creating")
    /\ UNCHANGED <<queue, current, wrapped, health, cleaner, drops>>

\* Still empty, and below max_connections: connect, keeping the lock.
LockedGrow(b) ==
    /\ borrower[b].at = "locking"
    /\ lock = Nobody
    /\ queue = <<>>
    /\ current < MaxConnections
    /\ lock' = b
    /\ Goto(b, "creating")
    /\ UNCHANGED <<queue, current, wrapped, health, cleaner, drops>>

\* At max_connections: wait in queue.get(timeout).
LockedFull(b) ==
    /\ borrower[b].at = "locking"
    /\ lock = Nobody
    /\ queue = <<>>
    /\ current >= MaxConnections
    /\ Goto(b, "waiting")
    /\ UNCHANGED <<queue, current, wrapped, health, lock, cleaner, drops>>

\* The new connection is not counted.
CreateUncounted(b) ==
    /\ borrower[b].at = "creating"
    /\ \E c \in Conns :
          /\ Connect(c)
          /\ borrower' = [borrower EXCEPT ![b] =
                             [at |-> "checking", conn |-> c, wrapper |-> TRUE]]
    /\ lock' = Nobody
    /\ UNCHANGED <<queue, current, cleaner, drops>>

\* The connection is made, and counted in before the lock is released.
Create(b) ==
    /\ borrower[b].at = "creating"
    /\ \E c \in Conns :
          /\ Connect(c)
          /\ borrower' = [borrower EXCEPT ![b] =
                             [at |-> "checking", conn |-> c, wrapper |-> TRUE]]
    /\ current' = current + 1
    /\ lock' = Nobody
    /\ UNCHANGED <<queue, cleaner, drops>>

\* _create_connection raises: so does get_connection, with nothing to put back.
CreateFails(b) ==
    /\ ConnectFails
    /\ borrower[b].at = "creating"
    /\ lock' = Nobody
    /\ borrower' = [borrower EXCEPT ![b] = Idle]
    /\ UNCHANGED <<queue, current, wrapped, health, cleaner, drops>>

WaitGet(b) == borrower[b].at = "waiting" /\ Take(b)

\* queue.get's timeout: RuntimeError.
WaitTimeout(b) ==
    /\ borrower[b].at = "waiting"
    /\ queue = <<>>
    /\ borrower' = [borrower EXCEPT ![b] = Idle]
    /\ UNCHANGED <<queue, current, wrapped, health, lock, cleaner, drops>>

\* The caller's with-block runs without the ping.
CheckNothing(b) ==
    /\ borrower[b].at = "checking"
    /\ Goto(b, "using")
    /\ UNCHANGED <<queue, current, wrapped, health, lock, cleaner, drops>>

\* ping succeeds: the caller's with-block runs.
CheckValid(b) ==
    /\ borrower[b].at = "checking"
    /\ health[borrower[b].conn] = "open"
    /\ Goto(b, "using")
    /\ UNCHANGED <<queue, current, wrapped, health, lock, cleaner, drops>>

\* ping fails: the wrapper is deleted and the connection closed ...
CheckInvalid(b) ==
    /\ borrower[b].at = "checking"
    /\ health[borrower[b].conn] # "open"
    /\ wrapped' = wrapped \ {borrower[b].conn}
    /\ health' = [health EXCEPT ![borrower[b].conn] = "closed"]
    /\ Goto(b, "uncounting")
    /\ UNCHANGED <<queue, current, lock, cleaner, drops>>

\* ... it is counted out, with the lock ...
Uncount(b) ==
    /\ borrower[b].at = "uncounting"
    /\ lock = Nobody
    /\ current' = current - 1
    /\ Goto(b, "recreating")
    /\ UNCHANGED <<queue, wrapped, health, lock, cleaner, drops>>

\* ... replaced by a new one, without the lock and whatever the capacity ...
Recreate(b) ==
    /\ borrower[b].at = "recreating"
    /\ \E c \in Conns :
          /\ Connect(c)
          /\ borrower' = [borrower EXCEPT ![b] =
                             [at |-> "counting", conn |-> c, wrapper |-> TRUE]]
    /\ UNCHANGED <<queue, current, lock, cleaner, drops>>

\* ... which is counted in, with the lock.
CountIn(b) ==
    /\ borrower[b].at = "counting"
    /\ lock = Nobody
    /\ current' = current + 1
    /\ Goto(b, "using")
    /\ UNCHANGED <<queue, wrapped, health, lock, cleaner, drops>>

\* Connecting anew raises: `connection' and `wrapper' are still the old ones, so
\* the finally block puts the closed connection back, unless it had no wrapper.
RecreateFails(b) ==
    /\ ConnectFails
    /\ borrower[b].at = "recreating"
    /\ borrower' = [borrower EXCEPT ![b] =
                       IF borrower[b].wrapper THEN [@ EXCEPT !.at = "returning"] ELSE Idle]
    /\ UNCHANGED <<queue, current, wrapped, health, lock, cleaner, drops>>

\* Both the handler of an exception and the finally block put it back.
PutBackTwice(b) ==
    /\ borrower[b].at \in {"using", "returning"}
    /\ Len(queue) < MaxConnections
    /\ queue' = queue \o <<borrower[b].conn, borrower[b].conn>>
    /\ borrower' = [borrower EXCEPT ![b] = Idle]
    /\ UNCHANGED <<current, wrapped, health, lock, cleaner, drops>>

\* The with-block ends, by an exception or not: queue.put.
PutBack(b) ==
    /\ borrower[b].at \in {"using", "returning"}
    /\ Len(queue) < MaxConnections
    /\ queue' = Append(queue, borrower[b].conn)
    /\ borrower' = [borrower EXCEPT ![b] = Idle]
    /\ UNCHANGED <<current, wrapped, health, lock, cleaner, drops>>

\* The queue stays full for a second: the connection is closed ...
PutFull(b) ==
    /\ borrower[b].at \in {"using", "returning"}
    /\ Len(queue) >= MaxConnections
    /\ wrapped' = wrapped \ {borrower[b].conn}
    /\ health' = [health EXCEPT ![borrower[b].conn] = "closed"]
    /\ Goto(b, "shedding")
    /\ UNCHANGED <<queue, current, lock, cleaner, drops>>

\* ... and counted out.
Shed(b) ==
    /\ borrower[b].at = "shedding"
    /\ lock = Nobody
    /\ current' = current - 1
    /\ borrower' = [borrower EXCEPT ![b] = Idle]
    /\ UNCHANGED <<queue, wrapped, health, lock, cleaner, drops>>

-----------------------------------------------------------------------------
(* The clean-up thread: _cleanup_pool_connections and _health_check_pool   *)

\* Either one begins, with the lock until its last connection is put back.
CleanerBegins(stage) ==
    /\ cleaner.at = "idle"
    /\ lock = Nobody
    /\ stage \in {"cleaning", "testing"}
    /\ lock' = Cleaner
    /\ cleaner' = [at |-> stage, keep |-> <<>>]
    /\ UNCHANGED <<queue, current, wrapped, health, borrower, drops>>

\* get_nowait, and the connection joins temp_connections: of a clean-up one that
\* is not idle or has no wrapper, of a health check one that answers ping.
CleanerKeeps ==
    /\ queue # <<>>
    /\ \/ cleaner.at = "cleaning"
       \/ cleaner.at = "testing" /\ health[Head(queue)] = "open"
    /\ queue' = Tail(queue)
    /\ cleaner' = [cleaner EXCEPT !.keep = Append(@, Head(queue))]
    /\ UNCHANGED <<current, wrapped, health, lock, borrower, drops>>

\* Closing the oldest idle connection, counted out.
CloseHead ==
    /\ queue' = Tail(queue)
    /\ wrapped' = wrapped \ {Head(queue)}
    /\ health' = [health EXCEPT ![Head(queue)] = "closed"]
    /\ current' = current - 1
    /\ UNCHANGED <<lock, borrower, cleaner, drops>>

\* The clean-up forgets to leave min_connections.
CleanIdleAll ==
    /\ cleaner.at = "cleaning"
    /\ queue # <<>>
    /\ Head(queue) \in wrapped
    /\ CloseHead

\* The clean-up closes one that was borrowed longer ago than idle_timeout.
CleanIdle ==
    /\ cleaner.at = "cleaning"
    /\ queue # <<>>
    /\ Head(queue) \in wrapped
    /\ current > MinConnections
    /\ CloseHead

\* The health check closes one that the server dropped.
TestBroken ==
    /\ cleaner.at = "testing"
    /\ queue # <<>>
    /\ health[Head(queue)] = "broken"
    /\ CloseHead

\* It drops one closed already: a second close() raises, and the handler skips
\* the count.
TestClosed ==
    /\ cleaner.at = "testing"
    /\ queue # <<>>
    /\ health[Head(queue)] = "closed"
    /\ queue' = Tail(queue)
    /\ UNCHANGED <<current, wrapped, health, lock, borrower, cleaner, drops>>

\* The queue is drained.
CleanerDrained ==
    /\ cleaner.at \in {"cleaning", "testing"}
    /\ queue = <<>>
    /\ cleaner' = [cleaner EXCEPT !.at = IF @ = "testing" THEN "refilling"
                                                          ELSE "restoring"]
    /\ UNCHANGED <<queue, current, wrapped, health, lock, borrower, drops>>

\* The health check connects anew until min_connections is reached ...
Refill ==
    /\ cleaner.at = "refilling"
    /\ current < MinConnections
    /\ \E c \in Conns :
          /\ Connect(c)
          /\ cleaner' = [cleaner EXCEPT !.keep = Append(@, c)]
    /\ current' = current + 1
    /\ UNCHANGED <<queue, lock, borrower, drops>>

\* ... or connecting fails.
RefillEnds ==
    /\ cleaner.at = "refilling"
    /\ current >= MinConnections \/ ConnectFails
    /\ cleaner' = [cleaner EXCEPT !.at = "restoring"]
    /\ UNCHANGED <<queue, current, wrapped, health, lock, borrower, drops>>

\* put_nowait of the next kept connection; one that finds the queue full is lost,
\* neither closed nor counted out.
Restore ==
    /\ cleaner.at = "restoring"
    /\ cleaner.keep # <<>>
    /\ queue' = IF Len(queue) < MaxConnections THEN Append(queue, Head(cleaner.keep))
                                               ELSE queue
    /\ cleaner' = [cleaner EXCEPT !.keep = Tail(@)]
    /\ UNCHANGED <<current, wrapped, health, lock, borrower, drops>>

CleanerEnds ==
    /\ cleaner.at = "restoring"
    /\ cleaner.keep = <<>>
    /\ lock' = Nobody
    /\ cleaner' = [cleaner EXCEPT !.at = "idle"]
    /\ UNCHANGED <<queue, current, wrapped, health, borrower, drops>>

-----------------------------------------------------------------------------
\* The server drops a connection: its timeout, a restart, the network.
Drop(c) ==
    /\ drops < MaxDrops
    /\ health[c] = "open"
    /\ health' = [health EXCEPT ![c] = "broken"]
    /\ drops' = drops + 1
    /\ UNCHANGED <<queue, current, wrapped, lock, borrower, cleaner>>

Starts(b) == GetNow(b) \/ GetEmpty(b)

Proceeds(b) ==
    \/ LockedGet(b) \/ LockedGrow(b) \/ LockedFull(b)
    \/ Create(b) \/ CreateFails(b)
    \/ WaitGet(b)
    \/ CheckValid(b) \/ CheckInvalid(b)
    \/ Uncount(b) \/ Recreate(b) \/ CountIn(b) \/ RecreateFails(b)
    \/ PutBack(b) \/ PutFull(b) \/ Shed(b)

CleanerStep ==
    \/ CleanerKeeps
    \/ CleanIdle \/ TestBroken \/ TestClosed
    \/ CleanerDrained \/ Refill \/ RefillEnds
    \/ Restore \/ CleanerEnds

Next ==
    \/ \E b \in Borrowers : Starts(b) \/ Proceeds(b) \/ WaitTimeout(b)
    \/ \E stage \in {"cleaning", "testing"} : CleanerBegins(stage)
    \/ CleanerStep
    \/ \E c \in Conns : Drop(c)

Spec == Init /\ [][Next]_vars

\* Threads run and callers' blocks end; none is promised to come again, and no
\* timeout is relied upon.  Between rounds the clean-up sleeps 30 s, and
\* queue.put wakes a waiting thread: the rounds cannot always be first to take
\* a connection that is put back.
Fairness ==
    /\ \A b \in Borrowers : WF_vars(Proceeds(b))
    /\ WF_vars(CleanerStep)
    /\ SF_vars(\E b \in Borrowers : WaitGet(b))

FairSpec == Spec /\ Fairness

-----------------------------------------------------------------------------
Distinct(q) == \A i, j \in DOMAIN q : q[i] = q[j] => i = j

\* A connection is in one place: idle in the queue, set aside by the clean-up
\* thread, or lent to one borrower, although queue.get and queue.put do not take
\* the lock under which the clean-up empties and refills the queue.
LentOnce ==
    /\ Distinct(queue) /\ Distinct(cleaner.keep)
    /\ Members(queue) \cap Members(cleaner.keep) = {}
    /\ Held \cap (Members(queue) \cup Members(cleaner.keep)) = {}
    /\ \A a, b \in Borrowers : borrower[a].conn = borrower[b].conn
                                   => a = b \/ borrower[a].conn = Nobody

\* The pool never closes a connection under the caller that uses it.
InUseIsNotClosed ==
    \A b \in Borrowers : borrower[b].at = "using" => health[borrower[b].conn] # "closed"

\* Connections the pool has not closed.
Unclosed == {c \in Conns : health[c] # "closed"}

\* create_pool's documentation of max_connections: the greatest number of
\* connections.
AtMostMaxConnections == Cardinality(Unclosed) <= MaxConnections

\* Until the server drops a connection, there are never more of them than
\* max_connections, although threads and the clean-up count them in and out.
AtMostMaxUntilDrop == drops = 0 => AtMostMaxConnections

\* Until the server drops a connection, current_connections is the number of
\* connections whenever the lock is free.
CountIsExact == drops = 0 /\ lock = Nobody => current = Cardinality(Unclosed)

\* Threads that wait for a connection while nobody uses one do not wait for
\* queue.get's timeout: idle clean-ups leave a connection for them.  It takes a
\* server that drops none, and min_connections > 0.
PoolMakesProgress ==
    [](drops = 0) =>
        ((\E b \in Borrowers : borrower[b].at = "waiting")
            ~> \/ \A b \in Borrowers : borrower[b].at # "waiting"
               \/ \E b \in Borrowers : borrower[b].at = "using")
=============================================================================
