------------------------ MODULE ConnectionPoolProofs ------------------------
(***************************************************************************)
(* The connection pool for any threads, connections and limits: no         *)
(* connection is lent twice or closed under its user, and until the server *)
(* drops one the counter is exact and never above max_connections.         *)
(***************************************************************************)
EXTENDS ConnectionPool, FiniteSetTheorems, SequenceTheorems, TLAPS

-----------------------------------------------------------------------------
(* Sequences without repetition.                                           *)

LEMMA TailMembers ==
    ASSUME NEW S, NEW q \in Seq(S), q # << >>
    PROVE  /\ Head(q) \in S /\ Tail(q) \in Seq(S)
           /\ Members(q) = Members(Tail(q)) \cup {Head(q)}
           /\ Distinct(q) => Distinct(Tail(q)) /\ Head(q) \notin Members(Tail(q))
  <1>1. /\ Head(q) \in S /\ Tail(q) \in Seq(S) /\ Len(Tail(q)) = Len(q) - 1
        /\ \A i \in 1 .. Len(Tail(q)) : Tail(q)[i] = q[i + 1]
    BY HeadTailProperties
  <1>2. Len(q) \in Nat /\ Len(q) > 0 /\ DOMAIN q = 1 .. Len(q) /\ Head(q) = q[1]
    OBVIOUS
  <1>3. DOMAIN Tail(q) = 1 .. Len(q) - 1
    BY <1>1, <1>2
  <1>4. \A i \in DOMAIN q : i = 1 \/ (i - 1 \in DOMAIN Tail(q) /\ q[i] = Tail(q)[i - 1])
    BY <1>1, <1>2, <1>3
  <1>5. \A i \in DOMAIN Tail(q) : i + 1 \in DOMAIN q /\ i + 1 # 1 /\ Tail(q)[i] = q[i + 1]
    BY <1>1, <1>2, <1>3
  <1>6. Members(q) = Members(Tail(q)) \cup {Head(q)}
    <2>1. ASSUME NEW c \in Members(q) PROVE c \in Members(Tail(q)) \cup {Head(q)}
      <3>1. PICK i \in DOMAIN q : c = q[i]
        BY DEF Members
      <3>. QED
        BY <1>2, <1>4, <3>1 DEF Members
    <2>2. ASSUME NEW c \in Members(Tail(q)) PROVE c \in Members(q)
      BY <1>5 DEF Members
    <2>3. Head(q) \in Members(q)
      BY <1>2 DEF Members
    <2>. QED
      BY <2>1, <2>2, <2>3
  <1>7. ASSUME Distinct(q) PROVE Distinct(Tail(q))
    <2>. SUFFICES ASSUME NEW i \in DOMAIN Tail(q), NEW j \in DOMAIN Tail(q), Tail(q)[i] = Tail(q)[j]
                  PROVE  i = j
      BY DEF Distinct
    <2>1. i + 1 = j + 1
      BY <1>5, <1>7 DEF Distinct
    <2>. QED
      BY <1>3, <2>1
  <1>8. ASSUME Distinct(q) PROVE Head(q) \notin Members(Tail(q))
    BY <1>2, <1>5, <1>8 DEF Distinct, Members
  <1>. QED
    BY <1>1, <1>6, <1>7, <1>8

LEMMA AppendMembers ==
    ASSUME NEW S, NEW q \in Seq(S), NEW c \in S
    PROVE  /\ Append(q, c) \in Seq(S)
           /\ Members(Append(q, c)) = Members(q) \cup {c}
           /\ Distinct(q) /\ c \notin Members(q) => Distinct(Append(q, c))
  <1>1. /\ Append(q, c) \in Seq(S) /\ Len(Append(q, c)) = Len(q) + 1
        /\ \A i \in 1 .. Len(q) : Append(q, c)[i] = q[i]
        /\ Append(q, c)[Len(q) + 1] = c
    BY AppendProperties
  <1>2. Len(q) \in Nat /\ DOMAIN q = 1 .. Len(q) /\ DOMAIN Append(q, c) = 1 .. Len(q) + 1
    BY <1>1
  <1>3. \A i \in DOMAIN Append(q, c) : i \in DOMAIN q \/ i = Len(q) + 1
    BY <1>2
  <1>. QED
    BY <1>1, <1>2, <1>3 DEF Members, Distinct

LEMMA MembersCount ==
    ASSUME NEW S, NEW q \in Seq(S), Distinct(q)
    PROVE  IsFiniteSet(Members(q)) /\ Cardinality(Members(q)) = Len(q)
  <1>1. Len(q) \in Nat /\ DOMAIN q = 1 .. Len(q) /\ q \in [1 .. Len(q) -> Members(q)]
    BY DEF Members
  <1>2. q \in Bijection(1 .. Len(q), Members(q))
    BY <1>1 DEF Bijection, Injection, Surjection, IsInjective, Distinct, Members
  <1>3. ExistsBijection(1 .. Len(q), Members(q))
    BY <1>2 DEF ExistsBijection
  <1>. QED
    BY <1>1, <1>3, FS_CountingElements, FS_NatBijection

\* create_pool's connections are different ones.
LEMMA CountedDistinct ==
    ASSUME NEW k \in Nat, NEW q \in [1 .. k -> Conns], Cardinality(Members(q)) = k
    PROVE  q \in Seq(Conns) /\ Len(q) = k /\ Distinct(q)
  <1>1. q \in Seq(Conns) /\ Len(q) = k /\ DOMAIN q = 1 .. k
    OBVIOUS
  <1>2. q \in Surjection(1 .. k, Members(q))
    BY <1>1 DEF Surjection, Members
  <1>3. IsFiniteSet(1 .. k) /\ Cardinality(1 .. k) = k
    BY FS_Interval
  <1>4. q \in Injection(1 .. k, Members(q))
    BY <1>2, <1>3, FS_SurjSameCardinalityImpliesInj
  <1>. QED
    BY <1>1, <1>4 DEF Injection, IsInjective, Distinct

-----------------------------------------------------------------------------
(* Types.                                                                  *)

LEMMA InitType ==
    ASSUME Init
    PROVE  TypeOK /\ Distinct(queue)
  <1>1. PICK k \in 0 .. MinConnections :
            /\ queue \in {q \in [1 .. k -> Conns] : Cardinality(Members(q)) = k}
            /\ current = k
    BY DEF Init
  <1>2. k \in Nat
    BY <1>1, PoolAssumption
  <1>3. queue \in Seq(Conns) /\ Distinct(queue)
    BY <1>1, <1>2, CountedDistinct
  <1>4. wrapped \in SUBSET Conns
    BY <1>3 DEF Init, Members
  <1>5. Idle \in Thread
    BY DEF Idle, Thread, EmptyHanded, Holding
  <1>6. [at |-> "idle", keep |-> << >>] \in [at : CleanerStages, keep : Seq(Conns)]
    BY DEF CleanerStages
  <1>. QED
    BY <1>1, <1>2, <1>3, <1>4, <1>5, <1>6, PoolAssumption DEF Init, TypeOK

\* A thread that goes to a stage of the same kind keeps its connection.
LEMMA GotoType ==
    ASSUME TypeOK, NEW b \in Borrowers, NEW stage, Goto(b, stage),
           \/ stage \in EmptyHanded /\ borrower[b].at \in EmptyHanded
           \/ stage \in Holding /\ borrower[b].at \in Holding
    PROVE  borrower' \in [Borrowers -> Thread]
  <1>1. borrower[b] \in Thread
    BY DEF TypeOK
  <1>2. [borrower[b] EXCEPT !.at = stage] \in Thread
    BY <1>1 DEF Thread, EmptyHanded, Holding
  <1>. QED
    BY <1>2 DEF TypeOK, Goto

\* A thread that takes hold of a connection, or lets go of it.
LEMMA ThreadType ==
    /\ Idle \in Thread
    /\ \A stage \in Holding, c \in Conns, w \in BOOLEAN :
          [at |-> stage, conn |-> c, wrapper |-> w] \in Thread
  BY PoolAssumption DEF Idle, Thread, EmptyHanded, Holding

LEMMA TypeStep ==
    ASSUME TypeOK, [Next]_vars
    PROVE  TypeOK'
  <1>0. "checking" \in Holding /\ "counting" \in Holding /\ "using" \in Holding
    BY DEF Holding
  <1>1. ASSUME UNCHANGED vars PROVE TypeOK'
    BY <1>1 DEF TypeOK, vars
  <1>2. ASSUME NEW b \in Borrowers, Take(b) PROVE TypeOK'
    <2>1. Head(queue) \in Conns /\ Tail(queue) \in Seq(Conns)
      BY <1>2, TailMembers DEF Take, TypeOK
    <2>2. [at |-> "checking", conn |-> Head(queue), wrapper |-> Head(queue) \in wrapped] \in Thread
      <3>1. Head(queue) # Nobody
        BY <2>1, PoolAssumption
      <3>. QED
        BY <2>1, <3>1 DEF Thread, EmptyHanded, Holding
    <2>. QED
      BY <1>2, <2>1, <2>2 DEF Take, TypeOK
  <1>3. ASSUME NEW b \in Borrowers, GetEmpty(b) \/ LockedGrow(b) \/ LockedFull(b) PROVE TypeOK'
    <2>1. borrower' \in [Borrowers -> Thread]
      BY <1>3, GotoType DEF GetEmpty, LockedGrow, LockedFull, EmptyHanded
    <2>. QED
      BY <1>3, <2>1 DEF GetEmpty, LockedGrow, LockedFull, TypeOK
  <1>4. ASSUME NEW b \in Borrowers, CheckValid(b) \/ CheckInvalid(b) \/ Uncount(b) \/ CountIn(b)
                                       \/ PutFull(b)
        PROVE  TypeOK'
    <2>1. borrower' \in [Borrowers -> Thread]
      BY <1>4, GotoType DEF CheckValid, CheckInvalid, Uncount, CountIn, PutFull, Holding
    <2>. QED
      BY <1>4, <2>1 DEF CheckValid, CheckInvalid, Uncount, CountIn, PutFull, TypeOK
  <1>5. ASSUME NEW b \in Borrowers, NEW c \in Conns, NEW stage \in Holding, Connect(c),
               borrower' = [borrower EXCEPT ![b] = [at |-> stage, conn |-> c, wrapper |-> TRUE]],
               UNCHANGED <<queue, cleaner, drops>>, current' \in Int,
               lock' \in Borrowers \cup {Cleaner, Nobody}
        PROVE  TypeOK'
    <2>1. borrower' \in [Borrowers -> Thread]
      BY <1>5, ThreadType DEF TypeOK
    <2>. QED
      BY <1>5, <2>1 DEF Connect, TypeOK
  <1>6. ASSUME NEW b \in Borrowers, Create(b) \/ Recreate(b) PROVE TypeOK'
    <2>1. CASE Create(b)
      <3>1. current' \in Int /\ lock' \in Borrowers \cup {Cleaner, Nobody}
        BY <2>1 DEF Create, TypeOK
      <3>2. UNCHANGED <<queue, cleaner, drops>>
        BY <2>1 DEF Create
      <3>3. PICK c \in Conns : /\ Connect(c)
                              /\ borrower' = [borrower EXCEPT ![b] =
                                     [at |-> "checking", conn |-> c, wrapper |-> TRUE]]
        BY <2>1 DEF Create
      <3>. QED
        BY <1>0, <1>5, <3>1, <3>2, <3>3
    <2>2. CASE Recreate(b)
      BY <1>0, <1>5, <2>2 DEF Recreate, TypeOK
    <2>. QED
      BY <1>6, <2>1, <2>2
  <1>7. ASSUME NEW b \in Borrowers, CreateFails(b) \/ WaitTimeout(b) \/ Shed(b) PROVE TypeOK'
    BY <1>7, ThreadType DEF CreateFails, WaitTimeout, Shed, TypeOK
  <1>8. ASSUME NEW b \in Borrowers, RecreateFails(b) PROVE TypeOK'
    <2>1. borrower[b] \in Thread /\ borrower[b].at \in Holding
      BY <1>8 DEF RecreateFails, TypeOK, Holding
    <2>2. [borrower[b] EXCEPT !.at = "returning"] \in Thread
      BY <2>1 DEF Thread, EmptyHanded, Holding
    <2>. QED
      BY <1>8, <2>2, ThreadType DEF RecreateFails, TypeOK
  <1>9. ASSUME NEW b \in Borrowers, PutBack(b) PROVE TypeOK'
    <2>1. borrower[b] \in Thread /\ borrower[b].conn \in Conns
      BY <1>9 DEF PutBack, TypeOK, Thread, EmptyHanded
    <2>. QED
      BY <1>9, <2>1, ThreadType, AppendMembers DEF PutBack, TypeOK
  <1>10. ASSUME NEW stage \in {"cleaning", "testing"}, CleanerBegins(stage) PROVE TypeOK'
    BY <1>10 DEF CleanerBegins, TypeOK, CleanerStages
  <1>11. CASE CleanerKeeps \/ TestClosed
    <2>1. Head(queue) \in Conns /\ Tail(queue) \in Seq(Conns)
      BY <1>11, TailMembers DEF CleanerKeeps, TestClosed, TypeOK
    <2>2. Append(cleaner.keep, Head(queue)) \in Seq(Conns)
      BY <2>1, AppendMembers DEF TypeOK
    <2>. QED
      BY <1>11, <2>1, <2>2 DEF CleanerKeeps, TestClosed, TypeOK
  <1>12. CASE CleanIdle \/ TestBroken
    <2>1. Head(queue) \in Conns /\ Tail(queue) \in Seq(Conns)
      BY <1>12, TailMembers DEF CleanIdle, TestBroken, TypeOK
    <2>2. CloseHead
      BY <1>12 DEF CleanIdle, TestBroken
    <2>. QED
      BY <2>1, <2>2 DEF CloseHead, TypeOK
  <1>13. CASE CleanerDrained \/ RefillEnds \/ CleanerEnds
    BY <1>13 DEF CleanerDrained, RefillEnds, CleanerEnds, TypeOK, CleanerStages
  <1>14. CASE Refill
    <2>1. PICK c \in Conns : Connect(c) /\ cleaner' = [cleaner EXCEPT !.keep = Append(@, c)]
      BY <1>14 DEF Refill
    <2>2. Append(cleaner.keep, c) \in Seq(Conns)
      BY AppendMembers DEF TypeOK
    <2>3. cleaner' \in [at : CleanerStages, keep : Seq(Conns)]
      BY <2>1, <2>2 DEF TypeOK
    <2>. QED
      BY <1>14, <2>1, <2>3 DEF Refill, Connect, TypeOK
  <1>15. CASE Restore
    <2>1. Head(cleaner.keep) \in Conns /\ Tail(cleaner.keep) \in Seq(Conns)
      BY <1>15, TailMembers DEF Restore, TypeOK
    <2>2. queue' \in Seq(Conns)
      BY <1>15, <2>1, AppendMembers DEF Restore, TypeOK
    <2>. QED
      BY <1>15, <2>1, <2>2 DEF Restore, TypeOK
  <1>16. ASSUME NEW c \in Conns, Drop(c) PROVE TypeOK'
    BY <1>16, PoolAssumption DEF Drop, TypeOK
  <1>. QED
    BY <1>1, <1>2, <1>3, <1>4, <1>6, <1>7, <1>8, <1>9, <1>10, <1>11, <1>12, <1>13, <1>14,
       <1>15, <1>16
       DEF Next, Starts, Proceeds, GetNow, LockedGet, WaitGet, CleanerStep

-----------------------------------------------------------------------------
(* The lock.                                                               *)

\* Between two steps the lock is held by a thread that connects, or by the
\* clean-up for a whole round; between rounds nothing is set aside.
LockInv ==
    /\ \A b \in Borrowers : borrower[b].at = "creating" => lock = b
    /\ cleaner.at # "idle" <=> lock = Cleaner
    /\ cleaner.at = "idle" => cleaner.keep = << >>

LEMMA LockStep ==
    ASSUME TypeOK, LockInv, [Next]_vars
    PROVE  LockInv'
  <1>0. borrower \in [Borrowers -> Thread] /\ cleaner \in [at : CleanerStages, keep : Seq(Conns)]
    BY DEF TypeOK
  <1>1. ASSUME UNCHANGED <<borrower, lock, cleaner>> PROVE LockInv'
    BY <1>1 DEF LockInv
  \* A thread that leaves the lock alone.
  <1>2. ASSUME NEW b \in Borrowers, UNCHANGED <<lock, cleaner>>,
               borrower'[b].at # "creating",
               \A a \in Borrowers \ {b} : borrower'[a] = borrower[a]
        PROVE  LockInv'
    BY <1>2 DEF LockInv
  <1>3. ASSUME NEW b \in Borrowers,
               \/ Take(b) \/ GetEmpty(b) \/ LockedFull(b) \/ WaitTimeout(b)
               \/ CheckValid(b) \/ CheckInvalid(b) \/ Uncount(b) \/ Recreate(b) \/ CountIn(b)
               \/ RecreateFails(b) \/ PutBack(b) \/ PutFull(b) \/ Shed(b)
        PROVE  LockInv'
    <2>1. /\ UNCHANGED <<lock, cleaner>>
          /\ \A a \in Borrowers \ {b} : borrower'[a] = borrower[a]
      BY <1>0, <1>3 DEF Take, GetEmpty, LockedFull, WaitTimeout, CheckValid, CheckInvalid,
                        Uncount, Recreate, CountIn, RecreateFails, PutBack, PutFull, Shed, Goto
    <2>2. CASE Take(b) \/ WaitTimeout(b) \/ Recreate(b) \/ PutBack(b) \/ Shed(b) \/ RecreateFails(b)
      <3>1. borrower'[b].at # "creating"
        BY <1>0, <2>2 DEF Take, WaitTimeout, Recreate, PutBack, Shed, RecreateFails, Idle, Thread
      <3>. QED
        BY <1>2, <2>1, <3>1
    <2>3. CASE GetEmpty(b) \/ LockedFull(b) \/ CheckValid(b) \/ CheckInvalid(b) \/ Uncount(b)
                 \/ CountIn(b) \/ PutFull(b)
      <3>1. borrower'[b].at # "creating"
        BY <1>0, <2>3 DEF GetEmpty, LockedFull, CheckValid, CheckInvalid, Uncount, CountIn,
                          PutFull, Goto, Thread
      <3>. QED
        BY <1>2, <2>1, <3>1
    <2>. QED
      BY <1>3, <2>2, <2>3
  <1>4. ASSUME NEW b \in Borrowers, LockedGrow(b) PROVE LockInv'
    <2>1. \A a \in Borrowers : a # b => borrower'[a] = borrower[a] /\ borrower[a].at # "creating"
      BY <1>0, <1>4, PoolAssumption DEF LockedGrow, Goto, LockInv
    <2>. QED
      BY <1>0, <1>4, <2>1, PoolAssumption DEF LockedGrow, LockInv
  <1>5. ASSUME NEW b \in Borrowers, Create(b) \/ CreateFails(b) PROVE LockInv'
    <2>1. lock = b /\ cleaner.at = "idle"
      BY <1>5, PoolAssumption DEF LockInv, Create, CreateFails
    <2>2. \A a \in Borrowers : borrower'[a].at # "creating"
      BY <1>0, <1>5, <2>1 DEF LockInv, Create, CreateFails, Idle
    <2>. QED
      BY <1>5, <2>1, <2>2, PoolAssumption DEF LockInv, Create, CreateFails
  <1>6. ASSUME NEW stage \in {"cleaning", "testing"}, CleanerBegins(stage) PROVE LockInv'
    BY <1>6, PoolAssumption DEF CleanerBegins, LockInv
  <1>7. CASE CleanerKeeps \/ CleanIdle \/ TestBroken \/ TestClosed \/ CleanerDrained
               \/ Refill \/ RefillEnds \/ Restore
    <2>1. cleaner.at # "idle" /\ UNCHANGED <<borrower, lock>>
      BY <1>7 DEF CleanerKeeps, CleanIdle, TestBroken, TestClosed, CloseHead, CleanerDrained,
                  Refill, RefillEnds, Restore
    <2>2. cleaner'.at # "idle"
      BY <1>0, <1>7 DEF CleanerKeeps, CleanIdle, TestBroken, TestClosed, CloseHead,
                        CleanerDrained, Refill, RefillEnds, Restore
    <2>. QED
      BY <2>1, <2>2 DEF LockInv
  <1>8. CASE CleanerEnds
    BY <1>0, <1>8, PoolAssumption DEF CleanerEnds, LockInv
  <1>9. ASSUME NEW c \in Conns, Drop(c) PROVE LockInv'
    BY <1>1, <1>9 DEF Drop
  <1>. QED
    BY <1>1, <1>3, <1>4, <1>5, <1>6, <1>7, <1>8, <1>9
       DEF Next, Starts, Proceeds, GetNow, LockedGet, WaitGet, CleanerStep, vars

-----------------------------------------------------------------------------
(* A connection is in one place.                                           *)

\* LentOnce, borrower by borrower.
OnePlace ==
    /\ Distinct(queue) /\ Distinct(cleaner.keep)
    /\ \A c \in Members(queue) : c \notin Members(cleaner.keep)
    /\ \A b \in Borrowers : borrower[b].conn \notin Members(queue) \cup Members(cleaner.keep)
    /\ \A a, b \in Borrowers :
          borrower[a].conn = borrower[b].conn => a = b \/ borrower[a].conn = Nobody

LEMMA OnePlaceIsLentOnce ==
    ASSUME TypeOK
    PROVE  LentOnce <=> OnePlace
  <1>1. Nobody \notin Members(queue) \cup Members(cleaner.keep)
    <2>1. ASSUME NEW q \in Seq(Conns) PROVE Members(q) \subseteq Conns
      BY DEF Members
    <2>. QED
      BY <2>1, PoolAssumption DEF TypeOK
  <1>. QED
    BY <1>1 DEF LentOnce, OnePlace, Held

\* What a step does with the connections: nothing, or it lends one, connects a
\* new one, or moves one between queue, clean-up and threads.
NothingLent ==
    /\ queue' = queue /\ cleaner'.keep = cleaner.keep
    /\ \A a \in Borrowers : borrower'[a].conn \in {borrower[a].conn, Nobody}

NewInHand(b) ==
    /\ queue' = queue /\ cleaner'.keep = cleaner.keep
    /\ borrower'[b].conn \in Fresh
    /\ \A a \in Borrowers \ {b} : borrower'[a].conn = borrower[a].conn

HeadInHand(b) ==
    /\ queue # << >> /\ queue' = Tail(queue) /\ cleaner'.keep = cleaner.keep
    /\ borrower'[b].conn = Head(queue)
    /\ \A a \in Borrowers \ {b} : borrower'[a].conn = borrower[a].conn

BackInQueue(b) ==
    /\ borrower[b].conn \in Conns
    /\ queue' = Append(queue, borrower[b].conn) /\ cleaner'.keep = cleaner.keep
    /\ borrower'[b].conn = Nobody
    /\ \A a \in Borrowers \ {b} : borrower'[a].conn = borrower[a].conn

HeadKept ==
    /\ queue # << >> /\ queue' = Tail(queue)
    /\ cleaner'.keep = Append(cleaner.keep, Head(queue))
    /\ UNCHANGED borrower

HeadDropped ==
    /\ queue # << >> /\ queue' = Tail(queue) /\ cleaner'.keep = cleaner.keep
    /\ UNCHANGED borrower

NewKept ==
    /\ queue' = queue
    /\ \E c \in Fresh : cleaner'.keep = Append(cleaner.keep, c)
    /\ UNCHANGED borrower

KeptRestored ==
    /\ cleaner.keep # << >> /\ cleaner'.keep = Tail(cleaner.keep)
    /\ queue' = Append(queue, Head(cleaner.keep)) \/ queue' = queue
    /\ UNCHANGED borrower

LEMMA Moves ==
    ASSUME TypeOK, LockInv, [Next]_vars
    PROVE  \/ NothingLent \/ HeadKept \/ HeadDropped \/ NewKept \/ KeptRestored
           \/ \E b \in Borrowers : NewInHand(b) \/ HeadInHand(b) \/ BackInQueue(b)
  <1>0. borrower \in [Borrowers -> Thread] /\ cleaner \in [at : CleanerStages, keep : Seq(Conns)]
    BY DEF TypeOK
  <1>1. CASE UNCHANGED vars
    BY <1>1 DEF vars, NothingLent
  <1>2. ASSUME NEW b \in Borrowers, Take(b) PROVE HeadInHand(b)
    BY <1>0, <1>2 DEF Take, HeadInHand
  <1>3. ASSUME NEW b \in Borrowers, NEW stage, Goto(b, stage), UNCHANGED <<queue, cleaner>>
        PROVE  NothingLent
    <2>1. \A a \in Borrowers : borrower'[a].conn = borrower[a].conn
      BY <1>0, <1>3 DEF Goto, Thread
    <2>. QED
      BY <1>3, <2>1 DEF NothingLent
  <1>4. ASSUME NEW b \in Borrowers,
               \/ GetEmpty(b) \/ LockedGrow(b) \/ LockedFull(b) \/ CheckValid(b)
               \/ CheckInvalid(b) \/ Uncount(b) \/ CountIn(b) \/ PutFull(b)
        PROVE  NothingLent
    BY <1>3, <1>4 DEF GetEmpty, LockedGrow, LockedFull, CheckValid, CheckInvalid, Uncount,
                      CountIn, PutFull
  <1>5. ASSUME NEW b \in Borrowers, Create(b) \/ Recreate(b) PROVE NewInHand(b)
    BY <1>0, <1>5 DEF Create, Recreate, Connect, NewInHand
  <1>6. ASSUME NEW b \in Borrowers,
               CreateFails(b) \/ WaitTimeout(b) \/ Shed(b) \/ RecreateFails(b)
        PROVE  NothingLent
    <2>1. borrower' = [borrower EXCEPT ![b] = Idle]
             \/ borrower' = [borrower EXCEPT ![b] = [@ EXCEPT !.at = "returning"]]
      BY <1>6 DEF CreateFails, WaitTimeout, Shed, RecreateFails
    <2>2. \A a \in Borrowers : borrower'[a].conn \in {borrower[a].conn, Nobody}
      BY <1>0, <2>1 DEF Idle, Thread
    <2>3. UNCHANGED <<queue, cleaner>>
      BY <1>6 DEF CreateFails, WaitTimeout, Shed, RecreateFails
    <2>. QED
      BY <2>2, <2>3 DEF NothingLent
  <1>7. ASSUME NEW b \in Borrowers, PutBack(b) PROVE BackInQueue(b)
    <2>1. borrower[b].conn \in Conns
      BY <1>0, <1>7 DEF PutBack, Thread, EmptyHanded
    <2>. QED
      BY <1>0, <1>7, <2>1 DEF PutBack, BackInQueue, Idle
  <1>8. ASSUME NEW stage, CleanerBegins(stage) PROVE NothingLent
    BY <1>8 DEF CleanerBegins, NothingLent, LockInv
  <1>9. CASE CleanerKeeps
    BY <1>0, <1>9 DEF CleanerKeeps, HeadKept
  <1>10. CASE CleanIdle \/ TestBroken \/ TestClosed
    BY <1>10 DEF CleanIdle, TestBroken, TestClosed, CloseHead, HeadDropped
  <1>11. CASE CleanerDrained \/ RefillEnds \/ CleanerEnds
    BY <1>0, <1>11 DEF CleanerDrained, RefillEnds, CleanerEnds, NothingLent
  <1>12. CASE Refill
    BY <1>0, <1>12 DEF Refill, Connect, NewKept
  <1>13. CASE Restore
    BY <1>0, <1>13 DEF Restore, KeptRestored
  <1>14. ASSUME NEW c \in Conns, Drop(c) PROVE NothingLent
    BY <1>14 DEF Drop, NothingLent
  <1>. QED
    BY <1>1, <1>2, <1>4, <1>5, <1>6, <1>7, <1>8, <1>9, <1>10, <1>11, <1>12, <1>13, <1>14
       DEF Next, Starts, Proceeds, GetNow, LockedGet, WaitGet, CleanerStep

LEMMA OnePlaceStep ==
    ASSUME TypeOK, TypeOK', LockInv, OnePlace, [Next]_vars
    PROVE  OnePlace'
  <1>0. queue \in Seq(Conns) /\ cleaner.keep \in Seq(Conns) /\ Nobody \notin Conns
    BY PoolAssumption DEF TypeOK
  <1>1. Nobody \notin Members(queue)' \cup Members(cleaner.keep)'
    <2>1. ASSUME NEW q \in Seq(Conns) PROVE Members(q) \subseteq Conns
      BY DEF Members
    <2>. QED
      BY <1>0, <2>1 DEF TypeOK
  <1>2. CASE NothingLent
    <2>1. ASSUME NEW a \in Borrowers, NEW b \in Borrowers, borrower'[a].conn = borrower'[b].conn
          PROVE  a = b \/ borrower'[a].conn = Nobody
      BY <1>2, <2>1 DEF NothingLent, OnePlace
    <2>. QED
      BY <1>1, <1>2, <2>1 DEF NothingLent, OnePlace
  <1>3. ASSUME NEW b \in Borrowers, NewInHand(b) PROVE OnePlace'
    <2>1. /\ borrower'[b].conn \in Conns
          /\ borrower'[b].conn \notin Members(queue) \cup Members(cleaner.keep)
          /\ \A a \in Borrowers : borrower[a].conn # borrower'[b].conn
      BY <1>0, <1>3 DEF NewInHand, Fresh, Held
    <2>. QED
      BY <1>3, <2>1 DEF NewInHand, OnePlace
  <1>4. ASSUME NEW b \in Borrowers, HeadInHand(b) PROVE OnePlace'
    <2>1. /\ Members(queue) = Members(Tail(queue)) \cup {Head(queue)}
          /\ Distinct(Tail(queue)) /\ Head(queue) \notin Members(Tail(queue))
      BY <1>0, <1>4, TailMembers DEF HeadInHand, OnePlace
    <2>2. Distinct(queue)' /\ Members(queue)' = Members(Tail(queue))
      BY <1>4, <2>1 DEF HeadInHand
    <2>3. Distinct(cleaner.keep)' /\ Members(cleaner.keep)' = Members(cleaner.keep)
      BY <1>4 DEF HeadInHand, OnePlace
    <2>4. borrower'[b].conn = Head(queue)
          /\ \A a \in Borrowers \ {b} : borrower'[a].conn = borrower[a].conn
      BY <1>4 DEF HeadInHand
    <2>5. \A a \in Borrowers \ {b} : borrower[a].conn # Head(queue)
      BY <2>1 DEF OnePlace
    <2>6. \A a, d \in Borrowers :
              borrower'[a].conn = borrower'[d].conn => a = d \/ borrower'[a].conn = Nobody
      BY <2>4, <2>5 DEF OnePlace
    <2>7. \A a \in Borrowers : borrower'[a].conn \notin Members(Tail(queue)) \cup Members(cleaner.keep)
      BY <2>1, <2>4 DEF OnePlace
    <2>8. \A c \in Members(Tail(queue)) : c \notin Members(cleaner.keep)
      BY <2>1 DEF OnePlace
    <2>. QED
      BY <2>2, <2>3, <2>6, <2>7, <2>8 DEF OnePlace
  <1>5. ASSUME NEW b \in Borrowers, BackInQueue(b) PROVE OnePlace'
    <2>. DEFINE c == borrower[b].conn
    <2>1. /\ c \in Conns /\ c # Nobody /\ c \notin Members(queue) \cup Members(cleaner.keep)
          /\ \A a \in Borrowers \ {b} : borrower[a].conn # c
      BY <1>0, <1>5 DEF BackInQueue, OnePlace
    <2>2. Members(queue)' = Members(queue) \cup {c} /\ Distinct(queue)'
      BY <1>0, <1>5, <2>1, AppendMembers DEF BackInQueue, OnePlace
    <2>3. Distinct(cleaner.keep)' /\ Members(cleaner.keep)' = Members(cleaner.keep)
      BY <1>5 DEF BackInQueue, OnePlace
    <2>4. borrower'[b].conn = Nobody
          /\ \A a \in Borrowers \ {b} : borrower'[a].conn = borrower[a].conn
      BY <1>5 DEF BackInQueue
    <2>5. \A a, d \in Borrowers :
              borrower'[a].conn = borrower'[d].conn => a = d \/ borrower'[a].conn = Nobody
      BY <2>4 DEF OnePlace
    <2>6. \A a \in Borrowers : borrower'[a].conn \notin Members(queue)' \cup Members(cleaner.keep)'
      BY <1>1, <2>1, <2>2, <2>3, <2>4 DEF OnePlace
    <2>7. \A d \in Members(queue)' : d \notin Members(cleaner.keep)'
      BY <2>1, <2>2, <2>3 DEF OnePlace
    <2>. QED
      BY <2>2, <2>3, <2>5, <2>6, <2>7 DEF OnePlace
  <1>6. CASE HeadKept
    <2>1. /\ Head(queue) \in Conns /\ Members(queue) = Members(Tail(queue)) \cup {Head(queue)}
          /\ Distinct(Tail(queue)) /\ Head(queue) \notin Members(Tail(queue))
      BY <1>0, <1>6, TailMembers DEF HeadKept, OnePlace
    <2>2. Head(queue) \notin Members(cleaner.keep)
      BY <2>1 DEF OnePlace
    <2>3. Distinct(queue)' /\ Members(queue)' = Members(Tail(queue))
      BY <1>6, <2>1 DEF HeadKept
    <2>4. Distinct(cleaner.keep)' /\ Members(cleaner.keep)' = Members(cleaner.keep) \cup {Head(queue)}
      BY <1>0, <1>6, <2>1, <2>2, AppendMembers DEF HeadKept, OnePlace
    <2>5. borrower' = borrower
      BY <1>6 DEF HeadKept
    <2>. QED
      BY <2>1, <2>3, <2>4, <2>5 DEF OnePlace
  <1>7. CASE HeadDropped
    <2>1. /\ Members(queue) = Members(Tail(queue)) \cup {Head(queue)} /\ Distinct(Tail(queue))
      BY <1>0, <1>7, TailMembers DEF HeadDropped, OnePlace
    <2>. QED
      BY <1>7, <2>1 DEF HeadDropped, OnePlace
  <1>8. CASE NewKept
    <2>1. PICK c \in Fresh : cleaner'.keep = Append(cleaner.keep, c)
      BY <1>8 DEF NewKept
    <2>2. /\ c \in Conns /\ c \notin Members(queue) \cup Members(cleaner.keep)
          /\ \A a \in Borrowers : borrower[a].conn # c
      BY <1>0 DEF Fresh, Held
    <2>3. Distinct(cleaner.keep)' /\ Members(cleaner.keep)' = Members(cleaner.keep) \cup {c}
      BY <1>0, <2>1, <2>2, AppendMembers DEF OnePlace
    <2>4. queue' = queue /\ borrower' = borrower
      BY <1>8 DEF NewKept
    <2>. QED
      BY <2>2, <2>3, <2>4 DEF OnePlace
  <1>9. CASE KeptRestored
    <2>1. /\ Head(cleaner.keep) \in Conns
          /\ Members(cleaner.keep) = Members(Tail(cleaner.keep)) \cup {Head(cleaner.keep)}
          /\ Distinct(Tail(cleaner.keep)) /\ Head(cleaner.keep) \notin Members(Tail(cleaner.keep))
      BY <1>0, <1>9, TailMembers DEF KeptRestored, OnePlace
    <2>2. Head(cleaner.keep) \notin Members(queue)
      BY <2>1 DEF OnePlace
    <2>3. Distinct(cleaner.keep)' /\ Members(cleaner.keep)' = Members(Tail(cleaner.keep))
      BY <1>9, <2>1 DEF KeptRestored
    <2>4. Distinct(queue)' /\ Members(queue)' \subseteq Members(queue) \cup {Head(cleaner.keep)}
      <3>1. /\ Members(Append(queue, Head(cleaner.keep))) = Members(queue) \cup {Head(cleaner.keep)}
            /\ Distinct(Append(queue, Head(cleaner.keep)))
        BY <1>0, <2>1, <2>2, AppendMembers DEF OnePlace
      <3>2. CASE queue' = queue
        BY <3>2 DEF OnePlace
      <3>3. CASE queue' = Append(queue, Head(cleaner.keep))
        BY <3>1, <3>3
      <3>. QED
        BY <1>9, <3>2, <3>3 DEF KeptRestored
    <2>5. borrower' = borrower
      BY <1>9 DEF KeptRestored
    <2>. QED
      BY <2>1, <2>3, <2>4, <2>5 DEF OnePlace
  <1>. QED
    BY <1>2, <1>3, <1>4, <1>5, <1>6, <1>7, <1>8, <1>9, Moves

-----------------------------------------------------------------------------
(* Nobody's connection is closed under its user.                           *)

\* A thread that connected anew has a usable connection before it counts it in.
Usable == {"counting", "using"}

InHandIsNotClosed ==
    \A b \in Borrowers : borrower[b].at \in Usable => health[borrower[b].conn] # "closed"

LEMMA InHandStep ==
    ASSUME TypeOK, OnePlace, InHandIsNotClosed, [Next]_vars
    PROVE  InHandIsNotClosed'
  <1>0. /\ borrower \in [Borrowers -> Thread] /\ queue \in Seq(Conns)
        /\ health \in [Conns -> {"open", "broken", "closed"}]
        /\ \A b \in Borrowers : borrower[b].at \in Usable => borrower[b].conn \in Conns
    BY DEF TypeOK, Thread, EmptyHanded, Usable
  <1>1. ASSUME UNCHANGED <<borrower, health>> PROVE InHandIsNotClosed'
    BY <1>1 DEF InHandIsNotClosed
  \* One thread moves, and closes at most its own connection.
  <1>2. ASSUME NEW b \in Borrowers,
               \A a \in Borrowers \ {b} : borrower'[a] = borrower[a],
               borrower'[b].at \in Usable => health'[borrower'[b].conn] # "closed",
               \A c \in Conns : c # borrower[b].conn /\ health[c] # "closed" => health'[c] # "closed"
        PROVE  InHandIsNotClosed'
    <2>1. ASSUME NEW a \in Borrowers, a # b, borrower[a].at \in Usable
          PROVE  health'[borrower[a].conn] # "closed"
      <3>1. borrower[a].conn \in Conns /\ health[borrower[a].conn] # "closed"
        BY <1>0, <2>1 DEF InHandIsNotClosed
      <3>2. borrower[a].conn # borrower[b].conn
        BY <2>1, <3>1, PoolAssumption DEF OnePlace
      <3>. QED
        BY <1>2, <3>1, <3>2
    <2>. QED
      BY <1>2, <2>1 DEF InHandIsNotClosed
  <1>3. ASSUME NEW b \in Borrowers,
               \/ Take(b) \/ GetEmpty(b) \/ LockedGrow(b) \/ LockedFull(b)
               \/ CreateFails(b) \/ WaitTimeout(b) \/ CheckInvalid(b) \/ Uncount(b)
               \/ RecreateFails(b) \/ PutBack(b) \/ PutFull(b) \/ Shed(b)
        PROVE  InHandIsNotClosed'
    <2>1. \A a \in Borrowers \ {b} : borrower'[a] = borrower[a]
      BY <1>0, <1>3 DEF Take, GetEmpty, LockedGrow, LockedFull, CreateFails, WaitTimeout,
                        CheckInvalid, Uncount, RecreateFails, PutBack, PutFull, Shed, Goto
    <2>2. \A c \in Conns : c # borrower[b].conn => health'[c] = health[c]
      BY <1>0, <1>3 DEF Take, GetEmpty, LockedGrow, LockedFull, CreateFails, WaitTimeout,
                        CheckInvalid, Uncount, RecreateFails, PutBack, PutFull, Shed
    <2>3. borrower'[b].at \notin Usable
      <3>1. CASE GetEmpty(b) \/ LockedGrow(b) \/ LockedFull(b) \/ CheckInvalid(b) \/ Uncount(b)
                    \/ PutFull(b)
        BY <1>0, <3>1 DEF GetEmpty, LockedGrow, LockedFull, CheckInvalid, Uncount, PutFull, Goto,
                          Usable, Thread
      <3>2. CASE Take(b) \/ CreateFails(b) \/ WaitTimeout(b) \/ RecreateFails(b) \/ PutBack(b)
                    \/ Shed(b)
        BY <1>0, <3>2 DEF Take, CreateFails, WaitTimeout, RecreateFails, PutBack, Shed, Idle,
                          Usable, Thread
      <3>. QED
        BY <1>3, <3>1, <3>2
    <2>. QED
      BY <1>2, <2>1, <2>2, <2>3
  <1>4. ASSUME NEW b \in Borrowers, Create(b) \/ Recreate(b) PROVE InHandIsNotClosed'
    <2>1. PICK c \in Conns, stage \in {"checking", "counting"} :
             /\ health' = [health EXCEPT ![c] = "open"]
             /\ borrower' = [borrower EXCEPT ![b] = [at |-> stage, conn |-> c, wrapper |-> TRUE]]
      BY <1>4 DEF Create, Recreate, Connect
    <2>2. \A d \in Conns : health[d] # "closed" => health'[d] # "closed"
      BY <1>0, <2>1
    <2>3. borrower'[b].conn = c /\ health'[c] = "open"
      BY <1>0, <2>1
    <2>. QED
      BY <1>0, <1>2, <2>1, <2>2, <2>3
  <1>5. ASSUME NEW b \in Borrowers, CheckValid(b) \/ CountIn(b) PROVE InHandIsNotClosed'
    <2>1. health[borrower[b].conn] # "closed"
      BY <1>5 DEF CheckValid, CountIn, InHandIsNotClosed, Usable
    <2>2. borrower'[b].conn = borrower[b].conn
          /\ \A a \in Borrowers \ {b} : borrower'[a] = borrower[a]
      BY <1>0, <1>5 DEF CheckValid, CountIn, Goto, Thread
    <2>3. health' = health
      BY <1>5 DEF CheckValid, CountIn
    <2>. QED
      BY <1>2, <2>1, <2>2, <2>3
  <1>6. ASSUME queue # << >>, CloseHead PROVE InHandIsNotClosed'
    <2>1. Head(queue) \in Members(queue)
      BY <1>0, <1>6, TailMembers
    <2>2. borrower' = borrower /\ health' = [health EXCEPT ![Head(queue)] = "closed"]
      BY <1>6 DEF CloseHead
    <2>3. ASSUME NEW b \in Borrowers, borrower[b].at \in Usable
          PROVE  health'[borrower[b].conn] # "closed"
      <3>1. borrower[b].conn \in Conns /\ borrower[b].conn # Head(queue)
        BY <1>0, <2>1, <2>3 DEF OnePlace
      <3>. QED
        BY <1>0, <2>2, <2>3, <3>1 DEF InHandIsNotClosed
    <2>. QED
      BY <2>2, <2>3 DEF InHandIsNotClosed
  <1>7. CASE CleanIdle \/ TestBroken
    BY <1>6, <1>7 DEF CleanIdle, TestBroken
  <1>8. CASE Refill
    <2>1. borrower' = borrower /\ \A c \in Conns : health[c] # "closed" => health'[c] # "closed"
      BY <1>0, <1>8 DEF Refill, Connect
    <2>. QED
      BY <1>0, <2>1 DEF InHandIsNotClosed
  <1>9. ASSUME NEW c \in Conns, Drop(c) PROVE InHandIsNotClosed'
    <2>1. borrower' = borrower /\ \A d \in Conns : health[d] # "closed" => health'[d] # "closed"
      BY <1>0, <1>9 DEF Drop
    <2>. QED
      BY <1>0, <2>1 DEF InHandIsNotClosed
  <1>10. ASSUME NEW stage, CleanerBegins(stage) PROVE InHandIsNotClosed'
    BY <1>1, <1>10 DEF CleanerBegins
  <1>11. CASE CleanerKeeps \/ TestClosed \/ CleanerDrained \/ RefillEnds \/ Restore \/ CleanerEnds
    BY <1>1, <1>11 DEF CleanerKeeps, TestClosed, CleanerDrained, RefillEnds, Restore, CleanerEnds
  <1>. QED
    BY <1>1, <1>3, <1>4, <1>5, <1>7, <1>8, <1>9, <1>10, <1>11
       DEF Next, Starts, Proceeds, GetNow, LockedGet, WaitGet, CleanerStep, vars

-----------------------------------------------------------------------------
(* The count, until the server drops a connection.                         *)

\* Where a connection that is not closed must be.
Placed == Members(queue) \cup Members(cleaner.keep) \cup Held

\* Every connection that is not closed is open, in its place and counted; so no
\* ping fails, the queue has room for whatever is put back, and no thread
\* replaces or sheds a connection.
Calm ==
    /\ \A b \in Borrowers : borrower[b].at \in EmptyHanded \cup {"checking", "using"}
    /\ \A c \in Conns : health[c] # "broken"
    /\ IsFiniteSet(Unclosed) /\ current = Cardinality(Unclosed) /\ current <= MaxConnections
    /\ Unclosed = Placed
    /\ \A b \in Borrowers : borrower[b].at = "creating" => current < MaxConnections

LEMMA InitCalm ==
    ASSUME Init, TypeOK, Distinct(queue)
    PROVE  Calm
  <1>1. PICK k \in 0 .. MinConnections :
            /\ queue \in {q \in [1 .. k -> Conns] : Cardinality(Members(q)) = k}
            /\ current = k
    BY DEF Init
  <1>2. Members(queue) \subseteq Conns
    BY DEF TypeOK, Members
  <1>3. Unclosed = Members(queue)
    BY <1>2 DEF Init, Unclosed
  <1>4. Members(cleaner.keep) = {} /\ Held = {}
    BY DEF Init, Members, Held, Idle
  <1>5. IsFiniteSet(Members(queue)) /\ current = Cardinality(Members(queue))
    BY <1>1, MembersCount DEF TypeOK
  <1>6. current <= MaxConnections
    BY <1>1, PoolAssumption
  <1>7. /\ \A b \in Borrowers : borrower[b].at = "idle"
        /\ \A c \in Conns : health[c] # "broken"
    BY DEF Init, Idle
  <1>. QED
    BY <1>3, <1>4, <1>5, <1>6, <1>7 DEF Calm, Placed, EmptyHanded

\* While a connection is out of the queue, the queue has room.
LEMMA CalmRoom ==
    ASSUME TypeOK, OnePlace, Calm, NEW c \in Unclosed, c \notin Members(queue)
    PROVE  Len(queue) < MaxConnections
  <1>1. Cardinality(Members(queue)) = Len(queue)
    BY MembersCount DEF TypeOK, OnePlace
  <1>2. IsFiniteSet(Unclosed) /\ Members(queue) \in SUBSET Unclosed
    BY DEF Calm, Placed
  <1>3. /\ Cardinality(Members(queue)) <= Cardinality(Unclosed)
        /\ Cardinality(Members(queue)) # Cardinality(Unclosed)
        /\ Cardinality(Unclosed) \in Nat /\ IsFiniteSet(Members(queue))
    BY <1>2, FS_Subset, FS_CardinalityType
  <1>4. Cardinality(Members(queue)) \in Nat
    BY <1>3, FS_CardinalityType
  <1>. QED
    BY <1>1, <1>3, <1>4, PoolAssumption DEF Calm

\* What a thread has in hand is open, and it is at one of two stages.
LEMMA CalmInHand ==
    ASSUME TypeOK, Calm, NEW b \in Borrowers, borrower[b].at \in Holding
    PROVE  /\ borrower[b].at \in {"checking", "using"}
           /\ borrower[b].conn \in Held /\ borrower[b].conn \in Unclosed
           /\ health[borrower[b].conn] = "open"
  <1>1. borrower[b].conn \in Conns /\ borrower[b].conn # Nobody
    BY PoolAssumption DEF TypeOK, Thread, EmptyHanded, Holding
  <1>2. borrower[b].conn \in Held
    BY <1>1 DEF Held
  <1>3. borrower[b].conn \in Unclosed
    BY <1>2 DEF Calm, Placed
  <1>4. health[borrower[b].conn] = "open"
    BY <1>1, <1>3 DEF Calm, Unclosed, TypeOK
  <1>5. borrower[b].at \in {"checking", "using"}
    BY DEF Calm, Holding, EmptyHanded
  <1>. QED
    BY <1>2, <1>3, <1>4, <1>5

\* A step that leaves every connection where or as good as where it was.
LEMMA CalmKept ==
    ASSUME Calm, UNCHANGED <<health, current>>, Placed' = Placed,
           \A b \in Borrowers :
              /\ borrower'[b].at \in EmptyHanded \cup {"checking", "using"}
              /\ borrower'[b].at = "creating" =>
                    borrower[b].at = "creating" \/ current < MaxConnections
    PROVE  Calm'
  <1>1. Unclosed' = Unclosed
    BY DEF Unclosed
  <1>. QED
    BY <1>1 DEF Calm

\* A new connection, counted.
LEMMA CalmGrows ==
    ASSUME TypeOK, Calm, NEW c \in Fresh, Connect(c), current' = current + 1,
           current < MaxConnections, Placed' = Placed \cup {c},
           \A b \in Borrowers :
              borrower'[b].at \in (EmptyHanded \ {"creating"}) \cup {"checking", "using"}
    PROVE  Calm'
  <1>1. c \in Conns /\ c \notin Unclosed
    BY DEF Fresh, Calm, Placed
  <1>2. Unclosed' = Unclosed \cup {c}
    BY <1>1 DEF Connect, Unclosed, TypeOK
  <1>3. IsFiniteSet(Unclosed') /\ Cardinality(Unclosed') = Cardinality(Unclosed) + 1
    BY <1>1, <1>2, FS_AddElement DEF Calm
  <1>4. \A d \in Conns : health'[d] # "broken"
    BY DEF Connect, Calm, TypeOK
  <1>5. current' <= MaxConnections
    BY PoolAssumption DEF TypeOK
  <1>6. \A b \in Borrowers :
           /\ borrower'[b].at \in EmptyHanded \cup {"checking", "using"}
           /\ borrower'[b].at # "creating"
    OBVIOUS
  <1>. QED
    BY <1>2, <1>3, <1>4, <1>5, <1>6 DEF Calm

\* The clean-up closes a connection of the queue, and counts it out.
LEMMA CalmShrinks ==
    ASSUME TypeOK, OnePlace, Calm, queue # << >>, CloseHead
    PROVE  Calm'
  <1>0. queue \in Seq(Conns) /\ current \in Int /\ MaxConnections \in Nat
    BY PoolAssumption DEF TypeOK
  <1>1. /\ Head(queue) \in Conns
        /\ Members(queue) = Members(Tail(queue)) \cup {Head(queue)}
        /\ Head(queue) \notin Members(Tail(queue))
    BY <1>0, TailMembers DEF OnePlace
  <1>2. Head(queue) \in Unclosed
    BY <1>1 DEF Calm, Placed
  <1>3. Unclosed' = Unclosed \ {Head(queue)}
    BY <1>1 DEF CloseHead, Unclosed, TypeOK
  <1>4. IsFiniteSet(Unclosed') /\ Cardinality(Unclosed') = Cardinality(Unclosed) - 1
    BY <1>2, <1>3, FS_RemoveElement DEF Calm
  <1>5. Head(queue) \notin Members(cleaner.keep) /\ Head(queue) \notin Held
    BY <1>1 DEF OnePlace, Held
  <1>6. Placed' = Placed \ {Head(queue)}
    <2>1. queue' = Tail(queue) /\ cleaner' = cleaner /\ borrower' = borrower
      BY DEF CloseHead
    <2>. QED
      BY <1>1, <1>5, <2>1 DEF Placed, Held
  <1>7. /\ \A c \in Conns : health'[c] # "broken"
        /\ current' = current - 1 /\ borrower' = borrower
    BY DEF CloseHead, Calm, TypeOK
  <1>. QED
    BY <1>0, <1>3, <1>4, <1>6, <1>7 DEF Calm

LEMMA CalmStep ==
    ASSUME TypeOK, LockInv, OnePlace, Calm, [Next]_vars, drops' = 0, drops = 0
    PROVE  Calm'
  <1>0. /\ borrower \in [Borrowers -> Thread] /\ queue \in Seq(Conns)
        /\ cleaner \in [at : CleanerStages, keep : Seq(Conns)]
        /\ \A b \in Borrowers : borrower[b].at \in EmptyHanded <=> borrower[b].conn = Nobody
        /\ \A b \in Borrowers : borrower[b].at \in EmptyHanded \cup {"checking", "using"}
    BY DEF TypeOK, Thread, Calm
  <1>1. CASE UNCHANGED vars
    BY <1>1 DEF vars, Calm, Unclosed, Placed, Held
  <1>2. ASSUME NEW b \in Borrowers, Take(b), borrower[b].at \in EmptyHanded PROVE Calm'
    <2>1. Members(queue) = Members(Tail(queue)) \cup {Head(queue)} /\ Head(queue) \in Conns
      BY <1>0, <1>2, TailMembers DEF Take
    <2>2. /\ UNCHANGED <<cleaner, health, current>> /\ queue' = Tail(queue)
          /\ borrower'[b].conn = Head(queue) /\ borrower'[b].at = "checking"
          /\ \A a \in Borrowers \ {b} : borrower'[a] = borrower[a]
      BY <1>0, <1>2 DEF Take
    <2>3. Held' = Held \cup {Head(queue)}
      BY <1>0, <1>2, <2>1, <2>2, PoolAssumption DEF Held
    <2>4. Placed' = Placed
      BY <2>1, <2>2, <2>3 DEF Placed
    <2>5. ASSUME NEW a \in Borrowers
          PROVE  /\ borrower'[a].at \in EmptyHanded \cup {"checking", "using"}
                 /\ borrower'[a].at = "creating" => borrower[a].at = "creating"
      BY <1>0, <2>2
    <2>. QED
      BY <2>2, <2>4, <2>5, CalmKept
  \* Nobody's connection changes.
  <1>3. ASSUME UNCHANGED <<queue, health, current>>, cleaner'.keep = cleaner.keep,
               \A b \in Borrowers :
                  /\ borrower'[b].conn = borrower[b].conn
                  /\ borrower'[b].at \in EmptyHanded \cup {"checking", "using"}
                  /\ borrower'[b].at = "creating" =>
                        borrower[b].at = "creating" \/ current < MaxConnections
        PROVE  Calm'
    <2>1. Held' = Held
      BY <1>3 DEF Held
    <2>2. Placed' = Placed
      BY <1>3, <2>1 DEF Placed
    <2>. QED
      BY <1>3, <2>2, CalmKept
  <1>4. ASSUME NEW b \in Borrowers, GetEmpty(b) \/ LockedGrow(b) \/ LockedFull(b) \/ CheckValid(b)
        PROVE  Calm'
    <2>1. UNCHANGED <<queue, health, current, cleaner>>
      BY <1>4 DEF GetEmpty, LockedGrow, LockedFull, CheckValid
    <2>2. PICK stage \in EmptyHanded \cup {"checking", "using"} :
             Goto(b, stage) /\ (stage = "creating" => current < MaxConnections)
      BY <1>4 DEF GetEmpty, LockedGrow, LockedFull, CheckValid, EmptyHanded
    <2>3. \A a \in Borrowers : borrower'[a].conn = borrower[a].conn
             /\ borrower'[a].at = IF a = b THEN stage ELSE borrower[a].at
      BY <1>0, <2>2 DEF Goto, Thread
    <2>. QED
      BY <1>0, <1>3, <2>1, <2>2, <2>3
  <1>5. ASSUME NEW b \in Borrowers, CreateFails(b) \/ WaitTimeout(b) PROVE Calm'
    <2>1. /\ UNCHANGED <<queue, health, current, cleaner>> /\ borrower[b].at \in EmptyHanded
          /\ borrower' = [borrower EXCEPT ![b] = Idle]
      BY <1>5 DEF CreateFails, WaitTimeout, EmptyHanded
    <2>2. \A a \in Borrowers : borrower'[a].conn = borrower[a].conn
             /\ borrower'[a].at = IF a = b THEN "idle" ELSE borrower[a].at
      BY <1>0, <2>1 DEF Idle
    <2>3. "idle" \in EmptyHanded
      BY DEF EmptyHanded
    <2>. QED
      BY <1>0, <1>3, <2>1, <2>2, <2>3
  <1>6. ASSUME NEW b \in Borrowers, Create(b) PROVE Calm'
    <2>1. PICK c \in Fresh :
             /\ Connect(c)
             /\ borrower' = [borrower EXCEPT ![b] = [at |-> "checking", conn |-> c, wrapper |-> TRUE]]
      BY <1>6 DEF Create, Connect
    <2>2. /\ lock = b /\ current < MaxConnections /\ current' = current + 1
          /\ UNCHANGED <<queue, cleaner>> /\ borrower[b].at = "creating"
      BY <1>6 DEF Create, LockInv, Calm
    <2>3. \A a \in Borrowers \ {b} : borrower'[a] = borrower[a] /\ borrower[a].at # "creating"
      BY <1>0, <2>1, <2>2 DEF LockInv
    <2>4. borrower'[b].conn = c /\ borrower'[b].at = "checking"
      BY <1>0, <2>1
    <2>5. borrower[b].conn = Nobody /\ c # Nobody
      BY <1>0, <2>2, PoolAssumption DEF EmptyHanded, Fresh
    <2>6. Held' = Held \cup {c}
      BY <2>3, <2>4, <2>5 DEF Held
    <2>7. Placed' = Placed \cup {c}
      BY <2>2, <2>6 DEF Placed
    <2>8. \A a \in Borrowers :
             borrower'[a].at \in (EmptyHanded \ {"creating"}) \cup {"checking", "using"}
      BY <1>0, <2>3, <2>4
    <2>. QED
      BY <2>1, <2>2, <2>7, <2>8, CalmGrows
  <1>7. ASSUME NEW b \in Borrowers,
               \/ CheckInvalid(b) \/ Uncount(b) \/ Recreate(b) \/ CountIn(b) \/ RecreateFails(b)
               \/ PutFull(b) \/ Shed(b)
        PROVE  FALSE
    <2>1. borrower[b].at \in Holding
      BY <1>7 DEF CheckInvalid, Uncount, Recreate, CountIn, RecreateFails, PutFull, Shed, Holding
    <2>2. /\ borrower[b].at \in {"checking", "using"} /\ borrower[b].conn \in Unclosed
          /\ health[borrower[b].conn] = "open"
      BY <2>1, CalmInHand
    <2>3. PutFull(b)
      BY <1>7, <2>2 DEF CheckInvalid, Uncount, Recreate, CountIn, RecreateFails, Shed
    <2>4. borrower[b].conn \notin Members(queue)
      BY DEF OnePlace
    <2>5. Len(queue) < MaxConnections
      BY <2>2, <2>4, CalmRoom
    <2>. QED
      BY <1>0, <2>3, <2>5, PoolAssumption DEF PutFull
  <1>8. ASSUME NEW b \in Borrowers, PutBack(b) PROVE Calm'
    <2>. DEFINE c == borrower[b].conn
    <2>1. c \in Held /\ c \in Conns
      <3>1. borrower[b].at \in Holding
        BY <1>8 DEF PutBack, Holding
      <3>. QED
        BY <3>1, CalmInHand DEF Unclosed
    <2>2. Members(Append(queue, c)) = Members(queue) \cup {c}
      BY <1>0, <2>1, AppendMembers
    <2>3. /\ UNCHANGED <<cleaner, health, current>> /\ queue' = Append(queue, c)
          /\ borrower' = [borrower EXCEPT ![b] = Idle]
      BY <1>8 DEF PutBack
    <2>4. /\ borrower'[b].conn = Nobody /\ borrower'[b].at = "idle"
          /\ \A a \in Borrowers \ {b} : borrower'[a] = borrower[a] /\ borrower[a].conn # c
      <3>1. borrower'[b] = Idle /\ \A a \in Borrowers \ {b} : borrower'[a] = borrower[a]
        BY <1>0, <2>3
      <3>2. c # Nobody
        BY <2>1, PoolAssumption
      <3>. QED
        BY <3>1, <3>2 DEF Idle, OnePlace
    <2>5. Held' = Held \ {c}
      BY <2>4 DEF Held
    <2>6. Placed' = Placed
      BY <2>1, <2>2, <2>3, <2>5 DEF Placed
    <2>7. "idle" \in EmptyHanded
      BY DEF EmptyHanded
    <2>8. ASSUME NEW a \in Borrowers
          PROVE  /\ borrower'[a].at \in EmptyHanded \cup {"checking", "using"}
                 /\ borrower'[a].at = "creating" => borrower[a].at = "creating"
      BY <1>0, <2>4, <2>7
    <2>. QED
      BY <2>3, <2>6, <2>8, CalmKept
  <1>9. ASSUME NEW stage, CleanerBegins(stage) PROVE Calm'
    BY <1>0, <1>3, <1>9 DEF CleanerBegins, LockInv
  <1>10. CASE CleanerKeeps
    <2>1. Members(queue) = Members(Tail(queue)) \cup {Head(queue)} /\ Head(queue) \in Conns
      BY <1>0, <1>10, TailMembers DEF CleanerKeeps
    <2>2. Members(Append(cleaner.keep, Head(queue))) = Members(cleaner.keep) \cup {Head(queue)}
      BY <1>0, <2>1, AppendMembers
    <2>3. /\ UNCHANGED <<borrower, health, current>> /\ queue' = Tail(queue)
          /\ cleaner'.keep = Append(cleaner.keep, Head(queue))
      BY <1>0, <1>10 DEF CleanerKeeps
    <2>4. Placed' = Placed
      BY <2>1, <2>2, <2>3 DEF Placed, Held
    <2>. QED
      BY <1>0, <2>3, <2>4, CalmKept
  <1>11. CASE CleanIdle
    BY <1>11, CalmShrinks DEF CleanIdle
  <1>12. ASSUME TestBroken \/ TestClosed PROVE FALSE
    <2>1. Head(queue) \in Members(queue) /\ Head(queue) \in Conns
      BY <1>0, <1>12, TailMembers DEF TestBroken, TestClosed
    <2>2. Head(queue) \in Unclosed
      BY <2>1 DEF Calm, Placed
    <2>. QED
      BY <1>12, <2>1, <2>2 DEF TestBroken, TestClosed, Calm, Unclosed
  <1>13. CASE CleanerDrained \/ RefillEnds \/ CleanerEnds
    <2>1. UNCHANGED <<queue, health, current, borrower>> /\ cleaner'.keep = cleaner.keep
      BY <1>0, <1>13 DEF CleanerDrained, RefillEnds, CleanerEnds
    <2>. QED
      BY <1>0, <1>3, <2>1
  <1>14. CASE Refill
    <2>1. PICK c \in Fresh : Connect(c) /\ cleaner' = [cleaner EXCEPT !.keep = Append(@, c)]
      BY <1>14 DEF Refill, Connect
    <2>2. UNCHANGED <<queue, borrower>> /\ current' = current + 1 /\ current < MaxConnections
      BY <1>14, PoolAssumption DEF Refill, TypeOK
    <2>3. Members(cleaner'.keep) = Members(cleaner.keep) \cup {c}
      BY <1>0, <2>1, AppendMembers DEF Fresh
    <2>4. Placed' = Placed \cup {c}
      BY <2>2, <2>3 DEF Placed, Held
    <2>5. lock = Cleaner
      BY <1>14 DEF Refill, LockInv
    <2>6. \A a \in Borrowers :
             borrower'[a].at \in (EmptyHanded \ {"creating"}) \cup {"checking", "using"}
      BY <1>0, <2>2, <2>5, PoolAssumption DEF LockInv
    <2>. QED
      BY <2>1, <2>2, <2>4, <2>6, CalmGrows
  <1>15. CASE Restore
    <2>. DEFINE c == Head(cleaner.keep)
    <2>1. Members(cleaner.keep) = Members(Tail(cleaner.keep)) \cup {c} /\ c \in Conns
      BY <1>0, <1>15, TailMembers DEF Restore
    <2>2. c \in Unclosed /\ c \notin Members(queue)
      BY <2>1 DEF Calm, Placed, OnePlace
    <2>3. Len(queue) < MaxConnections
      BY <2>2, CalmRoom
    <2>4. /\ UNCHANGED <<borrower, health, current>> /\ queue' = Append(queue, c)
          /\ cleaner'.keep = Tail(cleaner.keep)
      BY <1>0, <1>15, <2>3 DEF Restore
    <2>5. Members(Append(queue, c)) = Members(queue) \cup {c}
      BY <1>0, <2>1, AppendMembers
    <2>6. Placed' = Placed
      BY <2>1, <2>4, <2>5 DEF Placed, Held
    <2>. QED
      BY <1>0, <2>4, <2>6, CalmKept
  <1>16. ASSUME NEW c \in Conns, Drop(c) PROVE FALSE
    BY <1>16 DEF Drop
  <1>17. \A b \in Borrowers : GetNow(b) \/ LockedGet(b) \/ WaitGet(b) => Calm'
    BY <1>2 DEF GetNow, LockedGet, WaitGet, EmptyHanded
  <1>. QED
    BY <1>1, <1>4, <1>5, <1>6, <1>7, <1>8, <1>9, <1>10, <1>11, <1>12, <1>13, <1>14, <1>15,
       <1>16, <1>17
       DEF Next, Starts, Proceeds, CleanerStep

-----------------------------------------------------------------------------
(* The theorems.                                                           *)

CalmUntilDrop == drops = 0 => Calm

PoolInv == TypeOK /\ LockInv /\ OnePlace /\ InHandIsNotClosed /\ CalmUntilDrop

LEMMA PoolInvariant == Spec => []PoolInv
  <1>1. ASSUME Init PROVE PoolInv
    <2>1. TypeOK /\ Distinct(queue)
      BY <1>1, InitType
    <2>2. /\ cleaner.at = "idle" /\ cleaner.keep = << >> /\ lock = Nobody
          /\ \A b \in Borrowers : borrower[b].at = "idle" /\ borrower[b].conn = Nobody
      BY <1>1 DEF Init, Idle
    <2>3. LockInv
      BY <2>2, PoolAssumption DEF LockInv
    <2>4. Nobody \notin Members(queue) /\ Members(cleaner.keep) = {} /\ Distinct(cleaner.keep)
      BY <2>1, <2>2, PoolAssumption DEF TypeOK, Members, Distinct
    <2>5. OnePlace
      BY <2>1, <2>2, <2>4 DEF OnePlace
    <2>6. InHandIsNotClosed
      BY <2>2 DEF InHandIsNotClosed, Usable
    <2>. QED
      BY <1>1, <2>1, <2>3, <2>5, <2>6, InitCalm DEF PoolInv, CalmUntilDrop
  <1>2. ASSUME PoolInv, [Next]_vars PROVE PoolInv'
    <2>1. TypeOK' /\ LockInv'
      BY <1>2, TypeStep, LockStep DEF PoolInv
    <2>2. OnePlace'
      BY <1>2, <2>1, OnePlaceStep DEF PoolInv
    <2>3. InHandIsNotClosed'
      BY <1>2, InHandStep DEF PoolInv
    <2>4. drops' = 0 => drops = 0
      <3>1. drops' = drops \/ \E c \in Conns : Drop(c)
        BY <1>2 DEF Next, Starts, Proceeds, CleanerStep, vars, GetNow, GetEmpty, LockedGet,
                    LockedGrow, LockedFull, Create, CreateFails, WaitGet, WaitTimeout, CheckValid,
                    CheckInvalid, Uncount, Recreate, CountIn, RecreateFails, PutBack, PutFull,
                    Shed, CleanerBegins, CleanerKeeps, CleanIdle, TestBroken, TestClosed,
                    CloseHead, CleanerDrained, Refill, RefillEnds, Restore, CleanerEnds, Take
      <3>. QED
        BY <1>2, <3>1 DEF Drop, PoolInv, TypeOK
    <2>5. CalmUntilDrop'
      BY <1>2, <2>4, CalmStep DEF PoolInv, CalmUntilDrop
    <2>. QED
      BY <2>1, <2>2, <2>3, <2>5 DEF PoolInv
  <1>. QED
    BY <1>1, <1>2, PTL DEF Spec

\* The variables of the pool have their types, for any threads, connections and
\* limits.
THEOREM PoolTypeCorrect == Spec => []TypeOK
  BY PoolInvariant, PTL DEF PoolInv

\* No connection is lent to two threads, nor lent while it is in the queue or
\* with the clean-up, although queue.get and queue.put run without the lock.
THEOREM LentToOne == Spec => []LentOnce
  <1>1. PoolInv => LentOnce
    BY OnePlaceIsLentOnce DEF PoolInv
  <1>. QED
    BY <1>1, PoolInvariant, PTL

\* The pool closes no connection under the caller's with-block: only its own
\* thread, or the clean-up for what is idle, closes one.
THEOREM NeverClosedInUse == Spec => []InUseIsNotClosed
  <1>1. PoolInv => InUseIsNotClosed
    BY DEF PoolInv, InHandIsNotClosed, InUseIsNotClosed, Usable
  <1>. QED
    BY <1>1, PoolInvariant, PTL

\* Until the server drops a connection, current_connections is the number of
\* connections whenever the lock is free.
THEOREM CountExactUntilDrop == Spec => []CountIsExact
  <1>1. PoolInv => CountIsExact
    BY DEF PoolInv, CalmUntilDrop, Calm, CountIsExact
  <1>. QED
    BY <1>1, PoolInvariant, PTL

\* Until the server drops a connection, there are at most max_connections.
THEOREM WithinMaxUntilDrop == Spec => []AtMostMaxUntilDrop
  <1>1. PoolInv => AtMostMaxUntilDrop
    BY DEF PoolInv, CalmUntilDrop, Calm, AtMostMaxUntilDrop, AtMostMaxConnections
  <1>. QED
    BY <1>1, PoolInvariant, PTL

=============================================================================
