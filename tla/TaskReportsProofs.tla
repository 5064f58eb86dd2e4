------------------------- MODULE TaskReportsProofs -------------------------
(***************************************************************************)
(* The outcome of a task on its way out of the worker, for reports, parts  *)
(* of a report and log files of any length, any number of posts and        *)
(* everything the environment may do.                                      *)
(***************************************************************************)
EXTENDS TaskReports, SequenceTheorems, TLAPS

Outcomes == {"success", "failed"}
HashStatus == {"pending", "running", "timeout"} \cup Outcomes
Stages == {"begin", "execute", "post", "progress", "hash", "result", "row", "unsink",
           "counters", "over"}

WorkerTypeOK ==
    worker \in [at : Stages, outcome : Outcomes \cup {"none"}, steps : Nat, batch : Nat, posts : Nat,
                acked : BOOLEAN, answer : {"none", "success", "failure"}, sink : BOOLEAN,
                code : {"task", "except", "cut", "handler"},
                record : Outcomes \cup {"none", "timeout"}, raised : BOOLEAN, unwritten : BOOLEAN]

ServerTypeOK ==
    server \in [steps : SUBSET Nat, totals : BOOLEAN, status : SUBSET (Outcomes \cup {"none"})]

HashTypeOK ==
    /\ hash \in [status : HashStatus, result : {"none", "old", "new"}]
    /\ row \in HashStatus

SseTypeOK ==
    sse \in [at : {"poll", "result", "closed"}, seen : HashStatus \cup {"none"},
             last : HashStatus \cup {"none"}, nodes : SUBSET {"old", "new"},
             end : HashStatus \cup {"none"}, result : {"none", "old", "new"}]

ConsoleTypeOK ==
    /\ console \in [at : {"wait", "size", "read", "last", "closed"}, pos : Nat, size : Nat,
                    shown : Seq(Nat)]
    /\ logFile \in Seq({Quiet, Marker})

ReportsTypeOK ==
    /\ batched \in BOOLEAN /\ strangers \in Nat
    /\ WorkerTypeOK /\ ServerTypeOK /\ HashTypeOK /\ SseTypeOK /\ ConsoleTypeOK

Undecided == worker.at \in {"begin", "execute"}

\* Who writes, and what: execute_task the outcome, the handlers failed, the
\* branch of the deadline timeout.
CodeInv ==
    /\ Undecided => worker.code = "task" /\ worker.outcome = "none" /\ worker.record = "none"
    /\ worker.at \in {"post", "progress", "result", "unsink"} => worker.code = "task"
    /\ worker.code = "task" => ~worker.raised
    /\ worker.code = "task" /\ ~Undecided =>
          worker.outcome \in Outcomes /\ worker.record = worker.outcome
    /\ worker.code \in {"except", "handler"} => worker.raised /\ worker.record = "failed"
    /\ worker.code = "cut" => worker.record = "timeout"

\* Whatever is told anywhere is the worker's outcome, or the failed of a handler.
TellInv ==
    /\ Undecided => server.status = {}
    /\ server.status \subseteq {worker.outcome}
    /\ \A s \in Outcomes :
          hash.status = s \/ sse.seen = s \/ sse.end = s =>
             worker.outcome = s \/ (worker.raised /\ s = "failed")

\* The row gets what its last writer writes, or the write was lost.
RowInv ==
    /\ worker.code = "task" /\ worker.at \notin {"unsink", "counters", "over"} =>
          row \in {"pending", "running"}
    /\ worker.code = "task" /\ worker.at \in {"unsink", "counters", "over"} =>
          row = worker.outcome \/ (worker.unwritten /\ row \in {"pending", "running"})
    /\ worker.code \in {"except", "handler"} /\ worker.at \in {"counters", "over"} =>
          row = "failed" \/ worker.unwritten
    /\ worker.code = "cut" /\ worker.at \in {"counters", "over"} =>
          row = "timeout" \/ worker.unwritten
    /\ worker.code = "cut" /\ ~worker.raised =>
          row \in {"pending", "running", "timeout", worker.outcome}

ToldInv == CodeInv /\ TellInv /\ RowInv

\* While every part so far was acknowledged, the receiver has the steps of the
\* parts before the present one.
PostInv ==
    /\ Undecided => /\ worker.steps = 0 /\ worker.batch = 1 /\ worker.answer = "none"
                    /\ server.steps = {}
    /\ server.steps \subseteq 1 .. worker.steps
    /\ worker.at = "post" =>
          /\ worker.batch \in 1 .. TotalBatches
          /\ worker.answer = "none"
          /\ worker.acked =>
                /\ \A n \in 1 .. worker.steps :
                      n <= (worker.batch - 1) * StepsPerPost => n \in server.steps
                /\ worker.batch > 1 => server.totals
    /\ AcknowledgedIsDelivered

\* What is shown is a beginning of the file and reaches the position at least.
ConsoleInv ==
    /\ console.pos <= Len(logFile) /\ console.size <= Len(logFile)
    /\ \E m \in Nat : console.pos <= m /\ Range(console.shown) = 1 .. m

-----------------------------------------------------------------------------
(* The parts of a report *)

LEMMA MinOfTwo ==
    ASSUME NEW x \in Nat, NEW y \in Nat
    PROVE  Min({x, y}) = IF x <= y THEN x ELSE y
  <1>. DEFINE S == {x, y}
  <1>1. \E m \in S : \A k \in S : m <= k
    <2>1. CASE x <= y
      BY <2>1
    <2>2. CASE ~(x <= y)
      BY <2>2
    <2>. QED
      BY <2>1, <2>2
  <1>2. Min(S) \in S /\ \A k \in S : Min(S) <= k
    BY <1>1 DEF Min
  <1>. HIDE DEF S
  <1>3. Min(S) = x \/ Min(S) = y
    BY <1>2 DEF S
  <1>4. Min(S) <= x /\ Min(S) <= y
    BY <1>2 DEF S
  <1>. QED
    BY <1>3, <1>4 DEF S

\* The parts of a report of n steps.
PartsOf(b, n) == IF b /\ n > 0 THEN (n + StepsPerPost - 1) \div StepsPerPost ELSE 1

LEMMA PartsOfSteps ==
    ASSUME NEW b, NEW n \in Nat
    PROVE  PartsOf(b, n) \in Nat \ {0} /\ (b => n <= PartsOf(b, n) * StepsPerPost)
  <1>1. StepsPerPost \in Nat \ {0}
    BY ReportsAssumption
  <1>2. ASSUME n > 0
        PROVE  /\ (n + StepsPerPost - 1) \div StepsPerPost \in Nat \ {0}
               /\ n <= ((n + StepsPerPost - 1) \div StepsPerPost) * StepsPerPost
    BY <1>1, <1>2
  <1>. QED
    BY <1>1, <1>2 DEF PartsOf

LEMMA PartsCover ==
    ASSUME WorkerTypeOK
    PROVE  /\ TotalBatches \in Nat \ {0}
           /\ batched => worker.steps <= TotalBatches * StepsPerPost
           /\ ~batched => TotalBatches = 1
  <1>1. TotalBatches = PartsOf(batched, worker.steps) /\ worker.steps \in Nat
    BY DEF TotalBatches, PartsOf, WorkerTypeOK
  <1>2. ~batched => TotalBatches = 1
    BY DEF TotalBatches
  <1>. QED
    BY <1>1, <1>2, PartsOfSteps

LEMMA StepsOfPart ==
    ASSUME WorkerTypeOK, NEW b \in 1 .. TotalBatches
    PROVE  /\ StepsOfBatch(b) \subseteq 1 .. worker.steps
           /\ \A n \in 1 .. worker.steps :
                 (b - 1) * StepsPerPost < n /\ n <= b * StepsPerPost => n \in StepsOfBatch(b)
           /\ ~batched => StepsOfBatch(b) = 1 .. worker.steps
  <1>1. worker.steps \in Nat /\ StepsPerPost \in Nat \ {0} /\ b \in Nat \ {0}
    BY ReportsAssumption, PartsCover DEF WorkerTypeOK
  <1>2. b * StepsPerPost \in Nat /\ (b - 1) * StepsPerPost \in Nat
    BY <1>1
  <1>3. CASE ~batched
    BY <1>1, <1>3 DEF StepsOfBatch
  <1>4. CASE batched
    <2>1. StepsOfBatch(b) = ((b - 1) * StepsPerPost + 1) .. Min({b * StepsPerPost, worker.steps})
      BY <1>4 DEF StepsOfBatch
    <2>2. Min({b * StepsPerPost, worker.steps})
            = IF b * StepsPerPost <= worker.steps THEN b * StepsPerPost ELSE worker.steps
      BY <1>1, <1>2, MinOfTwo
    <2>3. PICK x \in Nat, y \in Nat : x = (b - 1) * StepsPerPost /\ y = b * StepsPerPost
      BY <1>2
    <2>4. StepsOfBatch(b) = (x + 1) .. (IF y <= worker.steps THEN y ELSE worker.steps)
      BY <2>1, <2>2, <2>3
    <2>5. \A n \in 1 .. worker.steps : x < n /\ n <= y => n \in StepsOfBatch(b)
      BY <1>1, <2>4
    <2>6. StepsOfBatch(b) \subseteq 1 .. worker.steps
      BY <1>1, <2>4
    <2>. QED
      BY <1>4, <2>3, <2>5, <2>6
  <1>. QED
    BY <1>3, <1>4

-----------------------------------------------------------------------------
(* Types *)

LEMMA ReportsInitType ==
    ASSUME ReportsInit
    PROVE  ReportsTypeOK
  <1>1. WorkerTypeOK /\ ServerTypeOK /\ HashTypeOK /\ batched \in BOOLEAN /\ strangers \in Nat
    BY ReportsAssumption
       DEF ReportsInit, WorkerStart, StoredBefore, WorkerTypeOK, ServerTypeOK, HashTypeOK,
           HashStatus, Stages, Outcomes
  <1>2. SseTypeOK /\ ConsoleTypeOK
    BY DEF ReportsInit, SseTypeOK, ConsoleTypeOK, HashStatus
  <1>. QED
    BY <1>1, <1>2 DEF ReportsTypeOK

\* A line more, whoever writes it.
LEMMA LogType ==
    ASSUME ConsoleTypeOK, UNCHANGED console, NEW line \in {Quiet, Marker},
           logFile' = logFile \/ logFile' = Append(logFile, line)
    PROVE  ConsoleTypeOK' /\ Len(logFile) \in Nat /\ Len(logFile') \in Nat
           /\ Len(logFile) <= Len(logFile')
  <1>1. logFile \in Seq({Quiet, Marker}) /\ Len(logFile) \in Nat
    BY LenProperties DEF ConsoleTypeOK
  <1>2. /\ Append(logFile, line) \in Seq({Quiet, Marker})
        /\ Len(Append(logFile, line)) = Len(logFile) + 1
    BY <1>1, AppendProperties
  <1>3. logFile' \in Seq({Quiet, Marker}) /\ Len(logFile') \in {Len(logFile), Len(logFile) + 1}
    BY <1>1, <1>2
  <1>. QED
    BY <1>1, <1>3 DEF ConsoleTypeOK

LEMMA NextBatchType ==
    ASSUME WorkerTypeOK, NEW acked \in BOOLEAN, NextBatchOfPosts(acked)
    PROVE  WorkerTypeOK'
  <1>1. CASE worker.batch = TotalBatches
    <2>1. worker' = [worker EXCEPT !.at = "progress", !.acked = acked,
                                   !.answer = IF acked THEN "success" ELSE "failure"]
      BY <1>1 DEF NextBatchOfPosts
    <2>. QED
      BY <2>1 DEF WorkerTypeOK, Stages
  <1>2. CASE worker.batch # TotalBatches
    <2>1. worker' = [worker EXCEPT !.batch = @ + 1, !.posts = 0, !.acked = acked]
      BY <1>2 DEF NextBatchOfPosts
    <2>2. worker.batch + 1 \in Nat
      BY DEF WorkerTypeOK
    <2>. QED
      BY <2>1, <2>2 DEF WorkerTypeOK
  <1>. QED
    BY <1>1, <1>2

LEMMA HandledType ==
    ASSUME WorkerTypeOK, ServerTypeOK, Handled, worker.at = "post", worker.batch \in 1 .. TotalBatches
    PROVE  ServerTypeOK'
  <1>1. StepsOfBatch(worker.batch) \subseteq Nat
    BY StepsOfPart DEF WorkerTypeOK
  <1>. QED
    BY <1>1 DEF Handled, ServerTypeOK, WorkerTypeOK

\* The lines of the console and those that are read from its position on.
MoreShown == console.shown \o LinesFrom(console.pos)

LEMMA LinesType ==
    ASSUME ConsoleTypeOK, NEW pos \in Nat, pos <= Len(logFile)
    PROVE  /\ LinesFrom(pos) \in Seq(Nat)
           /\ Range(LinesFrom(pos)) = (pos + 1) .. Len(logFile)
  <1>1. Len(logFile) \in Nat
    BY LenProperties DEF ConsoleTypeOK
  <1>2. PICK k \in Nat : Len(logFile) = pos + k
    <2>1. Len(logFile) - pos \in Nat /\ Len(logFile) = pos + (Len(logFile) - pos)
      BY <1>1
    <2>. QED
      BY <2>1
  <1>3. LinesFrom(pos) = [i \in 1 .. k |-> pos + i]
    BY <1>2 DEF LinesFrom
  <1>4. Range(LinesFrom(pos)) = {pos + i : i \in 1 .. k}
    BY <1>3 DEF Range
  <1>5. \A n \in (pos + 1) .. (pos + k) : n - pos \in 1 .. k /\ n = pos + (n - pos)
    BY <1>2
  <1>6. {pos + i : i \in 1 .. k} = (pos + 1) .. (pos + k)
    BY <1>2, <1>5
  <1>7. LinesFrom(pos) \in Seq(Nat)
    BY <1>2, <1>3
  <1>. QED
    BY <1>2, <1>4, <1>6, <1>7

LEMMA MoreShownType ==
    ASSUME ConsoleTypeOK, console.pos <= Len(logFile)
    PROVE  /\ MoreShown \in Seq(Nat)
           /\ Range(MoreShown) = Range(console.shown) \cup ((console.pos + 1) .. Len(logFile))
  <1>. DEFINE s == console.shown
              t == LinesFrom(console.pos)
  <1>1. s \in Seq(Nat) /\ t \in Seq(Nat) /\ Range(t) = (console.pos + 1) .. Len(logFile)
    BY LinesType DEF ConsoleTypeOK
  <1>. HIDE DEF s, t
  <1>2. /\ s \o t \in Seq(Nat) /\ Len(s \o t) = Len(s) + Len(t)
        /\ \A i \in 1 .. Len(s) + Len(t) : (s \o t)[i] = IF i <= Len(s) THEN s[i] ELSE t[i - Len(s)]
    BY <1>1, ConcatProperties
  <1>3. /\ Len(s) \in Nat /\ Len(t) \in Nat /\ DOMAIN s = 1 .. Len(s) /\ DOMAIN t = 1 .. Len(t)
        /\ DOMAIN (s \o t) = 1 .. Len(s) + Len(t)
    BY <1>1, <1>2, LenProperties
  <1>4. ASSUME NEW i \in DOMAIN (s \o t)
        PROVE  (s \o t)[i] \in Range(s) \cup Range(t)
    <2>1. CASE i <= Len(s)
      <3>1. i \in DOMAIN s /\ (s \o t)[i] = s[i]
        BY <1>2, <1>3, <1>4, <2>1
      <3>. QED
        BY <3>1 DEF Range
    <2>2. CASE ~(i <= Len(s))
      <3>1. i - Len(s) \in DOMAIN t /\ (s \o t)[i] = t[i - Len(s)]
        BY <1>2, <1>3, <1>4, <2>2
      <3>. QED
        BY <3>1 DEF Range
    <2>. QED
      BY <2>1, <2>2
  <1>5. ASSUME NEW i \in DOMAIN s PROVE s[i] \in Range(s \o t)
    <2>1. i \in DOMAIN (s \o t) /\ (s \o t)[i] = s[i]
      BY <1>2, <1>3, <1>5
    <2>. QED
      BY <2>1 DEF Range
  <1>6. ASSUME NEW i \in DOMAIN t PROVE t[i] \in Range(s \o t)
    <2>1. /\ i + Len(s) \in 1 .. Len(s) + Len(t) /\ ~(i + Len(s) <= Len(s))
          /\ i + Len(s) - Len(s) = i
      BY <1>3, <1>6
    <2>2. i + Len(s) \in DOMAIN (s \o t) /\ (s \o t)[i + Len(s)] = t[i]
      BY <1>2, <1>3, <2>1
    <2>. QED
      BY <2>2 DEF Range
  <1>7. Range(s \o t) = Range(s) \cup Range(t)
    BY <1>4, <1>5, <1>6 DEF Range
  <1>8. MoreShown = s \o t /\ s = console.shown
    BY DEF MoreShown, s, t
  <1>. QED
    BY <1>1, <1>2, <1>7, <1>8

LEMMA ReportsTypeStep ==
    ASSUME ReportsTypeOK, ToldInv, PostInv, ConsoleInv, [ReportsNext]_reportVars
    PROVE  ReportsTypeOK'
  <1>0. /\ WorkerTypeOK /\ ServerTypeOK /\ HashTypeOK /\ SseTypeOK /\ ConsoleTypeOK
        /\ batched \in BOOLEAN /\ strangers \in Nat
    BY DEF ReportsTypeOK
  <1>1. UNCHANGED server => ServerTypeOK'
    BY <1>0 DEF ServerTypeOK
  <1>2. UNCHANGED <<hash, row>> => HashTypeOK'
    BY <1>0 DEF HashTypeOK
  <1>3. UNCHANGED sse => SseTypeOK'
    BY <1>0 DEF SseTypeOK
  <1>4. UNCHANGED console /\ (logFile' = logFile \/ Log(Quiet) \/ Log(Marker)
            \/ \E l \in {Quiet, Marker} : logFile' = Append(logFile, l)) => ConsoleTypeOK'
    BY <1>0, LogType DEF Log
  <1>5. UNCHANGED worker => WorkerTypeOK'
    BY <1>0 DEF WorkerTypeOK
  <1>6. CASE UNCHANGED reportVars
    BY <1>0, <1>1, <1>2, <1>3, <1>4, <1>5, <1>6 DEF reportVars, ReportsTypeOK
  <1>7. CASE BeginTask
    <2>1. WorkerTypeOK'
      BY <1>0, <1>7 DEF BeginTask, WorkerTypeOK, Stages
    <2>2. HashTypeOK'
      BY <1>0, <1>7 DEF BeginTask, Written, HashTypeOK, HashStatus
    <2>. QED
      BY <1>0, <1>1, <1>3, <1>4, <1>7, <2>1, <2>2 DEF BeginTask, readers, ReportsTypeOK
  \* A raise, into whichever handler.
  <1>17. ASSUME NEW code \in {"except", "handler"}, RaisedInto(code)
         PROVE  WorkerTypeOK'
    <2>1. (worker.sink /\ code # "except") \in BOOLEAN
      OBVIOUS
    <2>. QED
      BY <1>0, <1>17, <2>1 DEF RaisedInto, WorkerTypeOK, Stages, Outcomes
  <1>18. CASE BeginRaises
    <2>1. WorkerTypeOK' /\ HashTypeOK'
      BY <1>0, <1>17, <1>18 DEF BeginRaises, HashTypeOK, HashStatus
    <2>. QED
      BY <1>0, <1>1, <1>3, <1>4, <1>18, <2>1 DEF BeginRaises, readers, ReportsTypeOK
  \* What is written is a status.
  <1>19. worker.at \in {"hash", "row"} => worker.record \in HashStatus
    BY <1>0 DEF ToldInv, CodeInv, Undecided, WorkerTypeOK, HashStatus, Outcomes
  <1>8. ASSUME NEW outcome \in Outcomes, NEW n \in Nat, Execute(outcome, n) PROVE ReportsTypeOK'
    <2>1. WorkerTypeOK'
      BY <1>0, <1>8 DEF Execute, WorkerTypeOK, Stages, Outcomes
    <2>. QED
      BY <1>0, <1>1, <1>2, <1>3, <1>4, <1>8, <2>1 DEF Execute, readers, ReportsTypeOK
  <1>9. CASE ExecuteRaises
    <2>1. WorkerTypeOK'
      BY <1>0, <1>9 DEF ExecuteRaises, WorkerTypeOK, Stages, Outcomes
    <2>. QED
      BY <1>0, <1>1, <1>2, <1>3, <1>4, <1>9, <2>1 DEF ExecuteRaises, readers, ReportsTypeOK
  <1>10. CASE PostAcknowledged \/ PostFails
    <2>1. worker.batch \in 1 .. TotalBatches /\ worker.acked \in BOOLEAN /\ worker.posts + 1 \in Nat
      <3>1. worker.at = "post"
        BY <1>10 DEF PostAcknowledged, PostFails
      <3>2. worker.batch \in 1 .. TotalBatches
        BY <3>1 DEF PostInv
      <3>. QED
        BY <1>0, <3>2 DEF WorkerTypeOK
    <2>2. WorkerTypeOK'
      <3>1. CASE \E acked \in BOOLEAN : NextBatchOfPosts(acked)
        BY <1>0, <3>1, NextBatchType
      <3>2. CASE worker' = [worker EXCEPT !.posts = @ + 1]
        BY <1>0, <2>1, <3>2 DEF WorkerTypeOK
      <3>. QED
        BY <1>10, <2>1, <3>1, <3>2 DEF PostAcknowledged, PostFails
    <2>3. ServerTypeOK'
      BY <1>0, <1>1, <1>10, <2>1, HandledType DEF PostAcknowledged, PostFails
    <2>. QED
      BY <1>0, <1>2, <1>3, <1>4, <1>10, <2>2, <2>3
         DEF PostAcknowledged, PostFails, readers, ReportsTypeOK
  <1>11. CASE RecordProgress \/ RecordStatus \/ RecordResult
    <2>1. WorkerTypeOK'
      BY <1>0, <1>11 DEF RecordProgress, RecordStatus, RecordResult, WorkerTypeOK, Stages
    <2>2. HashTypeOK'
      BY <1>0, <1>11, <1>19 DEF RecordProgress, RecordStatus, RecordResult, HashTypeOK
    <2>. QED
      BY <1>0, <1>1, <1>3, <1>4, <1>11, <2>1, <2>2
         DEF RecordProgress, RecordStatus, RecordResult, readers, ReportsTypeOK
  <1>12. CASE RecordRow \/ RemoveSink \/ CountOut
    <2>1. WorkerTypeOK'
      <3>1. BehindRow \in Stages
        BY DEF BehindRow, Stages
      <3>2. CASE RecordRow
        BY <1>0, <3>1, <3>2 DEF RecordRow, WorkerTypeOK
      <3>3. CASE RemoveSink \/ CountOut
        BY <1>0, <3>3 DEF RemoveSink, CountOut, WorkerTypeOK, Stages
      <3>. QED
        BY <1>12, <3>2, <3>3
    <2>2. HashTypeOK'
      BY <1>0, <1>12, <1>19 DEF RecordRow, RemoveSink, CountOut, Written, HashTypeOK
    <2>. QED
      BY <1>0, <1>1, <1>3, <1>4, <1>12, <2>1, <2>2
         DEF RecordRow, RemoveSink, CountOut, readers, ReportsTypeOK
  <1>13. CASE Deadline
    <2>1. WorkerTypeOK'
      BY <1>0, <1>13 DEF Deadline, WorkerTypeOK, Stages
    <2>. QED
      BY <1>0, <1>1, <1>2, <1>3, <1>4, <1>13, <2>1 DEF Deadline, readers, ReportsTypeOK
  <1>20. CASE HashRaises \/ HandlerGivesUp
    <2>1. WorkerTypeOK'
      <3>1. CASE HashRaises
        BY <1>17, <3>1 DEF HashRaises
      <3>2. CASE HandlerGivesUp
        BY <1>0, <3>2 DEF HandlerGivesUp, WorkerTypeOK, Stages
      <3>. QED
        BY <1>20, <3>1, <3>2
    <2>2. HashTypeOK'
      <3>1. UNCHANGED row /\ (hash' = hash \/ \E status \in HashStatus :
                                 hash' = [hash EXCEPT !.status = status])
        BY <1>19, <1>20 DEF HashRaises, HandlerGivesUp, HashStatus, Outcomes
      <3>. QED
        BY <1>0, <3>1 DEF HashTypeOK
    <2>. QED
      BY <1>0, <1>1, <1>3, <1>4, <1>20, <2>1, <2>2
         DEF HashRaises, HandlerGivesUp, readers, ReportsTypeOK
  <1>14. ASSUME NEW line \in {Quiet, Marker}, StrangerLogs(line) PROVE ReportsTypeOK'
    <2>1. strangers' \in Nat
      BY <1>0, <1>14 DEF StrangerLogs
    <2>. QED
      BY <1>0, <1>1, <1>2, <1>3, <1>4, <1>5, <1>14, <2>1 DEF StrangerLogs, readers, ReportsTypeOK
  <1>15. CASE SseStatus \/ SseResult \/ SseGivesUp
    <2>1. SseTypeOK'
      <3>1. CASE SseStatus
        BY <1>0, <3>1 DEF SseStatus, SseTypeOK, HashTypeOK
      <3>2. CASE SseGivesUp
        BY <1>0, <3>2 DEF SseGivesUp, SseTypeOK
      <3>3. CASE SseResult
        <4>1. hash.result \in {"none", "old", "new"}
          BY <1>0 DEF HashTypeOK
        <4>2. CASE sse' = [sse EXCEPT !.at = "closed", !.end = sse.seen, !.result = hash.result]
          BY <1>0, <4>1, <4>2 DEF SseTypeOK
        <4>3. CASE sse' = [sse EXCEPT !.at = "poll", !.last = sse.seen,
                                      !.nodes = @ \cup ({hash.result} \ {"none"})]
          BY <1>0, <4>1, <4>3 DEF SseTypeOK
        <4>. QED
          BY <3>3, <4>2, <4>3 DEF SseResult
      <3>. QED
        BY <1>15, <3>1, <3>2, <3>3
    <2>. QED
      BY <1>0, <1>1, <1>2, <1>4, <1>5, <1>15, <2>1
         DEF SseStatus, SseResult, SseGivesUp, ReportsTypeOK
  <1>16. CASE ConsoleStep \/ ConsoleGivesUp
    <2>1. UNCHANGED <<batched, worker, server, hash, row, logFile, strangers, sse>>
      BY <1>16 DEF ConsoleStep, ConsoleGivesUp, ConsoleFindsFile, ConsoleMeasures, ConsoleReads,
                   ConsoleReadsLast
    <2>2. Len(logFile) \in Nat /\ console.pos <= Len(logFile)
      BY <1>0, LenProperties DEF ConsoleTypeOK, ConsoleInv
    <2>3. ConsoleTypeOK'
      <3>1. CASE ConsoleGivesUp \/ ConsoleFindsFile
        BY <1>0, <3>1 DEF ConsoleGivesUp, ConsoleFindsFile, ConsoleTypeOK
      <3>2. CASE ConsoleMeasures
        BY <1>0, <2>2, <3>2 DEF ConsoleMeasures, ConsoleTypeOK
      <3>3. CASE ConsoleReads
        <4>1. \E at \in {"last", "size"} :
                 console' = [console EXCEPT !.shown = MoreShown, !.pos = console.size, !.at = at]
          BY <3>3 DEF ConsoleReads, MoreShown
        <4>. QED
          BY <1>0, <2>1, <2>2, <4>1, MoreShownType DEF ConsoleTypeOK
      <3>4. CASE ConsoleReadsLast
        <4>1. console' = [console EXCEPT !.shown = MoreShown, !.at = "closed"]
          BY <1>0, <3>4 DEF ConsoleReadsLast, MoreShown, ConsoleTypeOK
        <4>. QED
          BY <1>0, <2>1, <2>2, <4>1, MoreShownType DEF ConsoleTypeOK
      <3>. QED
        BY <1>16, <3>1, <3>2, <3>3, <3>4 DEF ConsoleStep
    <2>. QED
      BY <1>0, <1>1, <1>2, <1>3, <1>5, <2>1, <2>3 DEF ReportsTypeOK
  <1>. QED
    BY <1>6, <1>7, <1>8, <1>9, <1>10, <1>11, <1>12, <1>13, <1>14, <1>15, <1>16, <1>18, <1>20,
       ReportsAssumption
       DEF ReportsNext, WorkerStep, SseStep, Outcomes

-----------------------------------------------------------------------------
(* What is told *)

LEMMA ToldStep ==
    ASSUME ReportsTypeOK, ToldInv, [ReportsNext]_reportVars
    PROVE  ToldInv'
  <1>0. /\ WorkerTypeOK /\ ServerTypeOK /\ HashTypeOK /\ SseTypeOK
        /\ CodeInv /\ TellInv /\ RowInv
    BY DEF ReportsTypeOK, ToldInv
  <1>1. CASE UNCHANGED <<worker, server, hash, row, sse>>
    BY <1>0, <1>1 DEF ToldInv, CodeInv, TellInv, RowInv, Undecided
  <1>2. CASE BeginTask
    <2>1. /\ worker.at = "begin" /\ worker'.at = "execute" /\ UNCHANGED <<server, sse>>
          /\ worker'.code = worker.code /\ worker'.outcome = worker.outcome
          /\ worker'.raised = worker.raised /\ worker'.record = worker.record
          /\ hash'.status = "running" /\ row' \in {row, "running"}
      BY <1>0, <1>2 DEF BeginTask, Written, readers, WorkerTypeOK, HashTypeOK
    <2>. QED
      BY <1>0, <2>1 DEF ToldInv, CodeInv, TellInv, RowInv, Undecided, Outcomes
  \* A raise, before or behind the callback: what is told from here on is failed.
  <1>3. ASSUME NEW code \in {"except", "handler"}, RaisedInto(code), UNCHANGED <<server, row, sse>>,
               hash'.status \in {hash.status, "running", "timeout", "failed", worker.record},
               worker.record \in Outcomes => worker.record \in {worker.outcome, "failed"}
        PROVE  ToldInv'
    <2>1. /\ worker'.at = "hash" /\ worker'.code = code /\ worker'.outcome = worker.outcome
          /\ worker'.raised /\ worker'.record = "failed"
      BY <1>0, <1>3 DEF RaisedInto, WorkerTypeOK
    <2>2. CodeInv' /\ RowInv'
      BY <2>1 DEF CodeInv, RowInv, Undecided
    <2>3. ASSUME NEW s \in Outcomes, hash'.status = s \/ sse.seen = s \/ sse.end = s
          PROVE  worker.outcome = s \/ s = "failed"
      BY <1>0, <1>3, <2>3 DEF TellInv, Outcomes
    <2>4. ~Undecided' /\ server.status \subseteq {worker.outcome}
      BY <1>0, <2>1 DEF TellInv, Undecided
    <2>5. TellInv'
      BY <1>3, <2>1, <2>3, <2>4 DEF TellInv
    <2>. QED
      BY <2>2, <2>5 DEF ToldInv
  <1>4. CASE BeginRaises
    <2>1. /\ RaisedInto("except") /\ UNCHANGED <<server, row, sse>>
          /\ hash'.status \in {hash.status, "running"}
          /\ worker.record = "none"
      BY <1>0, <1>4 DEF BeginRaises, readers, HashTypeOK, CodeInv, Undecided
    <2>2. "none" \notin Outcomes
      BY DEF Outcomes
    <2>. QED
      BY <1>3, <2>1, <2>2
  <1>5. ASSUME NEW outcome \in Outcomes, worker.at = "execute", worker'.at = "post",
               worker'.outcome = outcome, worker'.record = outcome,
               UNCHANGED <<server, hash, row, sse>>,
               worker'.code = worker.code, worker'.raised = worker.raised
        PROVE  ToldInv'
    <2>1. /\ worker.outcome = "none" /\ server.status = {} /\ worker.code = "task"
          /\ ~worker.raised
      BY <1>0, <1>5 DEF CodeInv, TellInv, Undecided
    <2>2. \A s \in Outcomes : s # "none"
      BY DEF Outcomes
    <2>. QED
      BY <1>0, <1>5, <2>1, <2>2 DEF ToldInv, CodeInv, TellInv, RowInv, Undecided
  <1>6. CASE ExecuteRaises \/ \E outcome \in Outcomes, n \in 0 .. MaxSteps : Execute(outcome, n)
    <2>1. \E outcome \in Outcomes :
             /\ worker.at = "execute" /\ worker'.at = "post"
             /\ worker'.outcome = outcome /\ worker'.record = outcome
             /\ worker'.code = worker.code /\ worker'.raised = worker.raised
      BY <1>0, <1>6 DEF Execute, ExecuteRaises, WorkerTypeOK, Outcomes
    <2>2. UNCHANGED <<server, hash, row, sse>>
      BY <1>6 DEF Execute, ExecuteRaises, readers
    <2>. QED
      BY <1>5, <2>1, <2>2
  <1>7. CASE PostAcknowledged \/ PostFails
    <2>1. /\ worker.at = "post" /\ UNCHANGED <<hash, row, sse>>
          /\ server' = server \/ Handled
      BY <1>7 DEF PostAcknowledged, PostFails, readers
    <2>2. /\ worker'.at \in {"post", "progress"} /\ worker'.outcome = worker.outcome
          /\ worker'.code = worker.code /\ worker'.raised = worker.raised
          /\ worker'.record = worker.record
      BY <1>0, <1>7, <2>1 DEF PostAcknowledged, PostFails, NextBatchOfPosts, WorkerTypeOK
    <2>3. server'.status \subseteq {worker.outcome}
      BY <1>0, <2>1 DEF Handled, TellInv
    <2>. QED
      BY <1>0, <2>1, <2>2, <2>3 DEF ToldInv, CodeInv, TellInv, RowInv, Undecided
  <1>8. CASE RecordProgress \/ RecordStatus \/ RecordResult
    <2>1. /\ worker.at \in {"progress", "hash", "result"} /\ worker'.at \in {"hash", "result", "row"}
          /\ worker'.at = "result" => worker.code = "task"
          /\ worker'.code = worker.code /\ worker'.raised = worker.raised
          /\ worker'.outcome = worker.outcome /\ worker'.record = worker.record
      BY <1>0, <1>8 DEF RecordProgress, RecordStatus, RecordResult, RecordsSuccess, WorkerTypeOK
    <2>2. /\ UNCHANGED <<server, row, sse>>
          /\ hash'.status \in {hash.status, worker.record}
      BY <1>0, <1>8 DEF RecordProgress, RecordStatus, RecordResult, readers, HashTypeOK
    <2>3. ASSUME worker.record \in Outcomes
          PROVE  worker.record = worker.outcome \/ (worker.raised /\ worker.record = "failed")
      BY <1>0, <2>1, <2>3 DEF CodeInv, Undecided, WorkerTypeOK, Outcomes
    <2>4. CodeInv' /\ RowInv'
      BY <1>0, <2>1, <2>2 DEF CodeInv, RowInv, Undecided
    <2>5. TellInv'
      BY <1>0, <2>1, <2>2, <2>3 DEF TellInv, Undecided
    <2>. QED
      BY <2>4, <2>5 DEF ToldInv
  <1>9. CASE RecordRow
    <2>1. /\ worker.at = "row" /\ worker'.at = BehindRow
          /\ worker'.code = worker.code /\ worker'.raised = worker.raised
          /\ worker'.outcome = worker.outcome /\ worker'.record = worker.record
      BY <1>0, <1>9 DEF RecordRow, WorkerTypeOK
    <2>2. /\ UNCHANGED <<server, hash, sse>>
          /\ row' = worker.record \/ (row' = row /\ worker'.unwritten = TRUE)
      BY <1>9 DEF RecordRow, Written, readers
    <2>3. CodeInv' /\ TellInv'
      BY <1>0, <2>1, <2>2 DEF CodeInv, TellInv, Undecided, BehindRow
    <2>4. RowInv'
      BY <1>0, <2>1, <2>2 DEF CodeInv, RowInv, Undecided, BehindRow
    <2>. QED
      BY <2>3, <2>4 DEF ToldInv
  <1>10. CASE RemoveSink \/ CountOut
    <2>1. /\ worker.at \in {"unsink", "counters"} /\ worker'.at \in {"counters", "over"}
          /\ worker'.code = worker.code /\ worker'.raised = worker.raised
          /\ worker'.outcome = worker.outcome /\ worker'.record = worker.record
          /\ worker'.unwritten = worker.unwritten
      BY <1>0, <1>10 DEF RemoveSink, CountOut, WorkerTypeOK
    <2>2. UNCHANGED <<server, hash, row, sse>>
      BY <1>10 DEF RemoveSink, CountOut, readers
    <2>. QED
      BY <1>0, <2>1, <2>2 DEF ToldInv, CodeInv, TellInv, RowInv, Undecided
  <1>11. CASE Deadline
    <2>1. /\ worker.at \in {"execute", "post", "progress", "hash", "result", "row", "unsink"}
          /\ worker'.at = "hash" /\ worker'.code = "cut" /\ worker'.record = "timeout"
          /\ worker'.raised = worker.raised /\ worker'.outcome = worker.outcome
          /\ worker.code \in {"task", "except"}
      BY <1>0, <1>11 DEF Deadline, WorkerTypeOK
    <2>2. UNCHANGED <<server, hash, row, sse>>
      BY <1>11 DEF Deadline, readers
    <2>. QED
      BY <1>0, <2>1, <2>2 DEF ToldInv, CodeInv, TellInv, RowInv, Undecided
  <1>12. CASE HashRaises
    <2>1. /\ worker.at \in {"progress", "counters", "hash"} /\ UNCHANGED <<server, row, sse>>
          /\ hash'.status \in {hash.status, worker.record}
          /\ \E code \in {"except", "handler"} : RaisedInto(code)
      BY <1>0, <1>12 DEF HashRaises, readers, HashTypeOK
    <2>2. worker.record \in Outcomes => worker.record \in {worker.outcome, "failed"}
      BY <1>0, <2>1 DEF CodeInv, Undecided, WorkerTypeOK, Outcomes
    <2>. QED
      BY <1>3, <2>1, <2>2
  <1>13. CASE HandlerGivesUp
    <2>1. /\ worker.code = "handler" /\ worker'.at = "over" /\ worker'.unwritten
          /\ worker'.code = worker.code /\ worker'.raised = worker.raised
          /\ worker'.outcome = worker.outcome /\ worker'.record = worker.record
      BY <1>0, <1>13 DEF HandlerGivesUp, WorkerTypeOK
    <2>2. /\ UNCHANGED <<server, row, sse>>
          /\ hash'.status \in {hash.status, "failed"}
      BY <1>0, <1>13 DEF HandlerGivesUp, readers, HashTypeOK
    <2>. QED
      BY <1>0, <2>1, <2>2 DEF ToldInv, CodeInv, TellInv, RowInv, Undecided
  <1>14. CASE SseStatus
    <2>1. /\ UNCHANGED <<worker, server, hash, row>>
          /\ sse'.seen = hash.status /\ sse'.end = sse.end
      BY <1>0, <1>14 DEF SseStatus, SseTypeOK
    <2>. QED
      BY <1>0, <2>1 DEF ToldInv, CodeInv, TellInv, RowInv, Undecided
  <1>15. CASE SseResult \/ SseGivesUp
    <2>1. /\ UNCHANGED <<worker, server, hash, row>>
          /\ sse'.seen = sse.seen /\ sse'.end \in {sse.end, sse.seen}
      BY <1>0, <1>15 DEF SseResult, SseGivesUp, SseTypeOK
    <2>. QED
      BY <1>0, <2>1 DEF ToldInv, CodeInv, TellInv, RowInv, Undecided
  <1>16. CASE ConsoleStep \/ ConsoleGivesUp
    BY <1>1, <1>16 DEF ConsoleStep, ConsoleGivesUp, ConsoleFindsFile, ConsoleMeasures, ConsoleReads,
                       ConsoleReadsLast
  <1>17. CASE \E line \in {Quiet, Marker} : StrangerLogs(line)
    BY <1>1, <1>17 DEF StrangerLogs, readers
  <1>18. CASE UNCHANGED reportVars
    BY <1>1, <1>18 DEF reportVars
  <1>. QED
    BY <1>2, <1>4, <1>6, <1>7, <1>8, <1>9, <1>10, <1>11, <1>12, <1>13, <1>14, <1>15, <1>16, <1>17,
       <1>18 DEF ReportsNext, WorkerStep, SseStep, Outcomes

-----------------------------------------------------------------------------
(* What is acknowledged *)

LEMMA PostStep ==
    ASSUME ReportsTypeOK, PostInv, [ReportsNext]_reportVars
    PROVE  PostInv'
  <1>0. WorkerTypeOK /\ ServerTypeOK
    BY DEF ReportsTypeOK
  \* Behind the posts nothing of the report changes.
  <1>1. ASSUME UNCHANGED server, ~Undecided', worker'.at # "post", worker'.steps = worker.steps,
               worker'.answer = worker.answer
        PROVE  PostInv'
    BY <1>1 DEF PostInv, AcknowledgedIsDelivered
  <1>2. CASE UNCHANGED <<batched, worker, server>>
    BY <1>2 DEF PostInv, AcknowledgedIsDelivered, Undecided, TotalBatches
  <1>3. CASE BeginTask
    <2>1. /\ worker'.at = "execute" /\ worker.at = "begin" /\ UNCHANGED server
          /\ worker'.steps = worker.steps /\ worker'.batch = worker.batch
          /\ worker'.answer = worker.answer
      BY <1>0, <1>3 DEF BeginTask, WorkerTypeOK
    <2>. QED
      BY <2>1 DEF PostInv, AcknowledgedIsDelivered, Undecided
  <1>4. ASSUME NEW n \in Nat, worker.at = "execute", UNCHANGED <<batched, server>>,
               worker'.at = "post", worker'.steps = n, worker'.batch = worker.batch,
               worker'.answer = worker.answer, WorkerTypeOK'
        PROVE  PostInv'
    <2>1. worker.batch = 1 /\ worker.answer = "none" /\ server.steps = {}
      BY <1>4 DEF PostInv, Undecided
    <2>2. TotalBatches' = PartsOf(batched', worker'.steps)
      BY DEF TotalBatches, PartsOf
    <2>3. TotalBatches' \in Nat \ {0}
      BY <1>4, <2>2, PartsOfSteps
    <2>4. StepsPerPost \in Nat
      BY ReportsAssumption
    <2>5. \A k \in 1 .. n : ~(k <= (1 - 1) * StepsPerPost)
      BY <1>4, <2>4
    <2>. QED
      BY <1>4, <2>1, <2>3, <2>5 DEF PostInv, AcknowledgedIsDelivered, Undecided
  <1>5. CASE \E outcome \in Outcomes, n \in 0 .. MaxSteps : Execute(outcome, n)
    <2>1. PICK outcome \in Outcomes, n \in 0 .. MaxSteps : Execute(outcome, n)
      BY <1>5
    <2>2. n \in Nat
      BY ReportsAssumption
    <2>3. /\ worker' = [worker EXCEPT !.at = "post", !.outcome = outcome, !.record = outcome,
                                       !.steps = n]
          /\ worker.at = "execute" /\ UNCHANGED <<batched, server>>
      BY <2>1 DEF Execute
    <2>4. WorkerTypeOK' /\ worker'.at = "post" /\ worker'.steps = n
          /\ worker'.batch = worker.batch /\ worker'.answer = worker.answer
      BY <1>0, <2>2, <2>3 DEF WorkerTypeOK, Stages, Outcomes
    <2>. QED
      BY <1>4, <2>2, <2>3, <2>4
  <1>6. CASE ExecuteRaises
    <2>1. /\ worker' = [worker EXCEPT !.at = "post", !.outcome = "failed", !.record = "failed"]
          /\ worker.at = "execute" /\ UNCHANGED <<batched, server>>
      BY <1>6 DEF ExecuteRaises
    <2>2. WorkerTypeOK' /\ worker'.at = "post" /\ worker'.steps = worker.steps
          /\ worker'.batch = worker.batch /\ worker'.answer = worker.answer
          /\ worker.steps \in Nat
      BY <1>0, <2>1 DEF WorkerTypeOK, Stages, Outcomes
    <2>. QED
      BY <1>4, <2>1, <2>2
  <1>7. CASE PostAcknowledged \/ PostFails
    <2>0. /\ worker.at = "post" /\ UNCHANGED batched
          /\ worker.batch \in 1 .. TotalBatches /\ TotalBatches \in Nat \ {0}
          /\ worker.steps \in Nat /\ StepsPerPost \in Nat \ {0} /\ worker.batch \in Nat \ {0}
          /\ worker.answer = "none"
      <3>1. worker.at = "post" /\ UNCHANGED batched
        BY <1>7 DEF PostAcknowledged, PostFails
      <3>2. worker.batch \in 1 .. TotalBatches /\ worker.answer = "none"
        BY <3>1 DEF PostInv
      <3>. QED
        BY <1>0, <3>1, <3>2, PartsCover, ReportsAssumption DEF WorkerTypeOK
    <2>7. ASSUME Handled
          PROVE  /\ server'.steps = server.steps \cup StepsOfBatch(worker.batch)
                 /\ server.totals \/ worker.batch = 1 => server'.totals
      <3>1. server' = [steps |-> server.steps \cup StepsOfBatch(worker.batch),
                       totals |-> server.totals \/ worker.batch = 1,
                       status |-> server.status \cup {worker.outcome}]
        BY <2>7 DEF Handled
      <3>2. server'.totals = (server.totals \/ worker.batch = 1)
        BY <3>1
      <3>. QED
        BY <3>1, <3>2
    <2>1. /\ server.steps \subseteq server'.steps
          /\ server'.steps \subseteq 1 .. worker.steps
          /\ server.totals => server'.totals
      <3>1. StepsOfBatch(worker.batch) \subseteq 1 .. worker.steps
        BY <1>0, <2>0, StepsOfPart
      <3>2. server' = server \/ Handled
        BY <1>7 DEF PostAcknowledged, PostFails
      <3>3. server.steps \subseteq 1 .. worker.steps
        BY DEF PostInv
      <3>4. CASE server' = server
        BY <3>3, <3>4
      <3>5. CASE Handled
        BY <2>7, <3>1, <3>3, <3>5
      <3>. QED
        BY <3>2, <3>4, <3>5
    \* Posted again, or the next part: without an acknowledgement nothing is
    \* said any more.
    <2>2. CASE worker' = [worker EXCEPT !.posts = @ + 1]
      <3>1. /\ worker'.at = "post" /\ worker'.steps = worker.steps
            /\ worker'.batch = worker.batch /\ worker'.answer = worker.answer
            /\ worker'.acked = worker.acked
        BY <1>0, <2>0, <2>2 DEF WorkerTypeOK
      <3>2. TotalBatches' = TotalBatches
        BY <2>0, <3>1 DEF TotalBatches
      <3>. QED
        BY <2>0, <2>1, <3>1, <3>2 DEF PostInv, AcknowledgedIsDelivered, Undecided
    <2>3. ASSUME NEW acked \in BOOLEAN, NextBatchOfPosts(acked), acked => worker.acked /\ Handled
          PROVE  PostInv'
      \* All steps of the parts up to this one.
      <3>1. ASSUME acked, NEW k \in 1 .. worker.steps, k <= worker.batch * StepsPerPost
            PROVE  k \in server'.steps
        <4>1. CASE k <= (worker.batch - 1) * StepsPerPost
          BY <2>0, <2>1, <2>3, <3>1, <4>1 DEF PostInv
        <4>2. CASE ~(k <= (worker.batch - 1) * StepsPerPost)
          <5>1. (worker.batch - 1) * StepsPerPost \in Int /\ k \in Int
            BY <2>0
          <5>2. (worker.batch - 1) * StepsPerPost < k
            BY <4>2, <5>1
          <5>3. k \in StepsOfBatch(worker.batch)
            BY <1>0, <2>0, <3>1, <5>2, StepsOfPart
          <5>. QED
            BY <2>3, <2>7, <3>1, <5>3
        <4>. QED
          BY <4>1, <4>2
      <3>2. ASSUME acked PROVE server'.totals
        <4>1. CASE worker.batch = 1
          BY <2>3, <2>7, <3>2, <4>1
        <4>2. CASE worker.batch # 1
          BY <2>0, <2>1, <2>3, <3>2, <4>2 DEF PostInv
        <4>. QED
          BY <4>1, <4>2
      <3>3. CASE worker.batch = TotalBatches
        <4>1. worker' = [worker EXCEPT !.at = "progress", !.acked = acked,
                                       !.answer = IF acked THEN "success" ELSE "failure"]
          BY <2>3, <3>3 DEF NextBatchOfPosts
        <4>2. /\ worker'.at = "progress" /\ worker'.steps = worker.steps
              /\ worker'.answer = "success" => acked
          BY <1>0, <4>1 DEF WorkerTypeOK
        <4>3. ASSUME acked PROVE server'.steps = 1 .. worker.steps
          <5>1. batched => worker.steps <= worker.batch * StepsPerPost
            BY <1>0, <3>3, PartsCover
          <5>2. CASE batched
            <6>1. \A k \in 1 .. worker.steps : k <= worker.batch * StepsPerPost
              <7>1. worker.batch * StepsPerPost \in Nat
                BY <2>0
              <7>. QED
                BY <2>0, <5>1, <5>2, <7>1
            <6>. QED
              BY <2>1, <3>1, <4>3, <6>1
          <5>3. CASE ~batched
            <6>1. StepsOfBatch(worker.batch) = 1 .. worker.steps
              BY <1>0, <2>0, <5>3, StepsOfPart
            <6>. QED
              BY <2>1, <2>3, <2>7, <4>3, <6>1
          <5>. QED
            BY <5>2, <5>3
        <4>. QED
          BY <2>1, <3>2, <4>2, <4>3 DEF PostInv, AcknowledgedIsDelivered, Undecided
      <3>4. CASE worker.batch # TotalBatches
        <4>1. worker' = [worker EXCEPT !.batch = @ + 1, !.posts = 0, !.acked = acked]
          BY <2>3, <3>4 DEF NextBatchOfPosts
        <4>2. /\ worker'.at = "post" /\ worker'.steps = worker.steps
              /\ worker'.batch = worker.batch + 1 /\ worker'.answer = worker.answer
              /\ worker'.acked = acked
          BY <1>0, <2>0, <4>1 DEF WorkerTypeOK
        <4>3. TotalBatches' = TotalBatches
          BY <2>0, <4>2 DEF TotalBatches
        <4>4. worker'.batch \in 1 .. TotalBatches' /\ worker'.batch - 1 = worker.batch
          BY <2>0, <3>4, <4>2, <4>3
        <4>5. worker'.acked => /\ \A k \in 1 .. worker'.steps :
                                     k <= (worker'.batch - 1) * StepsPerPost => k \in server'.steps
                               /\ server'.totals
          BY <3>1, <3>2, <4>2, <4>4
        <4>. QED
          BY <2>0, <2>1, <4>2, <4>4, <4>5 DEF PostInv, AcknowledgedIsDelivered, Undecided
      <3>. QED
        BY <3>3, <3>4
    <2>4. worker.acked \in BOOLEAN
      BY <1>0 DEF WorkerTypeOK
    <2>5. CASE PostAcknowledged
      BY <2>3, <2>4, <2>5 DEF PostAcknowledged
    <2>6. CASE PostFails
      BY <2>2, <2>3, <2>6 DEF PostFails
    <2>. QED
      BY <1>7, <2>5, <2>6
  <1>8. CASE \/ RecordProgress \/ RecordStatus \/ RecordResult \/ RecordRow \/ RemoveSink
             \/ CountOut \/ BeginRaises \/ HashRaises \/ HandlerGivesUp
    <2>1. /\ UNCHANGED server /\ worker'.at \in {"hash", "result", "row", "unsink", "counters", "over"}
          /\ worker'.steps = worker.steps /\ worker'.answer = worker.answer
      BY <1>0, <1>8 DEF RecordProgress, RecordStatus, RecordResult, RecordRow, BehindRow, RemoveSink,
                        CountOut, BeginRaises, HashRaises, HandlerGivesUp, RaisedInto, WorkerTypeOK
    <2>. QED
      BY <1>1, <2>1 DEF Undecided
  <1>9. CASE Deadline
    <2>1. /\ UNCHANGED server /\ worker'.at = "hash"
          /\ worker'.steps = worker.steps /\ worker'.answer = worker.answer
      BY <1>0, <1>9 DEF Deadline, WorkerTypeOK
    <2>. QED
      BY <1>1, <2>1 DEF Undecided
  <1>10. CASE \/ \E line \in {Quiet, Marker} : StrangerLogs(line)
              \/ SseStep \/ SseGivesUp \/ ConsoleStep \/ ConsoleGivesUp \/ UNCHANGED reportVars
    <2>1. UNCHANGED <<batched, worker, server>>
      BY <1>10 DEF StrangerLogs, SseStep, SseStatus, SseResult, SseGivesUp, ConsoleStep,
                   ConsoleGivesUp, ConsoleFindsFile, ConsoleMeasures, ConsoleReads,
                   ConsoleReadsLast, reportVars
    <2>. QED
      BY <1>2, <2>1
  <1>. QED
    BY <1>3, <1>5, <1>6, <1>7, <1>8, <1>9, <1>10 DEF ReportsNext, WorkerStep, Outcomes

-----------------------------------------------------------------------------
(* What is shown *)

LEMMA ShownStep ==
    ASSUME ReportsTypeOK, ConsoleInv, [ReportsNext]_reportVars
    PROVE  ConsoleInv'
  <1>0. /\ ConsoleTypeOK /\ Len(logFile) \in Nat
        /\ console.pos \in Nat /\ console.size \in Nat
    BY LenProperties DEF ReportsTypeOK, ConsoleTypeOK
  \* Others only make the file longer.
  <1>1. ASSUME UNCHANGED console,
               logFile' = logFile \/ \E line \in {Quiet, Marker} : logFile' = Append(logFile, line)
        PROVE  ConsoleInv'
    <2>1. Len(logFile') \in Nat /\ Len(logFile) <= Len(logFile')
      BY <1>0, <1>1, LogType
    <2>. QED
      BY <1>0, <1>1, <2>1 DEF ConsoleInv
  <1>2. CASE WorkerStep \/ Deadline \/ SseStep \/ SseGivesUp \/ UNCHANGED reportVars
             \/ \E line \in {Quiet, Marker} : StrangerLogs(line)
    <2>1. UNCHANGED console
      BY <1>2 DEF WorkerStep, Deadline, SseStep, SseGivesUp, StrangerLogs, BeginTask, Execute,
                  BeginRaises, ExecuteRaises, PostAcknowledged, PostFails, RecordProgress,
                  RecordStatus, RecordResult, RecordRow, RemoveSink, CountOut, HashRaises,
                  HandlerGivesUp, SseStatus, SseResult, readers, reportVars
    <2>2. logFile' = logFile \/ \E line \in {Quiet, Marker} : logFile' = Append(logFile, line)
      BY <1>2 DEF WorkerStep, Deadline, SseStep, SseGivesUp, StrangerLogs, BeginTask, Execute,
                  BeginRaises, ExecuteRaises, PostAcknowledged, PostFails, RecordProgress,
                  RecordStatus, RecordResult, RecordRow, RemoveSink, CountOut, HashRaises,
                  HandlerGivesUp, SseStatus, SseResult, Log, reportVars
    <2>. QED
      BY <1>1, <2>1, <2>2
  <1>3. CASE ConsoleGivesUp \/ ConsoleFindsFile
    <2>1. /\ UNCHANGED logFile /\ console'.pos = console.pos /\ console'.size = console.size
          /\ console'.shown = console.shown
      BY <1>0, <1>3 DEF ConsoleGivesUp, ConsoleFindsFile, ConsoleTypeOK
    <2>. QED
      BY <2>1 DEF ConsoleInv
  <1>4. CASE ConsoleMeasures
    <2>1. /\ UNCHANGED logFile /\ console'.pos = console.pos /\ console'.size = Len(logFile)
          /\ console'.shown = console.shown
      BY <1>0, <1>4 DEF ConsoleMeasures, ConsoleTypeOK
    <2>. QED
      BY <1>0, <2>1 DEF ConsoleInv
  <1>5. CASE ConsoleReads \/ ConsoleReadsLast
    <2>1. /\ UNCHANGED logFile /\ console'.size = console.size
          /\ console'.pos \in {console.pos, console.size} /\ console'.shown = MoreShown
      <3>1. CASE ConsoleReads
        <4>1. /\ UNCHANGED logFile
              /\ \E at \in {"last", "size"} :
                   console' = [console EXCEPT !.shown = MoreShown, !.pos = console.size, !.at = at]
          BY <3>1 DEF ConsoleReads, MoreShown
        <4>. QED
          BY <1>0, <4>1 DEF ConsoleTypeOK
      <3>2. CASE ConsoleReadsLast
        BY <1>0, <3>2 DEF ConsoleReadsLast, MoreShown, ConsoleTypeOK
      <3>. QED
        BY <1>5, <3>1, <3>2
    <2>2. PICK m \in Nat : console.pos <= m /\ Range(console.shown) = 1 .. m
      BY DEF ConsoleInv
    <2>3. console.pos <= Len(logFile) /\ console.size <= Len(logFile)
      BY DEF ConsoleInv
    <2>4. Range(MoreShown) = (1 .. m) \cup ((console.pos + 1) .. Len(logFile))
      BY <1>0, <2>2, <2>3, MoreShownType
    <2>5. \E l \in Nat : /\ Len(logFile) <= l
                         /\ (1 .. m) \cup ((console.pos + 1) .. Len(logFile)) = 1 .. l
      <3>1. CASE m <= Len(logFile)
        BY <1>0, <2>2, <3>1
      <3>2. CASE ~(m <= Len(logFile))
        BY <1>0, <2>2, <3>2
      <3>. QED
        BY <3>1, <3>2
    <2>. QED
      BY <1>0, <2>1, <2>3, <2>4, <2>5 DEF ConsoleInv
  <1>. QED
    BY <1>2, <1>3, <1>4, <1>5 DEF ReportsNext, ConsoleStep

-----------------------------------------------------------------------------
ReportsInv == ReportsTypeOK /\ ToldInv /\ PostInv /\ ConsoleInv

LEMMA ReportsInitInv ==
    ASSUME ReportsInit
    PROVE  ReportsInv
  <1>1. ReportsTypeOK
    BY ReportsInitType
  <1>2. ToldInv
    BY DEF ReportsInit, WorkerStart, StoredBefore, ToldInv, CodeInv, TellInv, RowInv, Undecided,
           Outcomes
  <1>3. PostInv
    BY DEF ReportsInit, WorkerStart, PostInv, AcknowledgedIsDelivered, Undecided
  <1>4. ConsoleInv
    <2>1. console.pos = 0 /\ console.size = 0 /\ console.shown = << >> /\ logFile = << >>
      BY DEF ReportsInit
    <2>2. Range(<< >>) = 1 .. 0 /\ Len(logFile) = 0
      BY <2>1 DEF Range
    <2>3. 0 \in Nat /\ console.pos <= 0 /\ Range(console.shown) = 1 .. 0
      BY <2>1, <2>2
    <2>. QED
      BY <2>1, <2>2, <2>3 DEF ConsoleInv
  <1>. QED
    BY <1>1, <1>2, <1>3, <1>4 DEF ReportsInv

LEMMA ReportsInvariant == ReportsSpec => []ReportsInv
  <1>1. ReportsInit => ReportsInv
    BY ReportsInitInv
  <1>2. ReportsInv /\ [ReportsNext]_reportVars => ReportsInv'
    BY ReportsTypeStep, ToldStep, PostStep, ShownStep DEF ReportsInv
  <1>. QED
    BY <1>1, <1>2, PTL DEF ReportsSpec

\* Whatever outcome the event stream or the callback has told of a task that
\* is over is the row's, unless the deadline came in between, a write of the
\* hash raised and the row says failed, or the row's own write was lost
\* (execute_task, event_stream, update_task_status_in_db).
THEOREM ToldOutcomeIsRecorded == ReportsSpec => []ToldIsRecorded
  <1>1. ASSUME ReportsInv PROVE ToldIsRecorded
    <2>0. WorkerTypeOK /\ CodeInv /\ TellInv /\ RowInv
      BY <1>1 DEF ReportsInv, ReportsTypeOK, ToldInv
    <2>1. ASSUME worker.at = "over", NEW s \in Outcomes,
                 sse.end = s \/ s \in server.status
          PROVE  \/ row \in {s, "timeout"}
                 \/ worker.raised /\ (row = "failed" \/ worker.unwritten)
                 \/ worker.unwritten /\ row \in {"pending", "running"}
      <3>1. worker.outcome = s \/ (worker.raised /\ s = "failed")
        BY <2>0, <2>1 DEF TellInv
      <3>2. worker.code \in {"task", "except", "cut", "handler"}
        BY <2>0 DEF WorkerTypeOK
      <3>. QED
        BY <2>0, <2>1, <3>1, <3>2 DEF CodeInv, RowInv
    <2>. QED
      BY <2>1 DEF ToldIsRecorded, Outcomes
  <1>. QED
    BY <1>1, ReportsInvariant, PTL

\* A callback that answers success has delivered every step of the report and
\* the totals, for every size of the report and of its parts and whichever
\* posts were lost or repeated (_send_batch_callback).
THEOREM AcknowledgedWasDelivered == ReportsSpec => []AcknowledgedIsDelivered
  <1>1. ReportsInv => AcknowledgedIsDelivered
    BY DEF ReportsInv, PostInv
  <1>. QED
    BY <1>1, ReportsInvariant, PTL

\* The console never passes a line over, however the file grows while it is
\* measured and read (log_stream).
THEOREM ConsoleShowsAll == ReportsSpec => []ConsoleHasNoGap
  <1>1. ASSUME ReportsInv PROVE ConsoleHasNoGap
    <2>1. PICK m \in Nat : Range(console.shown) = 1 .. m
      BY <1>1 DEF ReportsInv, ConsoleInv
    <2>. QED
      BY <2>1 DEF ConsoleHasNoGap
  <1>. QED
    BY <1>1, ReportsInvariant, PTL

=============================================================================
