----------------------------- MODULE PartsProofs -----------------------------
(***************************************************************************)
(* Theorems about the parts of SystemParts that have no module of theorems *)
(* of their own: the log collectors, the loop node, the MySQL node, the    *)
(* browser session and the debugger, each for every value of its           *)
(* constants.                                                              *)
(***************************************************************************)
EXTENDS WorkflowDebugger, StepLogs, LoopNodes, SqlBatch, UISession, FiniteSetTheorems,
        SequenceTheorems, TLAPS

-----------------------------------------------------------------------------
(* The logs of a step are its own *)

Line == Threads \X Nat \X Nat

\* What a step must find collected after its lines.
LinesOf(t) == [i \in 1 .. thread[t].lines |-> <<t, thread[t].round, i>>]

Collector == [enabled : BOOLEAN, thread : Threads \cup {NoThread}, logs : Seq(Line)]

EngineThread ==
    [at : {"idle", "node", "stopped"}, node : NodeIds, round : Nat, lines : Nat, logs : Seq(Line)]

LogsTypeOK ==
    /\ collectors \in [NodeIds -> Collector]
    /\ thread \in [Threads -> EngineThread]

\* Steps of one node that overlap are known to.
OverlapIsKnown ==
    \A t, u \in Threads :
        t # u /\ thread[t].at # "idle" /\ thread[u].at # "idle" /\ thread[t].node = thread[u].node
            => t \in overlapped

\* Unless it was abandoned, who has enabled a collector is in a step of its node.
EnabledIsInUse ==
    \A n \in NodeIds : collectors[n].enabled /\ n \notin abandoned =>
        \E w \in Threads : /\ collectors[n].thread = w
                           /\ thread[w].at = "node" /\ thread[w].node = n

\* A collector that t shares with no other step at the time holds t's lines,
\* until t has taken them.
CollectorIsOwn(t) ==
    thread[t].node \notin abandoned /\ t \notin overlapped =>
        /\ thread[t].at = "node" =>
               collectors[thread[t].node].enabled /\ collectors[thread[t].node].thread = t
        /\ thread[t].at # "idle" => collectors[thread[t].node].logs = LinesOf(t)
        /\ thread[t].at = "idle" => thread[t].logs = LinesOf(t)

LogsInv ==
    LogsTypeOK /\ OverlapIsKnown /\ EnabledIsInUse /\ \A t \in Threads : CollectorIsOwn(t)

LEMMA LogsInitInv == LogsInit => LogsInv
  <1>. SUFFICES ASSUME LogsInit PROVE LogsInv
    OBVIOUS
  <1>1. AnyNode \in NodeIds
    BY LogsAssumption DEF AnyNode
  <1>2. LogsTypeOK
    BY <1>1 DEF LogsInit, LogsTypeOK, Collector, EngineThread
  <1>3. ASSUME NEW t \in Threads PROVE CollectorIsOwn(t)
    <2>1. thread[t].at = "idle" /\ thread[t].lines = 0 /\ thread[t].logs = << >>
      BY DEF LogsInit
    <2>2. LinesOf(t) = << >>
      BY <2>1 DEF LinesOf
    <2>. QED  BY <2>1, <2>2 DEF CollectorIsOwn
  <1>. QED
    BY <1>2, <1>3 DEF LogsInv, LogsInit, OverlapIsKnown, EnabledIsInUse

LEMMA StartCollectionInv ==
    ASSUME LogsInv, NEW t \in Threads, NEW n \in NodeIds, StartCollection(t, n)
    PROVE  LogsInv'
  <1>. USE DEF LogsInv
  <1>. DEFINE started == [enabled |-> TRUE, thread |-> t, logs |-> << >>]
              step == [at |-> "node", node |-> n, round |-> thread[t].round + 1,
                       lines |-> 0, logs |-> << >>]
  <1>1. /\ thread[t].at = "idle" /\ abandoned' = abandoned
        /\ thread' = [thread EXCEPT ![t] = step]
        /\ overlapped' = IF OthersAt(n, t) = {} THEN overlapped \ {t}
                         ELSE overlapped \cup OthersAt(n, t) \cup {t}
    BY DEF StartCollection
  <1>2. thread'[t] = step /\ \A u \in Threads : u # t => thread'[u] = thread[u]
    BY <1>1 DEF LogsTypeOK
  <1>3. IF collectors[n].enabled THEN collectors' = collectors
        ELSE collectors'[n] = started /\ \A m \in NodeIds : m # n => collectors'[m] = collectors[m]
    BY DEF StartCollection, Start, LogsTypeOK
  <1>4. LogsTypeOK'
    <2>1. << >> \in Seq(Line)
      OBVIOUS
    <2>2. step \in EngineThread
      BY <2>1 DEF LogsTypeOK, EngineThread
    <2>3. started \in Collector
      BY <2>1 DEF Collector
    <2>. QED  BY <1>1, <2>2, <2>3 DEF LogsTypeOK, StartCollection, Start
  <1>5. OverlapIsKnown'
    BY <1>1, <1>2 DEF OverlapIsKnown, OthersAt
  <1>6. EnabledIsInUse'
    BY <1>1, <1>2, <1>3 DEF EnabledIsInUse
  <1>7. CollectorIsOwn(t)'
    <2>1. LinesOf(t)' = << >>
      BY <1>2 DEF LinesOf
    <2>2. t \notin overlapped' /\ n \notin abandoned => ~collectors[n].enabled
      BY <1>1 DEF EnabledIsInUse, OthersAt
    <2>. QED  BY <1>1, <1>2, <1>3, <2>1, <2>2 DEF CollectorIsOwn
  <1>8. ASSUME NEW u \in Threads, u # t PROVE CollectorIsOwn(u)'
    <2>1. u \notin overlapped' =>
              u \notin overlapped /\ (thread[u].at = "idle" \/ thread[u].node # n)
      BY <1>1, <1>8 DEF OthersAt
    <2>2. thread'[u] = thread[u] /\ LinesOf(u)' = LinesOf(u)
      BY <1>2, <1>8 DEF LinesOf
    <2>3. thread[u].node # n => collectors'[thread[u].node] = collectors[thread[u].node]
      BY <1>3 DEF LogsTypeOK, EngineThread
    <2>. QED  BY <1>1, <2>1, <2>2, <2>3 DEF CollectorIsOwn
  <1>. QED  BY <1>4, <1>5, <1>6, <1>7, <1>8

LEMMA LogLineInv ==
    ASSUME LogsInv, NEW t \in Threads, LogLine(t)
    PROVE  LogsInv'
  <1>. USE DEF LogsInv
  <1>. DEFINE line == <<t, thread[t].round, thread[t].lines + 1>>
              Takes(n) == collectors[n].enabled /\ collectors[n].thread = t
  <1>1. /\ thread[t].at = "node" /\ abandoned' = abandoned /\ overlapped' = overlapped
        /\ thread' = [thread EXCEPT ![t].lines = @ + 1]
        /\ collectors' = [n \in NodeIds |->
              IF Takes(n) THEN [collectors[n] EXCEPT !.logs = Append(@, line)] ELSE collectors[n]]
    BY DEF LogLine
  <1>2. /\ thread[t] \in EngineThread /\ \A n \in NodeIds : collectors[n] \in Collector
    BY DEF LogsTypeOK
  <1>3. /\ thread'[t] = [thread[t] EXCEPT !.lines = @ + 1]
        /\ \A u \in Threads : u # t => thread'[u] = thread[u]
    BY <1>1 DEF LogsTypeOK
  <1>4. /\ thread'[t] \in EngineThread /\ thread'[t].at = "node"
        /\ thread'[t].node = thread[t].node /\ thread'[t].round = thread[t].round
        /\ thread'[t].lines = thread[t].lines + 1
    BY <1>1, <1>2, <1>3 DEF EngineThread
  <1>5. line \in Line /\ thread[t].lines \in Nat
    BY <1>2 DEF EngineThread, Line
  <1>6. \A n \in NodeIds : /\ collectors'[n] \in Collector
                           /\ collectors'[n].enabled = collectors[n].enabled
                           /\ collectors'[n].thread = collectors[n].thread
                           /\ collectors'[n].logs = IF Takes(n) THEN Append(collectors[n].logs, line)
                                                    ELSE collectors[n].logs
    <2>. TAKE n \in NodeIds
    <2>1. collectors[n] \in Collector /\ Append(collectors[n].logs, line) \in Seq(Line)
      BY <1>2, <1>5 DEF Collector
    <2>2. collectors'[n] = IF Takes(n) THEN [collectors[n] EXCEPT !.logs = Append(@, line)]
                           ELSE collectors[n]
      BY <1>1
    <2>. HIDE DEF line, Takes
    <2>. QED  BY <2>1, <2>2 DEF Collector
  <1>. HIDE DEF line, Takes
  <1>7. LogsTypeOK'
    BY <1>1, <1>4, <1>6 DEF LogsTypeOK
  <1>8. OverlapIsKnown'
    BY <1>1, <1>3, <1>4 DEF OverlapIsKnown
  <1>9. EnabledIsInUse'
    BY <1>1, <1>3, <1>4, <1>6 DEF EnabledIsInUse
  <1>10. CollectorIsOwn(t)'
    <2>1. Append(LinesOf(t), line) = LinesOf(t)'
      BY <1>4, <1>5 DEF LinesOf, line
    <2>2. thread[t].node \in NodeIds
      BY <1>2 DEF EngineThread
    <2>. QED  BY <1>1, <1>4, <1>6, <2>1, <2>2 DEF CollectorIsOwn, Takes
  <1>11. ASSUME NEW u \in Threads, u # t PROVE CollectorIsOwn(u)'
    <2>1. thread'[u] = thread[u] /\ LinesOf(u)' = LinesOf(u) /\ thread[u].node \in NodeIds
      BY <1>3, <1>11 DEF LinesOf, LogsTypeOK, EngineThread
    <2>2. thread[u].at # "idle" /\ thread[u].node \notin abandoned /\ u \notin overlapped =>
              ~Takes(thread[u].node)
      BY <1>1, <1>11, <2>1 DEF EnabledIsInUse, OverlapIsKnown, Takes
    <2>. QED  BY <1>1, <1>6, <2>1, <2>2 DEF CollectorIsOwn
  <1>. QED  BY <1>7, <1>8, <1>9, <1>10, <1>11

\* The steps that end a step or a collection.
LEMMA EndOfStepInv ==
    ASSUME LogsInv, NEW t \in Threads, StopCollection(t) \/ Abandon(t) \/ GetLogs(t)
    PROVE  LogsInv'
  <1>. USE DEF LogsInv
  <1>1. thread[t] \in EngineThread /\ thread[t].node \in NodeIds /\ << >> \in Seq(Line)
        /\ \A n \in NodeIds : collectors[n] \in Collector
    BY DEF LogsTypeOK, EngineThread
  <1>2. /\ thread'[t] \in EngineThread /\ thread'[t].node = thread[t].node
        /\ thread' \in [Threads -> EngineThread]
        /\ \A u \in Threads : u # t => thread'[u] = thread[u]
        /\ thread[t].at # "idle" /\ thread'[t].at # "node"
    <2>1. CASE StopCollection(t)
      BY <1>1, <2>1 DEF StopCollection, LogsTypeOK, EngineThread
    <2>2. CASE Abandon(t)
      BY <1>1, <2>2 DEF Abandon, LogsTypeOK, EngineThread
    <2>3. CASE GetLogs(t)
      <3>1. collectors[thread[t].node].logs \in Seq(Line)
        BY <1>1 DEF Collector
      <3>. QED  BY <1>1, <2>3, <3>1 DEF GetLogs, LogsTypeOK, EngineThread
    <2>. QED  BY <2>1, <2>2, <2>3
  <1>3. /\ overlapped' = overlapped /\ abandoned \subseteq abandoned'
        /\ \A n \in NodeIds :
              /\ collectors'[n] \in Collector /\ collectors'[n].logs = collectors[n].logs
              /\ collectors'[n].thread = collectors[n].thread
              /\ collectors'[n].enabled => collectors[n].enabled
              /\ n # thread[t].node => collectors'[n] = collectors[n]
        /\ collectors' \in [NodeIds -> Collector]
    <2>1. CASE StopCollection(t)
      <3>1. /\ overlapped' = overlapped /\ abandoned' = abandoned
            /\ collectors' = [collectors EXCEPT ![thread[t].node].enabled = FALSE]
        BY <2>1 DEF StopCollection
      <3>2. [collectors[thread[t].node] EXCEPT !.enabled = FALSE] \in Collector
        BY <1>1 DEF Collector
      <3>. QED  BY <1>1, <3>1, <3>2 DEF LogsTypeOK, Collector
    <2>2. CASE Abandon(t) \/ GetLogs(t)
      BY <1>1, <2>2 DEF Abandon, GetLogs, LogsTypeOK
    <2>. QED  BY <2>1, <2>2
  <1>4. LogsTypeOK'
    BY <1>2, <1>3 DEF LogsTypeOK
  <1>5. OverlapIsKnown'
    BY <1>2, <1>3 DEF OverlapIsKnown
  <1>6. EnabledIsInUse'
    <2>1. \A n \in NodeIds : collectors'[n].enabled /\ n \notin abandoned' =>
              n # thread[t].node \/ thread[t].at # "node"
      BY <1>1 DEF StopCollection, Abandon, GetLogs, LogsTypeOK, Collector
    <2>. QED  BY <1>2, <1>3, <2>1 DEF EnabledIsInUse
  <1>7. CollectorIsOwn(t)'
    <2>1. CASE StopCollection(t)
      <3>1. thread'[t].at = "stopped" /\ LinesOf(t)' = LinesOf(t) /\ abandoned' = abandoned
        BY <1>1, <2>1 DEF StopCollection, LogsTypeOK, EngineThread, LinesOf
      <3>. QED  BY <1>1, <1>2, <1>3, <3>1 DEF CollectorIsOwn
    <2>2. CASE Abandon(t)
      BY <1>2, <2>2 DEF Abandon, CollectorIsOwn
    <2>3. CASE GetLogs(t)
      <3>1. /\ thread'[t].at = "idle" /\ thread'[t].logs = collectors[thread[t].node].logs
            /\ LinesOf(t)' = LinesOf(t) /\ abandoned' = abandoned
        BY <1>1, <2>3 DEF GetLogs, LogsTypeOK, EngineThread, LinesOf
      <3>. QED  BY <1>2, <1>3, <3>1 DEF CollectorIsOwn
    <2>. QED  BY <2>1, <2>2, <2>3
  <1>8. ASSUME NEW u \in Threads, u # t PROVE CollectorIsOwn(u)'
    <2>1. thread'[u] = thread[u] /\ LinesOf(u)' = LinesOf(u) /\ thread[u].node \in NodeIds
      BY <1>2, <1>8 DEF LinesOf, LogsTypeOK, EngineThread
    <2>2. thread[u].at # "idle" /\ u \notin overlapped => thread[u].node # thread[t].node
      BY <1>2, <1>8 DEF OverlapIsKnown
    <2>. QED  BY <1>3, <2>1, <2>2 DEF CollectorIsOwn
  <1>. QED  BY <1>4, <1>5, <1>6, <1>7, <1>8

\* The log of a step holds the lines its own thread wrote during it, for any
\* number of threads, nodes, steps and lines and whoever used the collector
\* before, unless a step of the same node in another thread overlaps with it or
\* a run has left the node's collection open.
THEOREM OwnLogs == LogsSpec => []StepLogsAreOwn
  <1>1. LogsInit => LogsInv
    BY LogsInitInv
  <1>2. LogsInv /\ [LogsNext]_logVars => LogsInv'
    <2>. SUFFICES ASSUME LogsInv, [LogsNext]_logVars PROVE LogsInv'
      OBVIOUS
    <2>1. CASE UNCHANGED logVars
      BY <2>1 DEF LogsInv, LogsTypeOK, OverlapIsKnown, EnabledIsInUse, CollectorIsOwn, LinesOf, logVars
    <2>2. CASE LogsNext
      BY <2>2, StartCollectionInv, LogLineInv, EndOfStepInv DEF LogsNext
    <2>. QED  BY <2>1, <2>2
  <1>3. LogsInv => StepLogsAreOwn
    BY DEF LogsInv, CollectorIsOwn, StepLogsAreOwn, LinesOf
  <1>. QED
    BY <1>1, <1>2, <1>3, PTL DEF LogsSpec

-----------------------------------------------------------------------------
(* A sub-node sees the variables of its own round *)

Statuses == {"success", "failed"}

LoopTypeOK ==
    /\ subs \in Seq(SubKinds)
    /\ sub \in Nat \ {0}
    /\ current \in Seq(Statuses)

\* In the midst of a round, before its sub-node number sub: behind a source
\* nothing has failed without the variable being of this round, and until a
\* nested loop has run loop_index is of this round.
RoundIsOwn ==
    phase = "subs" /\ sub <= Len(subs) =>
        /\ (\E i \in 1 .. sub - 1 : subs[i] = "source") /\ "failed" \notin Range(current)
               => extracted = round
        /\ (\A i \in 1 .. sub - 1 : subs[i] # "nested") => loopIndex = round

LoopInv == LoopTypeOK /\ RoundIsOwn /\ ReadersSeeTheirRound

\* What has failed in a round stays recorded.
LEMMA RangeGrows ==
    ASSUME NEW s \in Seq(Statuses), NEW t \in Seq(Statuses)
    PROVE  s \o t \in Seq(Statuses) /\ Range(s) \subseteq Range(s \o t)
                /\ Range(t) \subseteq Range(s \o t)
  <1>1. s \o t \in Seq(Statuses) /\ Len(s \o t) = Len(s) + Len(t)
    OBVIOUS
  <1>2. ASSUME NEW i \in DOMAIN s PROVE s[i] \in Range(s \o t)
    <2>1. i \in DOMAIN (s \o t) /\ (s \o t)[i] = s[i]
      OBVIOUS
    <2>. QED  BY <2>1 DEF Range
  <1>3. ASSUME NEW i \in DOMAIN t PROVE t[i] \in Range(s \o t)
    <2>1. Len(s) + i \in DOMAIN (s \o t) /\ (s \o t)[Len(s) + i] = t[i]
      OBVIOUS
    <2>. QED  BY <2>1 DEF Range
  <1>. QED  BY <1>1, <1>2, <1>3 DEF Range

\* The kinds before a sub-node.
LEMMA KindsBefore ==
    ASSUME NEW s \in Seq(SubKinds), NEW n \in Nat \ {0}, n <= Len(s), NEW kind
    PROVE  kind \in Range(SubSeq(s, 1, n - 1)) <=> \E i \in 1 .. n - 1 : s[i] = kind
  <1>1. DOMAIN SubSeq(s, 1, n - 1) = 1 .. n - 1
    OBVIOUS
  <1>2. \A i \in 1 .. n - 1 : SubSeq(s, 1, n - 1)[i] = s[i]
    OBVIOUS
  <1>. QED  BY <1>1, <1>2, Zenon DEF Range

\* One step per action: only those of sub-nodes move within a round.
LEMMA LoopStepInv ==
    ASSUME LoopInv, [LoopNext]_loopVars
    PROVE  LoopInv'
  <1>. USE DEF LoopInv
  <1>1. CASE UNCHANGED loopVars
    BY <1>1 DEF loopVars, LoopTypeOK, RoundIsOwn, ReadersSeeTheirRound
  <1>2. CASE Validate
    <2>1. phase' # "subs" /\ UNCHANGED <<subs, sub, current, reads>>
      BY <1>2 DEF Validate
    <2>. QED  BY <2>1 DEF LoopTypeOK, RoundIsOwn, ReadersSeeTheirRound
  <1>3. CASE StartRound
    <2>1. LoopTypeOK' /\ ReadersSeeTheirRound'
      <3>1. << >> \in Seq(Statuses)
        OBVIOUS
      <3>. QED  BY <1>3, <3>1 DEF StartRound, LoopTypeOK, ReadersSeeTheirRound
    <2>2. RoundIsOwn'
      BY <1>3 DEF StartRound, RoundIsOwn
    <2>. QED  BY <2>1, <2>2
  <1>4. CASE EndLoop
    <2>1. phase' # "subs" /\ UNCHANGED <<subs, sub, current, reads>>
      BY <1>4 DEF EndLoop
    <2>. QED  BY <2>1 DEF LoopTypeOK, RoundIsOwn, ReadersSeeTheirRound
  <1>5. CASE SkipUnknown
    <2>1. LoopTypeOK' /\ ReadersSeeTheirRound'
      BY <1>5 DEF SkipUnknown, LoopTypeOK, ReadersSeeTheirRound
    <2>2. RoundIsOwn'
      BY <1>5 DEF SkipUnknown, AtSub, LoopTypeOK, RoundIsOwn
    <2>. QED  BY <2>1, <2>2
  <1>6. CASE SubRaises
    <2>1. <<"failed">> \in Seq(Statuses) /\ "failed" \in Range(<<"failed">>)
      BY DEF Range, Statuses
    <2>2. current' \in Seq(Statuses) /\ "failed" \in Range(current')
      BY <1>6, <2>1, RangeGrows DEF SubRaises, Record, LoopTypeOK
    <2>3. LoopTypeOK' /\ ReadersSeeTheirRound'
      BY <1>6, <2>2 DEF SubRaises, LoopTypeOK, ReadersSeeTheirRound
    <2>4. RoundIsOwn'
      <3>1. (\A i \in 1 .. sub' - 1 : subs[i] # "nested") => loopIndex = round
        BY <1>6 DEF SubRaises, AtSub, LoopTypeOK, RoundIsOwn
      <3>. QED  BY <1>6, <2>2, <3>1 DEF SubRaises, RoundIsOwn
    <2>. QED  BY <2>3, <2>4
  <1>7. CASE ReaderRuns
    <2>1. <<"success">> \in Seq(Statuses)
      BY DEF Statuses
    <2>2. current' \in Seq(Statuses) /\ Range(current) \subseteq Range(current')
      BY <1>7, <2>1, RangeGrows DEF ReaderRuns, Record, LoopTypeOK
    <2>3. LoopTypeOK'
      BY <1>7, <2>2 DEF ReaderRuns, LoopTypeOK
    <2>. DEFINE read == [round |-> round, value |-> extracted, index |-> loopIndex,
                         before |-> SubSeq(subs, 1, sub - 1),
                         failed |-> "failed" \in Range(current)]
    <2>4. reads' = reads \cup {read}
      BY <1>7 DEF ReaderRuns
    <2>5. /\ "source" \in Range(read.before) /\ ~read.failed => read.value = read.round
          /\ "nested" \notin Range(read.before) => read.index = read.round
      <3>1. phase = "subs" /\ sub <= Len(subs) /\ subs \in Seq(SubKinds) /\ sub \in Nat \ {0}
        BY <1>7 DEF ReaderRuns, AtSub, LoopTypeOK
      <3>2. /\ "source" \in Range(read.before) <=> \E i \in 1 .. sub - 1 : subs[i] = "source"
            /\ "nested" \in Range(read.before) <=> \E i \in 1 .. sub - 1 : subs[i] = "nested"
        BY <3>1, KindsBefore
      <3>. QED  BY <3>1, <3>2 DEF RoundIsOwn
    <2>6. ReadersSeeTheirRound'
      BY <2>4, <2>5, Zenon DEF ReadersSeeTheirRound
    <2>7. RoundIsOwn'
      <3>1. ~(subs[sub] = "source") /\ sub' = sub + 1 /\ sub \in Nat \ {0}
            /\ UNCHANGED <<subs, phase, round, extracted, loopIndex>>
            /\ phase = "subs" /\ sub <= Len(subs)
        BY <1>7 DEF ReaderRuns, AtSub, LoopTypeOK
      <3>. QED  BY <2>2, <3>1 DEF RoundIsOwn
    <2>. QED  BY <2>3, <2>6, <2>7
  <1>8. CASE NestedRuns
    <2>1. <<"success">> \in Seq(Statuses)
      BY DEF Statuses
    <2>2. current' \in Seq(Statuses) /\ Range(current) \subseteq Range(current')
      BY <1>8, <2>1, RangeGrows DEF NestedRuns, Record, LoopTypeOK
    <2>3. LoopTypeOK' /\ ReadersSeeTheirRound'
      BY <1>8, <2>2 DEF NestedRuns, LoopTypeOK, ReadersSeeTheirRound
    <2>4. RoundIsOwn'
      <3>1. subs[sub] = "nested" /\ sub' = sub + 1 /\ sub \in Nat \ {0}
            /\ UNCHANGED <<subs, phase, round, extracted>>
            /\ phase = "subs" /\ sub <= Len(subs)
        BY <1>8 DEF NestedRuns, AtSub, LoopTypeOK
      <3>. QED  BY <2>2, <3>1 DEF RoundIsOwn
    <2>. QED  BY <2>3, <2>4
  <1>9. CASE SourceRuns
    <2>1. <<"success">> \in Seq(Statuses)
      BY DEF Statuses
    <2>2. current' \in Seq(Statuses)
      BY <1>9, <2>1, RangeGrows DEF SourceRuns, Record, LoopTypeOK
    <2>3. LoopTypeOK' /\ ReadersSeeTheirRound'
      BY <1>9, <2>2 DEF SourceRuns, LoopTypeOK, ReadersSeeTheirRound
    <2>4. RoundIsOwn'
      BY <1>9 DEF SourceRuns, AtSub, LoopTypeOK, RoundIsOwn
    <2>. QED  BY <2>3, <2>4
  <1>10. CASE ExtractionRaises
    <2>1. <<"success", "failed">> \in Seq(Statuses)
      BY DEF Statuses
    <2>2. current' \in Seq(Statuses)
      BY <1>10, <2>1, RangeGrows DEF ExtractionRaises, Record, LoopTypeOK
    <2>3. LoopTypeOK' /\ ReadersSeeTheirRound'
      BY <1>10, <2>2 DEF ExtractionRaises, LoopTypeOK, ReadersSeeTheirRound
    <2>4. RoundIsOwn'
      BY <1>10 DEF ExtractionRaises, LoopTypeOK, RoundIsOwn
    <2>. QED  BY <2>3, <2>4
  <1>11. CASE EndRound
    <2>1. phase' # "subs" /\ UNCHANGED <<subs, sub, current, reads>>
      BY <1>11 DEF EndRound
    <2>. QED  BY <2>1 DEF LoopTypeOK, RoundIsOwn, ReadersSeeTheirRound
  <1>. QED
    BY <1>1, <1>2, <1>3, <1>4, <1>5, <1>6, <1>7, <1>8, <1>9, <1>10, <1>11 DEF LoopNext

\* Behind an extraction of its round a reader of a loop never sees the value of
\* an earlier round, and loop_index is its round's, for any number of rounds and
\* any sequence of sub-nodes: _run_sub_nodes ends a round at a failed extraction.
THEOREM RoundsDoNotMix == LoopSpec => []ReadersSeeTheirRound
  <1>1. LoopInit => LoopInv
    <2>. SUFFICES ASSUME LoopInit PROVE LoopInv
      OBVIOUS
    <2>1. subs \in Seq(SubKinds)
      BY DEF LoopInit, BoundedSeq, SeqOf
    <2>2. << >> \in Seq(Statuses)
      OBVIOUS
    <2>. QED  BY <2>1, <2>2 DEF LoopInit, LoopInv, LoopTypeOK, RoundIsOwn, ReadersSeeTheirRound
  <1>. QED
    BY <1>1, LoopStepInv, PTL DEF LoopSpec, LoopInv

-----------------------------------------------------------------------------
(* What a list of statements leaves in the database *)

Transaction ==
    {t \in [open : BOOLEAN, base : Nat, writes : SUBSET Nat] :
        IsFiniteSet(t.writes) /\ (t.writes # {} => t.open)}

Node ==
    [at : {"idle", "item", "begin", "transaction", "answer"}, mode : {"one", "auto", "single"},
     stop : BOOLEAN, items : Seq(Kinds), next : Nat \ {0}, results : Seq(BOOLEAN),
     affected : Nat, number : Nat, answer : {"none", "unmarked", "success", "error"}]

SqlTypeOK ==
    /\ version \in Nat
    /\ tx \in [Conns -> Transaction]
    /\ queue \in Seq(Conns) /\ queue # << >>
    /\ node \in Node
    /\ unsure \in BOOLEAN /\ probed \in BOOLEAN

\* Where the node is in its list, and that a single transaction that stops at
\* errors has met none as long as it goes on.
Placed ==
    /\ node.at # "idle" => node.answer = "none"
    /\ node.at = "item" => /\ node.mode # "single"
                           /\ node.next <= Len(node.items)
                           /\ Len(node.results) = node.next - 1
    /\ node.at = "begin" => node.mode = "single" /\ node.next = 1 /\ node.results = << >>
    /\ node.at = "transaction" => /\ node.next <= Len(node.items) + 1
                                  /\ Len(node.results) = node.next - 1
                                  /\ node.stop => AllSucceed(node.results)

\* Only the transaction under way holds writes; unless a probe has run, it is
\* also the only one that is open.
InUse(c) == node.at = "transaction" /\ c = Conn

WritesInUse ==
    \A c \in Conns : (tx[c].writes # {} \/ (~probed /\ tx[c].open)) => InUse(c)

Earlier == {i \in Writes(node.items) : i < node.next}

\* What is committed and what is about to be, while nothing has failed.
AppliedSoFar ==
    /\ node.at \in {"begin", "transaction"} => applied = {}
    /\ node.at = "item" /\ AllSucceed(node.results) => applied = Earlier
    /\ node.at = "transaction" /\ AllSucceed(node.results) => tx[Conn].writes = Earlier
    /\ node.at = "answer" =>
          IF AllSucceed(node.results) THEN applied = Writes(node.items)
          ELSE node.mode = "single" /\ node.stop /\ ~unsure => applied = {}

SqlInv ==
    /\ SqlTypeOK /\ Placed /\ WritesInUse /\ AppliedSoFar
    /\ SuccessMeansCommitted /\ StopMeansNothing /\ SelectSeesLatest

LEMMA ConnTypes ==
    ASSUME SqlTypeOK
    PROVE  /\ Conn \in Conns
           /\ tx[Conn] \in Transaction
  BY DEF SqlTypeOK, Conn

\* A connection that comes back to the queue.
LEMMA BackTypes ==
    ASSUME SqlTypeOK, NEW t \in Transaction, Back(t)
    PROVE  /\ tx' \in [Conns -> Transaction]
           /\ tx'[Conn] = t /\ \A c \in Conns : c # Conn => tx'[c] = tx[c]
           /\ queue' \in Seq(Conns) /\ queue' # << >>
  <1>1. tx' \in [Conns -> Transaction]
        /\ tx'[Conn] = t /\ \A c \in Conns : c # Conn => tx'[c] = tx[c]
    BY ConnTypes DEF SqlTypeOK, Back
  <1>2. Tail(queue) \in Seq(Conns)
    BY DEF SqlTypeOK
  <1>3. queue' \in Seq(Conns) /\ queue' # << >>
    BY <1>2, ConnTypes DEF Back
  <1>. QED  BY <1>1, <1>3 DEF SqlTypeOK

LEMMA NoTxTypes == NoTx \in Transaction /\ NoTx.writes = {} /\ ~NoTx.open
  BY FS_EmptySet DEF NoTx, Transaction

\* The transaction a statement runs in: its snapshot and its writes.
LEMMA ExecutedTypes ==
    ASSUME SqlTypeOK, NEW t \in Transaction, node.next \in Nat
    PROVE  /\ Opened(t) \in Transaction /\ Opened(t).writes = t.writes
           /\ Executed(t, node.next) \in Transaction
           /\ Executed(t, node.next).base = Opened(t).base
           /\ ~t.open => Opened(t).base = version
           /\ Executed(t, node.next).writes
                  = t.writes \cup {i \in Writes(node.items) : i = node.next}
  <1>1. /\ Opened(t) \in Transaction /\ Opened(t).writes = t.writes /\ Opened(t).open
        /\ ~t.open => Opened(t).base = version
    BY NoTxTypes DEF SqlTypeOK, Opened, Transaction, NoTx
  <1>2. CASE node.next \in Writes(node.items)
    <2>. DEFINE e == [Opened(t) EXCEPT !.writes = @ \cup {node.next}]
    <2>1. Executed(t, node.next) = e
      BY <1>2 DEF Executed
    <2>2. IsFiniteSet(Opened(t).writes \cup {node.next})
      BY <1>1, FS_AddElement DEF Transaction
    <2>3. e \in Transaction /\ e.writes = Opened(t).writes \cup {node.next}
          /\ e.base = Opened(t).base
      BY <1>1, <2>2 DEF Transaction
    <2>. HIDE DEF e
    <2>. QED  BY <1>1, <1>2, <2>1, <2>3
  <1>3. CASE node.next \notin Writes(node.items)
    <2>1. Executed(t, node.next) = Opened(t)
      BY <1>3 DEF Executed
    <2>. QED  BY <1>1, <1>3, <2>1
  <1>. QED  BY <1>2, <1>3

LEMMA CommitTypes ==
    ASSUME SqlTypeOK, NEW t \in Transaction,
           NEW outcome \in CommitOutcomes, Commit(t, outcome)
    PROVE  /\ version' \in Nat /\ unsure' \in BOOLEAN
           /\ applied' \subseteq applied \cup t.writes
           /\ outcome = "ok" => applied' = applied \cup t.writes
           /\ ~unsure' /\ outcome # "ok" => applied' = applied
  <1>1. \A writes : writes = {} \/ writes = t.writes => Cardinality(writes) \in Nat
    BY FS_EmptySet, FS_CardinalityType DEF Transaction
  <1>2. version' \in Nat
    BY <1>1 DEF Commit, SqlTypeOK
  <1>3. CASE outcome = "ok"
    BY <1>2, <1>3 DEF Commit, SqlTypeOK
  <1>4. CASE outcome = "refused"
    BY <1>2, <1>4 DEF Commit, SqlTypeOK
  <1>5. CASE outcome = "lost"
    BY <1>2, <1>5 DEF Commit, SqlTypeOK
  <1>. QED  BY <1>3, <1>4, <1>5 DEF CommitOutcomes

LEMMA NotedTypes ==
    ASSUME SqlTypeOK, NEW ok \in BOOLEAN, NEW n \in Nat, node' = Noted(ok, n)
    PROVE  /\ node' \in Node
           /\ node'.mode = node.mode /\ node'.stop = node.stop /\ node'.items = node.items
           /\ node'.next = node.next + 1 /\ node'.results = Append(node.results, ok)
           /\ node'.answer = node.answer
           /\ node'.at = IF (~ok /\ node.stop) \/ node.next = Len(node.items) THEN "answer"
                         ELSE node.at
  <1>. DEFINE at == IF (~ok /\ node.stop) \/ node.next = Len(node.items) THEN "answer"
                    ELSE node.at
  <1>1. node \in Node
    BY DEF SqlTypeOK
  <1>2. node' = [node EXCEPT !.results = Append(node.results, ok),
                             !.affected = node.affected + n, !.next = node.next + 1,
                             !.at = at]
    BY DEF Noted
  <1>3. at \in {"idle", "item", "begin", "transaction", "answer"}
    BY <1>1 DEF Node
  <1>4. Append(node.results, ok) \in Seq(BOOLEAN) /\ node.affected + n \in Nat
        /\ node.next + 1 \in Nat \ {0}
    BY <1>1 DEF Node
  <1>. HIDE DEF at
  <1>5. /\ node' \in Node
        /\ node'.mode = node.mode /\ node'.stop = node.stop /\ node'.items = node.items
        /\ node'.next = node.next + 1 /\ node'.results = Append(node.results, ok)
        /\ node'.answer = node.answer /\ node'.at = at
    BY <1>1, <1>2, <1>3, <1>4 DEF Node
  <1>. QED  BY <1>5 DEF at

LEMMA AllSucceedAppend ==
    ASSUME NEW s \in Seq(BOOLEAN), NEW ok \in BOOLEAN
    PROVE  AllSucceed(Append(s, ok)) <=> AllSucceed(s) /\ ok
  <1>1. /\ DOMAIN Append(s, ok) = 1 .. Len(s) + 1
        /\ \A i \in 1 .. Len(s) : Append(s, ok)[i] = s[i]
        /\ Append(s, ok)[Len(s) + 1] = ok
        /\ DOMAIN s = 1 .. Len(s) /\ Len(s) \in Nat
    OBVIOUS
  <1>. QED  BY <1>1 DEF AllSucceed

\* The writes of a list up to and with the statement that is next.
LEMMA EarlierGrows ==
    ASSUME SqlTypeOK, node'.items = node.items, node'.next = node.next + 1
    PROVE  /\ Earlier' = Earlier \cup {i \in Writes(node.items) : i = node.next}
           /\ node.next >= Len(node.items) => Earlier' = Writes(node.items)
  <1>1. node.items \in Seq(Kinds) /\ node.next \in Nat
    BY DEF SqlTypeOK, Node
  <1>2. Writes(node.items) \subseteq 1 .. Len(node.items)
    BY <1>1 DEF Writes
  <1>. QED  BY <1>1, <1>2 DEF Earlier

\* One statement outside a single transaction: whatever became of it, it is
\* committed when its result is a success, and leaves no write behind.
LEMMA ItemNoted ==
    ASSUME SqlInv, node.at = "item",
           NEW ok \in BOOLEAN, NEW n \in Nat, node' = Noted(ok, n),
           ok => applied' = applied \cup {i \in Writes(node.items) : i = node.next},
           version' \in Nat, unsure' \in BOOLEAN, probed' \in BOOLEAN, probed => probed',
           NEW t \in Transaction, t.writes = {}, t.open => probed',
           Back(t) \/ UNCHANGED <<tx, queue>>,
           ~probed' => lag' = 0
    PROVE  SqlInv'
  <1>. USE DEF SqlInv
  <1>2. /\ tx' \in [Conns -> Transaction]
        /\ \A c \in Conns : tx'[c] = tx[c] \/ tx'[c] = t
        /\ queue' \in Seq(Conns) /\ queue' # << >>
    BY BackTypes DEF SqlTypeOK
  <1>3. SqlTypeOK'
    BY <1>2, NotedTypes DEF SqlTypeOK
  <1>4. /\ node.results \in Seq(BOOLEAN) /\ node.next \in Nat \ {0} /\ node.items \in Seq(Kinds)
        /\ node.at' # "idle" /\ node.at' # "transaction" /\ node.at' # "begin"
    BY NotedTypes DEF SqlTypeOK, Node
  <1>5. Placed'
    <2>1. Len(node'.results) = Len(node.results) + 1
      BY <1>4, NotedTypes
    <2>2. node.at = "item" /\ node.mode # "single" /\ node.answer = "none"
          /\ node.next <= Len(node.items) /\ Len(node.results) = node.next - 1
      BY DEF Placed
    <2>3. /\ node'.mode = node.mode /\ node'.items = node.items /\ node'.next = node.next + 1
          /\ node'.answer = node.answer
          /\ node'.at = "item" => node.next # Len(node.items)
      BY <2>2, NotedTypes
    <2>4. Len(node.items) \in Nat /\ Len(node.results) \in Nat /\ node.next \in Nat
      BY <1>4
    <2>5. node'.at = "item" => node'.next <= Len(node'.items)
      BY <2>2, <2>3, <2>4
    <2>6. Len(node'.results) = node'.next - 1
      BY <2>1, <2>2, <2>3, <2>4
    <2>. QED  BY <1>4, <2>2, <2>3, <2>5, <2>6 DEF Placed
  <1>6. WritesInUse'
    BY <1>2 DEF WritesInUse, InUse
  <1>7. AllSucceed(node'.results) => AllSucceed(node.results) /\ ok
    <2>1. node'.results = Append(node.results, ok)
      BY NotedTypes
    <2>. QED  BY <1>4, <2>1, AllSucceedAppend
  <1>8. AllSucceed(node'.results) => applied' = Earlier'
    BY <1>7, NotedTypes, EarlierGrows DEF AppliedSoFar
  <1>9. AppliedSoFar'
    <2>1. CASE node.at' = "item"
      BY <1>8, <2>1 DEF AppliedSoFar
    <2>2. CASE node.at' = "answer"
      <3>1. node.mode' # "single"
        BY NotedTypes DEF Placed
      <3>2. AllSucceed(node'.results) => Earlier' = Writes(node.items')
        <4>1. AllSucceed(node'.results) => node.next = Len(node.items)
          BY <1>7, <2>2, NotedTypes
        <4>2. node.next >= Len(node.items) => Earlier' = Writes(node.items)
          BY NotedTypes, EarlierGrows
        <4>. QED  BY <1>4, <4>1, <4>2, NotedTypes
      <3>. QED  BY <1>8, <2>2, <3>1, <3>2 DEF AppliedSoFar
    <2>. QED  BY <1>3, <1>4, <2>1, <2>2 DEF SqlTypeOK, Node
  <1>10. SuccessMeansCommitted' /\ StopMeansNothing'
    BY NotedTypes DEF Placed, SuccessMeansCommitted, StopMeansNothing
  <1>11. SelectSeesLatest'
    BY DEF SelectSeesLatest
  <1>. QED  BY <1>3, <1>5, <1>6, <1>9, <1>10, <1>11

LEMMA StartNodeInv ==
    ASSUME SqlInv, NEW mode \in {"one", "auto", "single"}, NEW stop \in BOOLEAN,
           NEW items \in BoundedSeq(Kinds, MaxItems), StartNode(mode, stop, items)
    PROVE  SqlInv'
  <1>. USE DEF SqlInv
  <1>. DEFINE at == IF items = << >> THEN "idle" ELSE IF mode = "single" THEN "begin" ELSE "item"
              answer == IF items = << >> THEN "unmarked" ELSE "none"
  <1>1. items \in Seq(Kinds) /\ Len(items) \in Nat /\ node.at = "idle"
    BY DEF BoundedSeq, SeqOf, StartNode
  <1>2. node' = [at |-> at, mode |-> mode, stop |-> stop, items |-> items, next |-> 1,
                 results |-> << >>, affected |-> 0, number |-> node.number + 1,
                 answer |-> answer]
    BY DEF StartNode, NoNode
  <1>3. << >> \in Seq(BOOLEAN) /\ Len(<< >>) = 0 /\ node.number + 1 \in Nat
        /\ at \in {"idle", "begin", "item"} /\ answer \in {"none", "unmarked"}
    BY DEF SqlTypeOK, Node
  <1>. HIDE DEF at, answer
  <1>4. node' \in Node
    BY <1>1, <1>2, <1>3 DEF Node
  <1>5. /\ node'.at = at /\ node'.mode = mode /\ node'.items = items /\ node'.next = 1
        /\ node'.results = << >> /\ node'.answer = answer
    BY <1>2
  <1>6. at = "item" => mode # "single" /\ 1 <= Len(items)
    BY <1>1 DEF at
  <1>7. at = "begin" => mode = "single"
    BY DEF at
  <1>8. at # "idle" => answer = "none"
    BY DEF at, answer
  <1>9. applied' = {} /\ ~unsure' /\ unsure' \in BOOLEAN
        /\ UNCHANGED <<version, others, tx, queue, probed, lag>>
    BY DEF StartNode
  <1>10. SqlTypeOK'
    BY <1>4, <1>9 DEF SqlTypeOK
  <1>11. Placed'
    BY <1>3, <1>5, <1>6, <1>7, <1>8 DEF Placed
  <1>12. WritesInUse'
    BY <1>1, <1>9 DEF WritesInUse, InUse
  <1>13. Earlier' = {}
    BY <1>1, <1>5 DEF Earlier, Writes
  <1>14. AppliedSoFar'
    BY <1>3, <1>5, <1>9, <1>13 DEF AppliedSoFar
  <1>15. SuccessMeansCommitted' /\ StopMeansNothing' /\ SelectSeesLatest'
    BY <1>3, <1>5, <1>9 DEF SuccessMeansCommitted, StopMeansNothing, SelectSeesLatest
  <1>. QED  BY <1>10, <1>11, <1>12, <1>14, <1>15

\* The actions outside a single transaction, each through ItemNoted.
LEMMA ItemStepInv ==
    ASSUME SqlInv,
           BadItem \/ StatementFails \/ ProbeRuns
               \/ \E outcome \in CommitOutcomes : StatementRuns(outcome)
    PROVE  SqlInv'
  <1>0. /\ SqlTypeOK /\ node.next \in Nat /\ version \in Nat /\ probed \in BOOLEAN
        /\ unsure \in BOOLEAN
    BY DEF SqlInv, SqlTypeOK, Node
  <1>1. Conn \in Conns /\ tx[Conn] \in Transaction
    BY <1>0, ConnTypes
  <1>2. node.at = "item" => tx[Conn].writes = {} /\ (~probed => ~tx[Conn].open)
    BY <1>1 DEF SqlInv, WritesInUse, InUse
  <1>3. ~probed => lag = 0
    BY DEF SqlInv, SelectSeesLatest
  <1>4. node.at = "item" => /\ Opened(tx[Conn]) \in Transaction
                            /\ Opened(tx[Conn]).writes = {}
                            /\ ~probed => Opened(tx[Conn]).base = version
    BY <1>0, <1>1, <1>2, ExecutedTypes
  <1>5. CASE BadItem
    <2>1. node.at = "item" /\ node' = Noted(FALSE, 0)
          /\ UNCHANGED <<version, applied, unsure, tx, queue, probed, lag>>
      BY <1>5 DEF BadItem, NoCommit
    <2>. QED  BY <1>0, <1>3, <2>1, NoTxTypes, ItemNoted
  <1>6. CASE StatementFails
    <2>1. /\ node.at = "item" /\ node' = Noted(FALSE, 0)
          /\ UNCHANGED <<version, applied, unsure, lag>>
          /\ probed' = (probed \/ (Item = "probe" /\ node.mode = "one"))
      BY <1>6 DEF StatementFails, NoCommit
    <2>2. \/ UNCHANGED <<tx, queue>> \/ Back(NoTx)
          \/ Item = "probe" /\ node.mode = "one" /\ Back(Opened(tx[Conn]))
      BY <1>6 DEF StatementFails
    <2>3. version' \in Nat /\ unsure' \in BOOLEAN /\ probed' \in BOOLEAN /\ (probed => probed')
          /\ (~probed' => lag' = 0)
      BY <1>0, <1>3, <2>1
    <2>4. CASE UNCHANGED <<tx, queue>> \/ Back(NoTx)
      BY <2>1, <2>3, <2>4, NoTxTypes, ItemNoted
    <2>5. CASE Item = "probe" /\ node.mode = "one" /\ Back(Opened(tx[Conn]))
      BY <1>4, <2>1, <2>3, <2>5, ItemNoted
    <2>. QED  BY <2>2, <2>4, <2>5
  <1>7. CASE ProbeRuns
    <2>1. /\ node.at = "item" /\ node' = Noted(TRUE, 0) /\ Item = "probe"
          /\ UNCHANGED <<version, applied, unsure>> /\ probed'
          /\ probed' \in BOOLEAN /\ Back(Opened(tx[Conn]))
      BY <1>7 DEF ProbeRuns, NoCommit
    <2>2. {i \in Writes(node.items) : i = node.next} = {}
      BY <2>1 DEF Item, Writes
    <2>. QED  BY <1>0, <1>4, <2>1, <2>2, ItemNoted
  <1>8. ASSUME NEW outcome \in CommitOutcomes, StatementRuns(outcome)
        PROVE  SqlInv'
    <2>. DEFINE t == Executed(tx[Conn], node.next)
                n == IF outcome = "ok" /\ Item = "write" THEN 1 ELSE 0
                ok == outcome = "ok"
    <2>1. /\ node.at = "item" /\ Commit(t, outcome) /\ Back(NoTx)
          /\ lag' = IF Item \in {"read", "probe"} THEN version - t.base ELSE lag
          /\ node' = Noted(ok, n) /\ probed' = probed
      BY <1>8 DEF StatementRuns
    <2>2. /\ t \in Transaction
          /\ t.base = Opened(tx[Conn]).base
          /\ t.writes = {i \in Writes(node.items) : i = node.next}
      BY <1>0, <1>1, <1>2, <2>1, ExecutedTypes
    <2>3. n \in Nat /\ ok \in BOOLEAN
      OBVIOUS
    <2>. HIDE DEF t, n, ok
    <2>4. /\ version' \in Nat /\ unsure' \in BOOLEAN
          /\ outcome = "ok" => applied' = applied \cup {i \in Writes(node.items) : i = node.next}
      BY <1>0, <2>1, <2>2, CommitTypes
    <2>5. ok => applied' = applied \cup {i \in Writes(node.items) : i = node.next}
      BY <2>4 DEF ok
    <2>6. ~probed' => lag' = 0
      BY <1>0, <1>3, <1>4, <2>1, <2>2
    <2>. QED  BY <1>0, <2>1, <2>3, <2>4, <2>5, <2>6, NoTxTypes, ItemNoted
  <1>. QED  BY <1>5, <1>6, <1>7, <1>8

LEMMA BeginInv ==
    ASSUME SqlInv, Begin \/ NoConnection
    PROVE  SqlInv'
  <1>. USE DEF SqlInv
  <1>0. node \in Node /\ node.at = "begin" /\ node.mode = "single" /\ node.next = 1
        /\ node.results = << >> /\ node.answer = "none" /\ applied = {}
        /\ UNCHANGED <<version, applied, unsure, others, tx, queue, probed, lag>>
    BY DEF Begin, NoConnection, NoCommit, Placed, AppliedSoFar, SqlTypeOK
  <1>1. CASE Begin
    <2>1. node' = [node EXCEPT !.at = "transaction"]
      BY <1>1 DEF Begin
    <2>2. /\ node' \in Node /\ node'.at = "transaction" /\ node'.mode = "single"
          /\ node'.next = 1 /\ node'.results = << >> /\ node'.items = node.items
          /\ node'.answer = "none" /\ Len(node'.items) \in Nat /\ Len(node'.results) = 0
      BY <1>0, <2>1 DEF Node
    <2>3. SqlTypeOK'
      BY <1>0, <2>2 DEF SqlTypeOK
    <2>4. AllSucceed(node'.results)
      BY <2>2 DEF AllSucceed
    <2>5. Placed'
      BY <2>2, <2>4 DEF Placed
    <2>6. WritesInUse' /\ tx'[Conn'].writes = {}
      BY <1>0, ConnTypes DEF WritesInUse, InUse, Conn
    <2>7. Earlier' = {}
      BY <2>2 DEF Earlier, Writes, Node
    <2>8. AppliedSoFar'
      BY <1>0, <2>2, <2>6, <2>7 DEF AppliedSoFar
    <2>9. SuccessMeansCommitted' /\ StopMeansNothing' /\ SelectSeesLatest'
      BY <1>0, <2>2 DEF SuccessMeansCommitted, StopMeansNothing, SelectSeesLatest
    <2>. QED  BY <2>3, <2>5, <2>6, <2>8, <2>9
  <1>2. CASE NoConnection
    <2>1. node' = [node EXCEPT !.at = "answer", !.results = <<FALSE>>]
      BY <1>2 DEF NoConnection
    <2>2. <<FALSE>> \in Seq(BOOLEAN)
      OBVIOUS
    <2>3. /\ node' \in Node /\ node'.at = "answer" /\ node'.results = <<FALSE>>
          /\ node'.items = node.items /\ node'.answer = "none"
      BY <1>0, <2>1, <2>2 DEF Node
    <2>4. SqlTypeOK'
      BY <1>0, <2>3 DEF SqlTypeOK
    <2>5. ~AllSucceed(node'.results)
      <3>1. 1 \in DOMAIN <<FALSE>> /\ <<FALSE>>[1] = FALSE
        OBVIOUS
      <3>. QED  BY <2>3, <3>1 DEF AllSucceed
    <2>6. Placed' /\ AppliedSoFar'
      BY <1>0, <2>3, <2>5 DEF Placed, AppliedSoFar
    <2>7. WritesInUse'
      BY <1>0 DEF WritesInUse, InUse
    <2>8. SuccessMeansCommitted' /\ StopMeansNothing' /\ SelectSeesLatest'
      BY <1>0, <2>3 DEF SuccessMeansCommitted, StopMeansNothing, SelectSeesLatest
    <2>. QED  BY <2>4, <2>6, <2>7, <2>8
  <1>. QED  BY <1>1, <1>2

\* An item of the single transaction: done, failed and passed over, or failed
\* and the transaction rolled back.
LEMMA ItemOfTransactionInv ==
    ASSUME SqlInv, NEW ok \in BOOLEAN, ItemOfTransaction(ok)
    PROVE  SqlInv'
  <1>. USE DEF SqlInv
  <1>. DEFINE stops == ~ok /\ node.stop
              at == IF stops THEN "answer" ELSE node.at
              n == IF ok /\ node.next \in Writes(node.items) THEN node.affected + 1
                   ELSE node.affected
  <1>0. /\ SqlTypeOK /\ node \in Node /\ node.at = "transaction"
        /\ node.next <= Len(node.items) /\ Len(node.results) = node.next - 1
        /\ node.stop => AllSucceed(node.results)
        /\ node.answer = "none" /\ applied = {}
        /\ UNCHANGED <<version, applied, unsure, others, probed, lag>>
    BY DEF ItemOfTransaction, NoCommit, Placed, AppliedSoFar, SqlTypeOK
  <1>1. /\ node.results \in Seq(BOOLEAN) /\ node.next \in Nat \ {0} /\ Len(node.items) \in Nat
        /\ node.affected \in Nat /\ node.stop \in BOOLEAN
        /\ Append(node.results, ok) \in Seq(BOOLEAN)
        /\ Len(Append(node.results, ok)) = node.next
    BY <1>0 DEF Node
  <1>2. node' = [node EXCEPT !.results = Append(node.results, ok), !.next = node.next + 1,
                             !.affected = n, !.at = at]
    BY DEF ItemOfTransaction
  <1>3. n \in Nat /\ at \in {"transaction", "answer"}
    BY <1>0, <1>1
  <1>4. IF stops THEN Back(NoTx)
        ELSE /\ tx' = IF ok THEN [tx EXCEPT ![Conn] = Executed(@, node.next)] ELSE tx
             /\ UNCHANGED queue
    BY DEF ItemOfTransaction
  <1>5. at = "transaction" <=> ~stops
    BY <1>0
  <1>. HIDE DEF n, at
  <1>6. /\ node' \in Node /\ node'.at = at /\ node'.results = Append(node.results, ok)
        /\ node'.next = node.next + 1 /\ node'.items = node.items /\ node'.answer = "none"
        /\ node'.stop = node.stop
    <2>1. node \in Node /\ node.answer = "none"
      BY <1>0
    <2>2. /\ node.next + 1 \in Nat \ {0}
          /\ at \in {"idle", "item", "begin", "transaction", "answer"}
      BY <1>1, <1>3
    <2>3. node' \in Node
      BY <1>1, <1>2, <1>3, <2>1, <2>2 DEF Node
    <2>4. node'.at = at /\ node'.results = Append(node.results, ok) /\ node'.next = node.next + 1
      BY <1>2, <2>1 DEF Node
    <2>5. node'.items = node.items /\ node'.answer = "none" /\ node'.stop = node.stop
      BY <1>2, <2>1 DEF Node
    <2>. QED  BY <2>3, <2>4, <2>5
  <1>7. AllSucceed(node'.results) <=> AllSucceed(node.results) /\ ok
    BY <1>1, <1>6, AllSucceedAppend
  <1>8. Placed'
    <2>1. at = "transaction" /\ node.stop => AllSucceed(node'.results)
      BY <1>0, <1>1, <1>5, <1>7
    <2>2. node'.next <= Len(node'.items) + 1 /\ Len(node'.results) = node'.next - 1
      BY <1>0, <1>1, <1>6
    <2>. QED  BY <1>3, <1>6, <2>1, <2>2 DEF Placed
  <1>9. SuccessMeansCommitted' /\ StopMeansNothing' /\ SelectSeesLatest'
    BY <1>0, <1>6 DEF SuccessMeansCommitted, StopMeansNothing, SelectSeesLatest
  <1>10. Conn \in Conns /\ tx[Conn] \in Transaction
    BY <1>0, ConnTypes
  <1>11. \A c \in Conns : c # Conn => tx[c].writes = {} /\ (~probed => ~tx[c].open)
    BY DEF WritesInUse, InUse
  <1>12. CASE stops
    <2>1. /\ tx' \in [Conns -> Transaction]
          /\ tx'[Conn] = NoTx /\ \A c \in Conns : c # Conn => tx'[c] = tx[c]
          /\ queue' \in Seq(Conns) /\ queue' # << >>
      BY <1>0, <1>4, <1>12, NoTxTypes, BackTypes
    <2>2. SqlTypeOK'
      BY <1>0, <1>6, <2>1 DEF SqlTypeOK
    <2>3. WritesInUse'
      BY <1>0, <1>11, <2>1, NoTxTypes DEF WritesInUse
    <2>4. AppliedSoFar'
      BY <1>0, <1>3, <1>5, <1>6, <1>7, <1>12 DEF AppliedSoFar
    <2>. QED  BY <1>8, <1>9, <2>2, <2>3, <2>4
  <1>13. CASE ~stops /\ ok
    <2>. DEFINE t == Executed(tx[Conn], node.next)
    <2>1. tx' = [tx EXCEPT ![Conn] = t] /\ queue' = queue
      BY <1>4, <1>13
    <2>2. t \in Transaction
      BY <1>0, <1>1, <1>10, ExecutedTypes
    <2>3. t.writes = tx[Conn].writes \cup {i \in Writes(node.items) : i = node.next}
      BY <1>0, <1>1, <1>10, ExecutedTypes
    <2>. HIDE DEF t
    <2>4. /\ tx' \in [Conns -> Transaction] /\ tx'[Conn] = t
          /\ \A c \in Conns : c # Conn => tx'[c] = tx[c]
      BY <1>0, <1>10, <2>1, <2>2 DEF SqlTypeOK
    <2>5. SqlTypeOK'
      BY <1>0, <1>6, <2>1, <2>4 DEF SqlTypeOK
    <2>6. Conn' = Conn
      BY <2>1 DEF Conn
    <2>7. WritesInUse'
      BY <1>0, <1>5, <1>6, <1>11, <1>13, <2>4, <2>6 DEF WritesInUse, InUse
    <2>8. AllSucceed(node'.results) => tx'[Conn].writes = Earlier'
      BY <1>0, <1>6, <1>7, <2>3, <2>4, EarlierGrows DEF AppliedSoFar
    <2>9. AppliedSoFar'
      BY <1>0, <1>5, <1>6, <1>13, <2>6, <2>8 DEF AppliedSoFar
    <2>. QED  BY <1>8, <1>9, <2>5, <2>7, <2>9
  <1>14. CASE ~stops /\ ~ok
    <2>1. tx' = tx /\ queue' = queue
      BY <1>4, <1>14
    <2>2. SqlTypeOK'
      BY <1>0, <1>6, <2>1 DEF SqlTypeOK
    <2>3. Conn' = Conn
      BY <2>1 DEF Conn
    <2>4. WritesInUse'
      BY <1>0, <1>5, <1>6, <1>11, <1>14, <2>1, <2>3 DEF WritesInUse, InUse
    <2>5. AppliedSoFar'
      BY <1>0, <1>5, <1>6, <1>7, <1>14 DEF AppliedSoFar
    <2>. QED  BY <1>8, <1>9, <2>2, <2>4, <2>5
  <1>. QED  BY <1>12, <1>13, <1>14

LEMMA EndTransactionInv ==
    ASSUME SqlInv, NEW outcome \in CommitOutcomes, EndTransaction(outcome)
    PROVE  SqlInv'
  <1>. USE DEF SqlInv
  <1>. DEFINE recorded == IF outcome = "ok" THEN node.results ELSE Append(node.results, FALSE)
              n == IF outcome = "ok" THEN node.affected ELSE 0
              t == tx[Conn]
  <1>0. /\ SqlTypeOK /\ node \in Node /\ node.at = "transaction"
        /\ node.next > Len(node.items) /\ node.next <= Len(node.items) + 1
        /\ node.stop => AllSucceed(node.results)
        /\ node.answer = "none" /\ applied = {} /\ Commit(t, outcome) /\ Back(NoTx)
        /\ UNCHANGED <<others, probed, lag>>
    BY DEF EndTransaction, Placed, AppliedSoFar, SqlTypeOK
  <1>1. node' = [node EXCEPT !.at = "answer", !.affected = n, !.results = recorded]
    BY DEF EndTransaction
  <1>2. node.results \in Seq(BOOLEAN) /\ recorded \in Seq(BOOLEAN) /\ n \in Nat
        /\ node.stop \in BOOLEAN
    <2>1. /\ node.results \in Seq(BOOLEAN) /\ node.affected \in Nat /\ node.stop \in BOOLEAN
          /\ Append(node.results, FALSE) \in Seq(BOOLEAN)
      BY <1>0 DEF Node
    <2>. QED  BY <2>1
  <1>3. outcome # "ok" => ~AllSucceed(recorded)
    BY <1>2, AllSucceedAppend
  <1>4. outcome = "ok" => recorded = node.results
    OBVIOUS
  <1>. HIDE DEF n, recorded
  <1>5. /\ node' \in Node /\ node'.at = "answer" /\ node'.results = recorded
        /\ node'.items = node.items /\ node'.answer = "none" /\ node'.stop = node.stop
        /\ node'.mode = node.mode
    BY <1>0, <1>1, <1>2 DEF Node
  <1>6. t \in Transaction
    BY <1>0, ConnTypes
  <1>7. /\ version' \in Nat /\ unsure' \in BOOLEAN
        /\ outcome = "ok" => applied' = t.writes
        /\ ~unsure' /\ outcome # "ok" => applied' = {}
    BY <1>0, <1>6, CommitTypes
  <1>8. /\ tx' \in [Conns -> Transaction]
        /\ tx'[Conn] = NoTx /\ \A c \in Conns : c # Conn => tx'[c] = tx[c]
        /\ queue' \in Seq(Conns) /\ queue' # << >>
    BY <1>0, NoTxTypes, BackTypes
  <1>9. SqlTypeOK'
    BY <1>0, <1>5, <1>7, <1>8 DEF SqlTypeOK
  <1>10. Placed'
    BY <1>5 DEF Placed
  <1>11. WritesInUse'
    BY <1>0, <1>8, NoTxTypes DEF WritesInUse, InUse
  <1>12. Earlier = Writes(node.items)
    BY <1>0 DEF Earlier, Writes, Node
  <1>13. AllSucceed(recorded) => outcome = "ok" /\ applied' = Writes(node.items)
    BY <1>0, <1>3, <1>4, <1>7, <1>12 DEF AppliedSoFar
  <1>14. ~AllSucceed(recorded) /\ node.stop => outcome # "ok"
    BY <1>0, <1>4
  <1>15. AppliedSoFar'
    BY <1>5, <1>7, <1>13, <1>14 DEF AppliedSoFar
  <1>16. SuccessMeansCommitted' /\ StopMeansNothing' /\ SelectSeesLatest'
    BY <1>0, <1>5 DEF SuccessMeansCommitted, StopMeansNothing, SelectSeesLatest
  <1>. QED  BY <1>9, <1>10, <1>11, <1>15, <1>16

LEMMA AnswerInv ==
    ASSUME SqlInv, Answer
    PROVE  SqlInv'
  <1>. USE DEF SqlInv
  <1>. DEFINE answer == IF AllSucceed(node.results) THEN "success" ELSE "error"
  <1>0. node \in Node /\ node.at = "answer"
        /\ UNCHANGED <<version, others, tx, queue, applied, unsure, probed, lag>>
    BY DEF Answer, SqlTypeOK
  <1>1. node' = [node EXCEPT !.at = "idle", !.answer = answer]
    BY DEF Answer
  <1>2. answer \in {"success", "error"}
    OBVIOUS
  <1>3. answer = "success" <=> AllSucceed(node.results)
    OBVIOUS
  <1>. HIDE DEF answer
  <1>4. /\ node' \in Node /\ node'.at = "idle" /\ node'.answer = answer
        /\ node'.items = node.items /\ node'.mode = node.mode /\ node'.stop = node.stop
    BY <1>0, <1>1, <1>2 DEF Node
  <1>5. SqlTypeOK' /\ Placed' /\ WritesInUse' /\ AppliedSoFar'
    BY <1>0, <1>4 DEF SqlTypeOK, Placed, WritesInUse, InUse, AppliedSoFar
  <1>6. SuccessMeansCommitted' /\ StopMeansNothing' /\ SelectSeesLatest'
    BY <1>0, <1>2, <1>3, <1>4
       DEF AppliedSoFar, SuccessMeansCommitted, StopMeansNothing, SelectSeesLatest
  <1>. QED  BY <1>5, <1>6

LEMMA SqlInitInv ==
    ASSUME SqlInit
    PROVE  SqlInv
  <1>1. SetToSeq(Conns) \in Seq(Conns) /\ SetToSeq(Conns) # << >>
    <2>. DEFINE n == Cardinality(Conns)
    <2>1. n \in Nat /\ n # 0
      BY SqlAssumption, FS_CardinalityType, FS_EmptySet
    <2>2. \E f \in [1 .. n -> Conns] : IsInjective(f)
      BY SqlAssumption, FS_CardinalityType DEF ExistsBijection, Bijection, Injection
    <2>3. SetToSeq(Conns) \in [1 .. n -> Conns]
      BY <2>2 DEF SetToSeq
    <2>. HIDE DEF n
    <2>4. SetToSeq(Conns) \in Seq(Conns)
      BY <2>1, <2>3
    <2>5. 1 \in DOMAIN SetToSeq(Conns)
      BY <2>1, <2>3
    <2>. QED  BY <2>4, <2>5
  <1>2. NoNode \in Node
    <2>1. << >> \in Seq(Kinds) /\ << >> \in Seq(BOOLEAN)
      OBVIOUS
    <2>. QED  BY <2>1 DEF NoNode, Node
  <1>3. node = NoNode /\ node.at = "idle" /\ node.answer = "none"
    BY DEF SqlInit, NoNode
  <1>4. SqlTypeOK
    BY <1>1, <1>2, NoTxTypes DEF SqlInit, SqlTypeOK
  <1>5. WritesInUse
    BY NoTxTypes DEF SqlInit, WritesInUse
  <1>. QED
    BY <1>3, <1>4, <1>5 DEF SqlInit, SqlInv, Placed, AppliedSoFar, SuccessMeansCommitted,
                            StopMeansNothing, SelectSeesLatest

LEMMA SqlStepInv ==
    ASSUME SqlInv, [SqlNext]_sqlVars
    PROVE  SqlInv'
  <1>1. CASE UNCHANGED sqlVars
    BY <1>1 DEF sqlVars, SqlInv, SqlTypeOK, Placed, WritesInUse, InUse, Conn, Earlier,
                AppliedSoFar, SuccessMeansCommitted, StopMeansNothing, SelectSeesLatest
  <1>2. CASE OtherCommits
    BY <1>2 DEF OtherCommits, SqlInv, SqlTypeOK, Placed, WritesInUse, InUse, Conn, Earlier,
                AppliedSoFar, SuccessMeansCommitted, StopMeansNothing, SelectSeesLatest
  <1>. QED
    BY <1>1, <1>2, StartNodeInv, ItemStepInv, BeginInv, ItemOfTransactionInv,
       EndTransactionInv, AnswerInv DEF SqlNext

LEMMA SqlInvariant == SqlSpec => []SqlInv
  BY SqlInitInv, SqlStepInv, PTL DEF SqlSpec

\* A MySQL node that answers success has all its writes committed, in every
\* transaction mode, for lists of any length, any number of pooled connections
\* and of nodes before it that left whatever they left on them: mysql_processor.py,
\* the commit after each statement and the one at the end of the list.
THEOREM SuccessIsCommitted == SqlSpec => []SuccessMeansCommitted
  BY SqlInvariant, PTL DEF SqlInv

\* A single transaction that stops at errors is all or nothing, unless its commit
\* was made and raised all the same (_execute_sqls_in_single_transaction).
THEOREM StoppedListLeavesNothing == SqlSpec => []StopMeansNothing
  BY SqlInvariant, PTL DEF SqlInv

\* A SELECT on a pooled connection sees all that was committed before it: every
\* earlier transaction of the connection has ended, unless it was a probe's.
THEOREM SelectsAreCurrent == SqlSpec => []SelectSeesLatest
  BY SqlInvariant, PTL DEF SqlInv

\* Between two nodes no connection of the pool holds a write that the commit of
\* the next node would make permanent.
THEOREM NoWriteIsLeftBehind == SqlSpec => []PooledHoldsNoWrites
  <1>1. SqlInv => PooledHoldsNoWrites
    BY DEF SqlInv, WritesInUse, InUse, PooledHoldsNoWrites
  <1>. QED  BY <1>1, SqlInvariant, PTL

-----------------------------------------------------------------------------
(* A page that is listed can be used *)

Object == [nr : Nat, browser : Nat]

UIOperations ==
    {"idle", "launch", "launch_context", "launch_page", "page", "context", "context_page",
     "close_context", "close_browser"}

\* The operations that make a page, and those that know the id of a context.
PageOps == {"launch_page", "page", "context_page"}
WithId == PageOps \cup {"launch", "launch_context", "context", "close_context"}

UICall ==
    {j \in [op : UIOperations, id : ContextIds \cup {"none"}, object : Object,
            todo : SUBSET ContextIds, done : BOOLEAN] :
        /\ j.op \in WithId => j.id \in ContextIds
        /\ j.op \in {"launch_context", "launch_page"} => j.id = "default"
        /\ j.op = "idle" => ~j.done}

UITypeOK ==
    /\ made \in Nat /\ browser \in 0 .. made
    /\ DOMAIN contexts \subseteq ContextIds
    /\ \A i \in DOMAIN contexts : contexts[i] \in Object
    /\ DOMAIN pages = DOMAIN pageContext
    /\ \A p \in DOMAIN pages : pages[p] \in Object /\ pageContext[p] \in ContextIds
    /\ open \subseteq 1 .. made
    /\ job \in [Users -> UICall]

\* The operation has a context of its own: one it works in, closes or has made.
Holds(j) ==
    \/ j.op \in PageOps \cup {"close_context"}
    \/ j.done /\ j.op \in {"launch_context", "context"}

\* The context o is known under the id: in the maps, or to a thread.
HeldAs(o, id) ==
    \/ id \in DOMAIN contexts /\ contexts[id] = o
    \/ \E p \in DOMAIN pages : pageContext[p] = id /\ pages[p] = o
    \/ \E u \in Users : Holds(job[u]) /\ job[u].id = id /\ job[u].object = o

\* A context is known under one id only, and is none of the browsers.
ObjectsAreOwn ==
    \A o \in Object, id \in ContextIds : HeldAs(o, id) =>
        /\ o.nr > 0 /\ o.nr <= made /\ o.browser <= made
        /\ o.nr # browser
        /\ \A other \in Object, id2 \in ContextIds : HeldAs(other, id2) =>
              (o.nr = other.nr => id = id2) /\ o.nr # other.browser

Crossed(o) == o.nr \in crossed \/ o.browser \in crossed
Usable(o) == IsOpen(o) \/ Crossed(o)

\* A page that was made and is not listed yet.
MadeIsUsable ==
    \A v \in Users : job[v].done /\ job[v].op \in PageOps => Usable(job[v].object)

\* When a context that a thread is closing has been taken from the map by
\* another one, it has no page, or the close was crossed.
ClosedOnceGone ==
    \A u \in Users, p \in DOMAIN pages :
        job[u].op = "close_context" /\ job[u].object.nr = pages[p].nr =>
            job[u].id \in DOMAIN contexts \/ pages[p].nr \in crossed

\* Outside of a close of the browser, a page that cannot be used is one of a
\* context that has just been closed.
ListedIsUsable ==
    ~closeFailed /\ (\A u \in Users : job[u].op # "close_browser") =>
        \A p \in DOMAIN pages :
            \/ Usable(pages[p])
            \/ \E u \in Users : HasBack(u, "close_context") /\ job[u].object.nr = pages[p].nr

UIInv ==
    /\ UITypeOK /\ ObjectsAreOwn /\ Crossings \subseteq crossed
    /\ MadeIsUsable /\ ClosedOnceGone /\ ListedIsUsable

\* What a step of one thread may do to the maps, to what is open and to what
\* the threads hold.
Effect(u) ==
    /\ made' \in {made, made + 1}
    /\ \/ browser' \in {0, browser}
       \/ browser' = made + 1 /\ made' = made + 1
    /\ \A v \in Users : v # u => job'[v] = job[v]
    /\ closeFailed => closeFailed'
    /\ \A n \in open : n \in open' \/ n \in Closing(u)
    /\ \A p \in DOMAIN pages' :
          \/ p \in DOMAIN pages /\ pages'[p] = pages[p] /\ pageContext'[p] = pageContext[p]
          \/ job[u].done /\ job[u].op \in PageOps /\ pages'[p] = job[u].object
    /\ \A i \in DOMAIN contexts :
          \/ i \in DOMAIN contexts'
          \/ \A p \in DOMAIN pages' : p \in DOMAIN pages /\ pageContext[p] # i
    /\ \A o \in Object, id \in ContextIds : HeldAs(o, id)' =>
          \/ HeldAs(o, id)
          \/ /\ made' = made + 1 /\ browser' = browser
             /\ o.nr = made + 1 /\ o.browser = browser /\ id = job[u].id
    /\ job'[u].op = "close_context" =>
          \/ job'[u].id \in DOMAIN contexts'
          \/ /\ job[u].op = "close_context" /\ job'[u].object = job[u].object
             /\ job'[u].id = job[u].id
             /\ UNCHANGED <<contexts, pages>>
    /\ job'[u].op \in PageOps /\ job'[u].done => IsOpen(job'[u].object) /\ UNCHANGED open
    /\ HasBack(u, "close_context") =>
          /\ UNCHANGED open
          /\ job[u].id \in DOMAIN contexts =>
                \A p \in DOMAIN pages' : p \in DOMAIN pages /\ pageContext[p] # job[u].id
    /\ Awaits(u, "close_context") =>
          \/ UNCHANGED open
          \/ HasBack(u, "close_context")' /\ job'[u].object = job[u].object
    /\ job[u].op = "close_browser" =>
          job'[u].op = "close_browser" \/ closeFailed' \/ DOMAIN pages' = {}

LEMMA NoCallTypes == NoCall \in UICall /\ NoCall.op = "idle" /\ NoCall.object \in Object /\ ~NoCall.done
  BY DEF NoCall, UICall, UIOperations, Object, WithId, PageOps

LEMMA ReturnMoves ==
    ASSUME UITypeOK, NEW u \in Users, Return(u)
    PROVE  /\ job' \in [Users -> UICall]
           /\ job'[u].op = "idle" /\ ~job'[u].done
           /\ \A v \in Users : v # u => job'[v] = job[v]
  BY NoCallTypes DEF UITypeOK, Return

LEMMA CallTypes ==
    ASSUME NEW op \in UIOperations, NEW id \in ContextIds \cup {"none"}, NEW object \in Object,
           op \in WithId => id \in ContextIds,
           op \in {"launch_context", "launch_page"} => id = "default"
    PROVE  /\ Call(op, id, object) \in UICall
           /\ Call(op, id, object).op = op /\ Call(op, id, object).id = id
           /\ Call(op, id, object).object = object /\ ~Call(op, id, object).done
  <1>. DEFINE Calls == [op : UIOperations, id : ContextIds \cup {"none"}, object : Object,
                         todo : SUBSET ContextIds, done : BOOLEAN]
  <1>1. NoCall \in Calls /\ ~NoCall.done
    BY DEF NoCall, UIOperations, Object
  <1>2. /\ Call(op, id, object) \in Calls
        /\ Call(op, id, object).op = op /\ Call(op, id, object).id = id
        /\ Call(op, id, object).object = object /\ ~Call(op, id, object).done
    BY <1>1 DEF Call
  <1>. QED  BY <1>2 DEF UICall

LEMMA GoOnMoves ==
    ASSUME UITypeOK, NEW u \in Users, NEW op \in WithId, NEW id \in ContextIds,
           NEW object \in Object, GoOn(u, op, id, object),
           op \in {"launch_context", "launch_page"} => id = "default"
    PROVE  /\ job' \in [Users -> UICall]
           /\ job'[u].op = op /\ job'[u].id = id /\ job'[u].object = object /\ ~job'[u].done
           /\ \A v \in Users : v # u => job'[v] = job[v]
  <1>1. op \in UIOperations
    BY DEF WithId, PageOps, UIOperations
  <1>2. /\ Call(op, id, object) \in UICall
        /\ Call(op, id, object).op = op /\ Call(op, id, object).id = id
        /\ Call(op, id, object).object = object /\ ~Call(op, id, object).done
    BY <1>1, CallTypes
  <1>. QED  BY <1>2 DEF UITypeOK, GoOn

LEMMA GetsBackMoves ==
    ASSUME UITypeOK, NEW u \in Users, NEW object \in Object, GetsBack(u, object), job[u].op # "idle"
    PROVE  /\ job' \in [Users -> UICall]
           /\ job'[u].op = job[u].op /\ job'[u].id = job[u].id /\ job'[u].object = object
           /\ job'[u].done
           /\ \A v \in Users : v # u => job'[v] = job[v]
  <1>. DEFINE j == [job[u] EXCEPT !.object = object, !.done = TRUE]
  <1>1. job[u] \in UICall
    BY DEF UITypeOK
  <1>2. j \in UICall /\ j.op = job[u].op /\ j.id = job[u].id /\ j.object = object /\ j.done = TRUE
    BY <1>1 DEF UICall
  <1>3. job' = [job EXCEPT ![u] = j]
    BY DEF GetsBack
  <1>. HIDE DEF j
  <1>. QED  BY <1>2, <1>3 DEF UITypeOK

LEMMA PutMoves ==
    ASSUME NEW f, NEW key, NEW value
    PROVE  /\ DOMAIN Put(f, key, value) = DOMAIN f \cup {key}
           /\ Put(f, key, value)[key] = value
           /\ \A x \in DOMAIN f : x # key => Put(f, key, value)[x] = f[x]
  BY DEF Put

LEMMA JobTypes ==
    ASSUME UITypeOK, NEW u \in Users
    PROVE  /\ job[u].object \in Object /\ job[u].done \in BOOLEAN
           /\ job[u].op \in WithId => job[u].id \in ContextIds
           /\ job[u].op \in {"launch_context", "launch_page"} => job[u].id = "default"
           /\ job[u].op = "idle" => ~job[u].done
  BY DEF UITypeOK, UICall

LEMMA WithoutMoves ==
    ASSUME NEW f, NEW keys
    PROVE  /\ DOMAIN Without(f, keys) = DOMAIN f \ keys
           /\ \A x \in DOMAIN f \ keys : Without(f, keys)[x] = f[x]
  BY DEF Without, Restrict

\* What a thread closes is a context or a browser that was made.
LEMMA ClosingHolds ==
    ASSUME UITypeOK, ObjectsAreOwn, NEW i \in DOMAIN contexts
    PROVE  contexts[i].nr \in 1 .. made
  <1>1. contexts[i] \in Object /\ i \in ContextIds /\ made \in Nat
    BY DEF UITypeOK
  <1>2. HeldAs(contexts[i], i)
    BY DEF HeldAs
  <1>3. contexts[i].nr > 0 /\ contexts[i].nr <= made /\ contexts[i].nr \in Nat
    BY <1>1, <1>2 DEF ObjectsAreOwn, Object
  <1>. QED  BY <1>1, <1>3

-----------------------------------------------------------------------------
(* The effect of each step *)

\* A thread begins, ends or switches: the maps and what is open stay.
LEMMA StartEffect ==
    ASSUME UITypeOK, NEW u \in Users, job' \in [Users -> UICall],
           \A v \in Users : v # u => job'[v] = job[v],
           UNCHANGED <<contexts, pages, pageContext, made, browser, open>>,
           closeFailed => closeFailed',
           \/ job'[u] = job[u] /\ job[u].op = "idle"
           \/ /\ ~job[u].done /\ ~job'[u].done
              /\ \/ ~Holds(job'[u])
                 \/ job'[u].id \in DOMAIN contexts /\ job'[u].object = contexts[job'[u].id],
           job[u].op = "close_browser" => closeFailed'
    PROVE  UITypeOK' /\ Effect(u)
  <1>1. UITypeOK'
    BY DEF UITypeOK
  <1>2. \A o \in Object, id \in ContextIds : HeldAs(o, id)' => HeldAs(o, id)
    BY DEF HeldAs
  <1>3. job[u].op = "idle" => ~(job[u].op \in PageOps) /\ job[u].op # "close_context"
    BY DEF PageOps
  <1>4. job'[u].op = "close_context" => Holds(job'[u])
    BY DEF Holds
  <1>. QED  BY <1>1, <1>2, <1>3, <1>4 DEF Effect, HasBack, Awaits

\* An idle thread begins an operation with a context that is in the map, or none.
LEMMA BeginEffect ==
    ASSUME UITypeOK, NEW u \in Users, job[u].op = "idle",
           NEW op \in WithId, NEW id \in ContextIds, NEW object \in Object, GoOn(u, op, id, object),
           op \in {"launch_context", "launch_page"} => id = "default",
           UNCHANGED <<browser, sessionVars, made, open, closeFailed>>,
           \/ op \notin PageOps \cup {"close_context"}
           \/ id \in DOMAIN contexts /\ object = contexts[id]
    PROVE  UITypeOK' /\ Effect(u)
  <1>1. /\ job' \in [Users -> UICall]
        /\ job'[u].op = op /\ job'[u].id = id /\ job'[u].object = object /\ ~job'[u].done
        /\ \A v \in Users : v # u => job'[v] = job[v]
    BY GoOnMoves
  <1>2. ~job[u].done
    BY JobTypes
  <1>3. UNCHANGED <<contexts, pages, pageContext>>
    BY DEF sessionVars
  <1>4. Holds(job'[u]) => op \in PageOps \cup {"close_context"}
    BY <1>1 DEF Holds
  <1>. QED  BY <1>1, <1>2, <1>3, <1>4, StartEffect

LEMMA StartActions ==
    ASSUME UITypeOK, NEW u \in Users,
           \/ LaunchBrowser(u) \/ Raises(u) \/ CloseBrowser(u) \/ NewPage(u)
           \/ \E s \in Sites : NewContext(u, s) \/ CloseContext(u, s)
           \/ \E p \in DOMAIN pages : SwitchPage(u, p)
           \/ \E c \in DOMAIN contexts : SwitchContext(u, c)
    PROVE  UITypeOK' /\ Effect(u)
  <1>1. NoCall.object \in Object
    BY NoCallTypes
  <1>2. CASE LaunchBrowser(u)
    <2>1. GoOn(u, "launch", "default", NoCall.object) /\ job[u].op = "idle"
          /\ UNCHANGED <<browser, sessionVars, made, open, closeFailed>>
      BY <1>2 DEF LaunchBrowser
    <2>. QED  BY <1>1, <2>1, BeginEffect DEF WithId, PageOps, ContextIds
  <1>3. CASE NewPage(u)
    <2>1. PICK id \in DOMAIN contexts : GoOn(u, "page", id, contexts[id])
      BY <1>3 DEF NewPage
    <2>2. job[u].op = "idle" /\ UNCHANGED <<browser, sessionVars, made, open, closeFailed>>
      BY <1>3 DEF NewPage
    <2>3. id \in ContextIds /\ contexts[id] \in Object /\ "page" \in WithId
      BY DEF UITypeOK, WithId, PageOps
    <2>. QED  BY <2>1, <2>2, <2>3, BeginEffect
  <1>4. CASE \E s \in Sites : NewContext(u, s)
    <2>1. PICK s \in Sites : NewContext(u, s)
      BY <1>4
    <2>2. GoOn(u, "context", s, NoCall.object) /\ job[u].op = "idle"
          /\ UNCHANGED <<browser, sessionVars, made, open, closeFailed>>
      BY <2>1 DEF NewContext
    <2>. QED  BY <1>1, <2>2, BeginEffect DEF WithId, PageOps, ContextIds
  <1>5. CASE \E s \in Sites : CloseContext(u, s)
    <2>1. PICK s \in Sites : CloseContext(u, s)
      BY <1>5
    <2>2. GoOn(u, "close_context", s, contexts[s]) /\ job[u].op = "idle" /\ s \in DOMAIN contexts
          /\ UNCHANGED <<browser, sessionVars, made, open, closeFailed>>
      BY <2>1 DEF CloseContext
    <2>3. s \in ContextIds /\ contexts[s] \in Object
      BY <2>2 DEF UITypeOK
    <2>. QED  BY <2>2, <2>3, BeginEffect DEF WithId
  <1>6. CASE CloseBrowser(u)
    <2>. DEFINE j == [Call("close_browser", "none", NoCall.object) EXCEPT !.todo = DOMAIN contexts]
    <2>1. Call("close_browser", "none", NoCall.object) \in UICall
          /\ Call("close_browser", "none", NoCall.object).op = "close_browser"
          /\ ~Call("close_browser", "none", NoCall.object).done
      BY <1>1, CallTypes DEF UIOperations, WithId, PageOps
    <2>2. j \in UICall /\ j.op = "close_browser" /\ ~j.done
      BY <2>1 DEF UITypeOK, UICall
    <2>3. job' = [job EXCEPT ![u] = j] /\ job[u].op = "idle"
          /\ UNCHANGED <<browser, sessionVars, made, open, closeFailed>>
      BY <1>6 DEF CloseBrowser
    <2>. HIDE DEF j
    <2>4. job' \in [Users -> UICall] /\ job'[u] = j /\ \A v \in Users : v # u => job'[v] = job[v]
      BY <2>2, <2>3 DEF UITypeOK
    <2>5. ~job[u].done /\ ~Holds(job'[u])
      BY <2>2, <2>3, <2>4, JobTypes DEF Holds, PageOps
    <2>. QED  BY <2>2, <2>3, <2>4, <2>5, StartEffect DEF sessionVars
  <1>7. CASE Raises(u)
    <2>1. /\ job'[u].op = "idle" /\ ~job'[u].done
          /\ job' \in [Users -> UICall] /\ \A v \in Users : v # u => job'[v] = job[v]
      BY <1>7, ReturnMoves DEF Raises
    <2>2. /\ ~job[u].done /\ UNCHANGED <<browser, sessionVars, made, open>>
          /\ closeFailed' = (closeFailed \/ job[u].op = "close_browser")
      BY <1>7 DEF Raises
    <2>3. ~Holds(job'[u])
      BY <2>1 DEF Holds, PageOps
    <2>. QED  BY <2>1, <2>2, <2>3, StartEffect DEF sessionVars
  <1>8. CASE \/ \E p \in DOMAIN pages : SwitchPage(u, p)
             \/ \E c \in DOMAIN contexts : SwitchContext(u, c)
    <2>1. /\ job[u].op = "idle" /\ UNCHANGED job
          /\ UNCHANGED <<browser, contexts, pages, pageContext, made, open, closeFailed>>
      BY <1>8 DEF SwitchPage, SwitchContext
    <2>2. job' \in [Users -> UICall] /\ job'[u] = job[u] /\ \A v \in Users : v # u => job'[v] = job[v]
      BY <2>1 DEF UITypeOK
    <2>. QED  BY <2>1, <2>2, StartEffect
  <1>. QED  BY <1>2, <1>3, <1>4, <1>5, <1>6, <1>7, <1>8

\* An await has made a context: only this thread knows it.
LEMMA MakeEffect ==
    ASSUME UITypeOK, NEW u \in Users, MakeContext(u), job[u].op \in {"launch_context", "context"},
           ~job[u].done
    PROVE  UITypeOK' /\ Effect(u)
  <1>. DEFINE object == [nr |-> made + 1, browser |-> browser]
  <1>1. /\ made' = made + 1 /\ open' = open \cup {made + 1} /\ GetsBack(u, object)
        /\ UNCHANGED <<browser, contexts, pages, pageContext, closeFailed>>
    BY DEF MakeContext, MakeObject, sessionVars
  <1>2. made \in Nat /\ browser \in 0 .. made /\ object \in Object
    BY DEF UITypeOK, Object
  <1>3. /\ job' \in [Users -> UICall]
        /\ job'[u].op = job[u].op /\ job'[u].id = job[u].id /\ job'[u].object = object
        /\ \A v \in Users : v # u => job'[v] = job[v]
    BY <1>1, <1>2, GetsBackMoves
  <1>4. object.nr = made + 1 /\ object.browser = browser
    OBVIOUS
  <1>. HIDE DEF object
  <1>5. UITypeOK'
    BY <1>1, <1>2, <1>3 DEF UITypeOK
  <1>6. \A o \in Object, id \in ContextIds : HeldAs(o, id)' =>
           HeldAs(o, id) \/ (o = object /\ id = job[u].id)
    BY <1>1, <1>3 DEF HeldAs
  <1>7. job[u].op \notin PageOps \cup {"close_context", "close_browser"}
    BY DEF PageOps
  <1>. QED  BY <1>1, <1>3, <1>4, <1>5, <1>6, <1>7 DEF Effect, HasBack, Awaits

\* An await has made a page, or closed something: the maps stay.
LEMMA BackEffect ==
    ASSUME UITypeOK, ObjectsAreOwn, NEW u \in Users,
           \/ MakePage(u) /\ job[u].op \in PageOps /\ ~job[u].done
           \/ ContextClosed(u) \/ BrowserClosed(u)
           \/ \E c \in ContextIds : OneContextClosed(u, c)
    PROVE  UITypeOK' /\ Effect(u)
  <1>1. /\ UNCHANGED <<browser, contexts, pages, pageContext, made, closeFailed>>
        /\ job[u].op \in PageOps \cup {"close_context", "close_browser"} /\ ~job[u].done
    BY DEF MakePage, ContextClosed, BrowserClosed, OneContextClosed, sessionVars, Awaits
  <1>2. /\ job' \in [Users -> UICall] /\ job'[u].op = job[u].op
        /\ job[u].op # "close_browser" => /\ job'[u].id = job[u].id /\ job'[u].done
                                          /\ job'[u].object = job[u].object
        /\ \A v \in Users : v # u => job'[v] = job[v]
    <2>1. CASE (MakePage(u) /\ job[u].op \in PageOps) \/ ContextClosed(u)
      <3>1. GetsBack(u, job[u].object) /\ job[u].op # "close_browser" /\ job[u].op # "idle"
        BY <2>1 DEF MakePage, ContextClosed, Awaits, PageOps
      <3>2. job[u].object \in Object
        BY JobTypes
      <3>. QED  BY <3>1, <3>2, GetsBackMoves
    <2>2. CASE BrowserClosed(u)
      <3>1. GetsBack(u, NoCall.object) /\ job[u].op = "close_browser"
        BY <2>2 DEF BrowserClosed, Awaits
      <3>. QED  BY <3>1, NoCallTypes, GetsBackMoves
    <2>3. CASE \E c \in ContextIds : OneContextClosed(u, c)
      <3>1. PICK c \in ContextIds : OneContextClosed(u, c)
        BY <2>3
      <3>2. job' = [job EXCEPT ![u].todo = @ \ {c}] /\ job[u].op = "close_browser"
        BY <3>1 DEF OneContextClosed, Awaits
      <3>. DEFINE j == [job[u] EXCEPT !.todo = @ \ {c}]
      <3>3. job[u] \in UICall
        BY DEF UITypeOK
      <3>4. j \in UICall /\ j.op = job[u].op
        BY <3>3 DEF UICall
      <3>5. job' = [job EXCEPT ![u] = j]
        BY <3>2
      <3>. HIDE DEF j
      <3>. QED  BY <3>2, <3>4, <3>5 DEF UITypeOK
    <2>. QED  BY <2>1, <2>2, <2>3
  <1>3. UITypeOK'
    <2>1. open' \subseteq open
      BY DEF MakePage, ContextClosed, BrowserClosed, OneContextClosed
    <2>. QED  BY <1>1, <1>2, <2>1 DEF UITypeOK
  <1>4. \A n \in open : n \in open' \/ n \in Closing(u)
    <2>1. CASE MakePage(u)
      BY <2>1 DEF MakePage
    <2>2. CASE ContextClosed(u)
      BY <2>2 DEF ContextClosed, Awaits, Closing
    <2>3. CASE BrowserClosed(u)
      <3>1. browser \in 1 .. made
        BY <2>3 DEF BrowserClosed, UITypeOK
      <3>. QED  BY <2>3, <3>1 DEF BrowserClosed, Awaits, Closing
    <2>4. CASE \E c \in ContextIds : OneContextClosed(u, c)
      BY <2>4, ClosingHolds DEF OneContextClosed, Awaits, Closing
    <2>. QED  BY <2>1, <2>2, <2>3, <2>4
  <1>5. job[u].op \in PageOps => UNCHANGED open /\ IsOpen(job[u].object)
    BY DEF MakePage, ContextClosed, BrowserClosed, OneContextClosed, Awaits, PageOps
  <1>6. \A o \in Object, id \in ContextIds : HeldAs(o, id)' => HeldAs(o, id)
    <2>1. Holds(job'[u]) => /\ Holds(job[u])
                            /\ job'[u].object = job[u].object /\ job'[u].id = job[u].id
      BY <1>1, <1>2 DEF Holds, PageOps
    <2>. QED  BY <1>1, <1>2, <2>1 DEF HeldAs
  <1>7. job[u].op = "close_browser" => job[u].op \notin PageOps
    BY DEF PageOps
  <1>8. job[u].op = "close_context" => job[u].op # "close_browser"
    OBVIOUS
  <1>. QED  BY <1>1, <1>2, <1>3, <1>4, <1>5, <1>6, <1>7, <1>8 DEF Effect, HasBack, Awaits

LEMMA BrowserLaunchedEffect ==
    ASSUME UITypeOK, NEW u \in Users, BrowserLaunched(u)
    PROVE  UITypeOK' /\ Effect(u)
  <1>1. /\ made' = made + 1 /\ open' = open \cup {made + 1} /\ browser' = made + 1
        /\ GoOn(u, "launch_context", "default", NoCall.object)
        /\ UNCHANGED <<contexts, pages, pageContext, closeFailed>>
        /\ job[u].op = "launch"
    BY DEF BrowserLaunched, MakeObject, sessionVars, Awaits
  <1>2. /\ job' \in [Users -> UICall]
        /\ job'[u].op = "launch_context" /\ ~job'[u].done
        /\ \A v \in Users : v # u => job'[v] = job[v]
    BY <1>1, NoCallTypes, GoOnMoves DEF WithId, ContextIds
  <1>3. UITypeOK'
    BY <1>1, <1>2 DEF UITypeOK
  <1>4. \A o \in Object, id \in ContextIds : HeldAs(o, id)' => HeldAs(o, id)
    <2>1. ~Holds(job'[u])
      BY <1>2 DEF Holds, PageOps
    <2>. QED  BY <1>1, <1>2, <2>1 DEF HeldAs
  <1>. QED  BY <1>1, <1>2, <1>3, <1>4 DEF Effect, HasBack, Awaits, PageOps

\* The context that a thread has made enters the map, whatever was there under its id.
LEMMA ContextListedEffect ==
    ASSUME UITypeOK, NEW u \in Users, DefaultContextListed(u) \/ ContextListed(u)
    PROVE  UITypeOK' /\ Effect(u)
  <1>. DEFINE object == job[u].object
              id == job[u].id
  <1>1. /\ object \in Object /\ id \in ContextIds
        /\ job[u].op \in {"launch_context", "context"} /\ job[u].done
        /\ DefaultContextListed(u) => id = "default"
    BY JobTypes DEF DefaultContextListed, ContextListed, HasBack, WithId
  <1>2. PICK op \in {"launch_page", "context_page"} :
            GoOn(u, op, id, object) /\ (op = "launch_page" => id = "default")
    BY <1>1 DEF DefaultContextListed, ContextListed
  <1>3. /\ contexts' = Put(contexts, id, object)
        /\ UNCHANGED <<browser, pages, pageContext, made, open, closeFailed>>
    BY <1>1 DEF DefaultContextListed, ContextListed
  <1>4. Holds(job[u])
    BY <1>1 DEF Holds
  <1>. HIDE DEF object, id
  <1>5. /\ job' \in [Users -> UICall]
        /\ job'[u].op = op /\ job'[u].id = id /\ job'[u].object = object /\ ~job'[u].done
        /\ \A v \in Users : v # u => job'[v] = job[v]
    BY <1>1, <1>2, GoOnMoves DEF WithId, PageOps
  <1>6. /\ DOMAIN contexts' = DOMAIN contexts \cup {id} /\ contexts'[id] = object
        /\ \A i \in DOMAIN contexts : i # id => contexts'[i] = contexts[i]
    BY <1>3 DEF Put
  <1>7. UITypeOK'
    BY <1>1, <1>3, <1>5, <1>6 DEF UITypeOK
  <1>8. \A o \in Object, i \in ContextIds : HeldAs(o, i)' => HeldAs(o, i)
    BY <1>3, <1>4, <1>5, <1>6 DEF HeldAs, object, id
  <1>. QED  BY <1>1, <1>3, <1>5, <1>6, <1>7, <1>8 DEF Effect, HasBack, Awaits, PageOps

\* The page that a thread has made enters the maps, whatever was there under its id.
LEMMA PageListedEffect ==
    ASSUME UITypeOK, NEW u \in Users, DefaultPageListed(u) \/ PageListed(u) \/ ContextPageListed(u)
    PROVE  UITypeOK' /\ Effect(u)
  <1>1. /\ job[u].object \in Object /\ job[u].id \in ContextIds
        /\ job[u].op \in PageOps /\ job[u].done
        /\ DefaultPageListed(u) => job[u].id = "default"
    BY JobTypes DEF DefaultPageListed, PageListed, ContextPageListed, HasBack, WithId, PageOps
  <1>2. PICK page : ListPage(u, page, job[u].id)
    BY <1>1 DEF DefaultPageListed, PageListed, ContextPageListed
  <1>3. /\ pages' = Put(pages, page, job[u].object)
        /\ pageContext' = Put(pageContext, page, job[u].id)
        /\ Return(u)
        /\ UNCHANGED <<browser, contexts, made, open, closeFailed>>
    BY <1>2 DEF ListPage
  <1>4. /\ job' \in [Users -> UICall] /\ job'[u].op = "idle" /\ ~job'[u].done
        /\ \A v \in Users : v # u => job'[v] = job[v]
    BY <1>3, ReturnMoves
  <1>5. /\ DOMAIN pages' = DOMAIN pages \cup {page} /\ pages'[page] = job[u].object
        /\ \A p \in DOMAIN pages : p # page => pages'[p] = pages[p]
    BY <1>3 DEF Put
  <1>6. /\ DOMAIN pageContext' = DOMAIN pageContext \cup {page} /\ pageContext'[page] = job[u].id
        /\ \A p \in DOMAIN pageContext : p # page => pageContext'[p] = pageContext[p]
    BY <1>3 DEF Put
  <1>7. UITypeOK'
    BY <1>1, <1>3, <1>4, <1>5, <1>6 DEF UITypeOK
  <1>8. \A o \in Object, i \in ContextIds : HeldAs(o, i)' => HeldAs(o, i)
    <2>1. Holds(job[u]) /\ ~Holds(job'[u])
      BY <1>1, <1>4 DEF Holds, PageOps
    <2>2. DOMAIN pages = DOMAIN pageContext
      BY DEF UITypeOK
    <2>. QED  BY <1>3, <1>4, <1>5, <1>6, <2>1, <2>2 DEF HeldAs
  <1>9. DOMAIN pages = DOMAIN pageContext
    BY DEF UITypeOK
  <1>10. job[u].op # "close_context" /\ job[u].op # "close_browser" /\ job'[u].op \notin PageOps
    BY <1>1, <1>4 DEF PageOps
  <1>. QED  BY <1>1, <1>3, <1>4, <1>5, <1>6, <1>7, <1>8, <1>9, <1>10 DEF Effect, HasBack, Awaits

\* A context leaves the map with its pages, or all of them with the browser.
LEMMA RemovedEffect ==
    ASSUME UITypeOK, NEW u \in Users, ContextRemoved(u) \/ BrowserForgotten(u)
    PROVE  UITypeOK' /\ Effect(u)
  <1>1. /\ Return(u) /\ UNCHANGED <<made, open, closeFailed>> /\ browser' \in {0, browser}
        /\ job[u].op \in {"close_context", "close_browser"} /\ job[u].done
    BY DEF ContextRemoved, BrowserForgotten, HasBack
  <1>2. /\ job' \in [Users -> UICall] /\ job'[u].op = "idle" /\ ~job'[u].done
        /\ \A v \in Users : v # u => job'[v] = job[v]
    BY <1>1, ReturnMoves
  <1>3. /\ DOMAIN pages = DOMAIN pageContext
        /\ DOMAIN pages' = DOMAIN pageContext'
        /\ DOMAIN pages' \subseteq DOMAIN pages /\ DOMAIN contexts' \subseteq DOMAIN contexts
        /\ \A p \in DOMAIN pages' : pages'[p] = pages[p] /\ pageContext'[p] = pageContext[p]
        /\ \A i \in DOMAIN contexts' : contexts'[i] = contexts[i]
        /\ \A i \in DOMAIN contexts : i \in DOMAIN contexts' \/
                \A p \in DOMAIN pages' : pageContext[p] # i
        /\ job[u].op = "close_context" /\ job[u].id \in DOMAIN contexts =>
                \A p \in DOMAIN pages' : pageContext[p] # job[u].id
        /\ job[u].op = "close_browser" => DOMAIN pages' = {}
    <2>1. DOMAIN pages = DOMAIN pageContext
      BY DEF UITypeOK
    <2>2. CASE BrowserForgotten(u)
      <3>1. DOMAIN contexts' = {} /\ DOMAIN pages' = {} /\ DOMAIN pageContext' = {}
        BY <2>2 DEF BrowserForgotten
      <3>. QED  BY <2>1, <3>1
    <2>3. CASE ContextRemoved(u) /\ job[u].id \notin DOMAIN contexts
      <3>1. UNCHANGED <<contexts, pages, pageContext>> /\ job[u].op = "close_context"
        BY <2>3 DEF ContextRemoved, sessionVars, HasBack
      <3>. QED  BY <2>1, <2>3, <3>1
    <2>4. CASE ContextRemoved(u) /\ job[u].id \in DOMAIN contexts
      <3>. DEFINE gone == PagesOf(job[u].id)
      <3>1. /\ contexts' = Without(contexts, {job[u].id})
            /\ pages' = Without(pages, gone) /\ pageContext' = Without(pageContext, gone)
            /\ job[u].op = "close_context"
        BY <2>4 DEF ContextRemoved, HasBack
      <3>2. \A p \in DOMAIN pages : p \in gone <=> pageContext[p] = job[u].id
        BY <2>1 DEF PagesOf
      <3>. HIDE DEF gone
      <3>3. /\ DOMAIN contexts' = DOMAIN contexts \ {job[u].id}
            /\ \A i \in DOMAIN contexts \ {job[u].id} : contexts'[i] = contexts[i]
        BY <3>1, WithoutMoves
      <3>4. /\ DOMAIN pages' = DOMAIN pages \ gone
            /\ \A p \in DOMAIN pages \ gone : pages'[p] = pages[p]
        BY <3>1, WithoutMoves
      <3>5. /\ DOMAIN pageContext' = DOMAIN pageContext \ gone
            /\ \A p \in DOMAIN pageContext \ gone : pageContext'[p] = pageContext[p]
        BY <3>1, WithoutMoves
      <3>. QED  BY <2>1, <3>1, <3>2, <3>3, <3>4, <3>5
    <2>. QED  BY <2>2, <2>3, <2>4
  <1>4. UITypeOK'
    <2>1. browser' \in 0 .. made'
      BY <1>1 DEF UITypeOK
    <2>. QED  BY <1>1, <1>2, <1>3, <2>1 DEF UITypeOK
  <1>5. \A o \in Object, i \in ContextIds : HeldAs(o, i)' => HeldAs(o, i)
    <2>1. ~Holds(job'[u])
      BY <1>2 DEF Holds, PageOps
    <2>. QED  BY <1>2, <1>3, <2>1 DEF HeldAs
  <1>. QED  BY <1>1, <1>2, <1>3, <1>4, <1>5 DEF Effect, HasBack, Awaits, PageOps

-----------------------------------------------------------------------------
(* What every step keeps *)

\* A step that makes at most one object, under one id, keeps objects apart.
LEMMA ObjectsStay ==
    ASSUME UITypeOK, UITypeOK', ObjectsAreOwn, NEW newId,
           made' \in {made, made + 1},
           browser' \in {0, browser} \/ (browser' = made + 1 /\ made' = made + 1),
           \A o \in Object, id \in ContextIds : HeldAs(o, id)' =>
               \/ HeldAs(o, id)
               \/ /\ made' = made + 1 /\ browser' = browser
                  /\ o.nr = made + 1 /\ o.browser = browser /\ id = newId
    PROVE  ObjectsAreOwn'
  <1>. SUFFICES ASSUME NEW o \in Object, NEW id \in ContextIds, HeldAs(o, id)'
                PROVE  /\ o.nr > 0 /\ o.nr <= made' /\ o.browser <= made'
                       /\ o.nr # browser'
                       /\ \A other \in Object, id2 \in ContextIds : HeldAs(other, id2)' =>
                             (o.nr = other.nr => id = id2) /\ o.nr # other.browser
    BY DEF ObjectsAreOwn
  <1>1. made \in Nat /\ browser \in 0 .. made
    BY DEF UITypeOK
  <1>2. \A x \in Object : x.nr \in Nat /\ x.browser \in Nat
    BY DEF Object
  <1>3. \A x \in Object, i \in ContextIds : HeldAs(x, i) =>
            x.nr > 0 /\ x.nr <= made /\ x.browser <= made /\ x.nr # browser
    BY DEF ObjectsAreOwn
  <1>4. o.nr > 0 /\ o.nr <= made' /\ o.browser <= made' /\ o.nr # browser'
    BY <1>1, <1>2, <1>3
  <1>5. ASSUME NEW other \in Object, NEW id2 \in ContextIds, HeldAs(other, id2)'
        PROVE  (o.nr = other.nr => id = id2) /\ o.nr # other.browser
    <2>1. CASE HeldAs(o, id) /\ HeldAs(other, id2)
      BY <2>1 DEF ObjectsAreOwn
    <2>2. CASE ~HeldAs(o, id)
      <3>1. o.nr = made + 1 /\ o.browser = browser /\ id = newId
        BY <2>2
      <3>2. other.browser <= made
        BY <1>1, <1>3, <1>5
      <3>3. other.nr = made + 1 => id2 = newId
        BY <1>1, <1>2, <1>3, <1>5
      <3>. QED  BY <1>1, <1>2, <3>1, <3>2, <3>3
    <2>3. CASE HeldAs(o, id) /\ ~HeldAs(other, id2)
      <3>1. other.nr = made + 1 /\ other.browser = browser
        BY <1>5, <2>3
      <3>2. o.nr <= made /\ o.nr # browser
        BY <1>3, <2>3
      <3>. QED  BY <1>1, <1>2, <3>1, <3>2
    <2>. QED  BY <2>1, <2>2, <2>3
  <1>. QED  BY <1>4, <1>5

\* What a step of u closes while v is at work with it has been crossed.
LEMMA LostIsCrossed ==
    ASSUME UITypeOK, NEW u \in Users, NEW v \in Users, u # v, Crossings \subseteq crossed,
           NEW n \in 1 .. made, n \in Closing(u), n \in AtWorkWith(v)
    PROVE  n \in crossed
  BY DEF Crossings

\* What is held has a number of its own.
LEMMA HeldIsMade ==
    ASSUME UITypeOK, ObjectsAreOwn
    PROVE  /\ \A p \in DOMAIN pages :
                 /\ HeldAs(pages[p], pageContext[p]) /\ pages[p].nr \in 1 .. made
                 /\ pages[p] \in Object /\ pageContext[p] \in ContextIds
           /\ \A v \in Users : Holds(job[v]) =>
                 /\ HeldAs(job[v].object, job[v].id) /\ job[v].object.nr \in 1 .. made
                 /\ job[v].object \in Object /\ job[v].id \in ContextIds
  <1>1. \A o \in Object, id \in ContextIds : HeldAs(o, id) => o.nr \in 1 .. made
    <2>1. made \in Nat /\ \A o \in Object : o.nr \in Nat
      BY DEF UITypeOK, Object
    <2>. QED  BY <2>1 DEF ObjectsAreOwn
  <1>2. \A p \in DOMAIN pages : /\ pages[p] \in Object /\ pageContext[p] \in ContextIds
                                /\ HeldAs(pages[p], pageContext[p])
    BY DEF UITypeOK, HeldAs
  <1>3. \A v \in Users : Holds(job[v]) =>
            /\ job[v].object \in Object /\ job[v].id \in ContextIds
            /\ HeldAs(job[v].object, job[v].id)
    <2>. SUFFICES ASSUME NEW v \in Users, Holds(job[v])
                  PROVE  /\ job[v].object \in Object /\ job[v].id \in ContextIds
                         /\ HeldAs(job[v].object, job[v].id)
      OBVIOUS
    <2>1. job[v].op \in WithId
      BY DEF Holds, WithId
    <2>. QED  BY <2>1, JobTypes DEF HeldAs
  <1>. QED  BY <1>1, <1>2, <1>3

LEMMA MadeStays ==
    ASSUME UIInv, NEW u \in Users, Effect(u), crossed \subseteq crossed'
    PROVE  MadeIsUsable'
  <1>. SUFFICES ASSUME NEW v \in Users, job'[v].done, job'[v].op \in PageOps
                PROVE  Usable(job[v].object)'
    BY DEF MadeIsUsable
  <1>1. CASE v = u
    BY <1>1 DEF Effect, Usable, IsOpen
  <1>2. CASE v # u
    <2>1. job'[v] = job[v] /\ Usable(job[v].object)
      BY <1>2 DEF Effect, UIInv, MadeIsUsable
    <2>2. CASE Crossed(job[v].object)
      BY <2>1, <2>2 DEF Usable, Crossed
    <2>3. CASE IsOpen(job[v].object) /\ ~IsOpen(job[v].object)'
      <3>1. PICK n \in AtWorkWith(v) : n \in open /\ n \notin open'
        BY <2>1, <2>3 DEF IsOpen, AtWorkWith
      <3>2. n \in Closing(u) /\ n \in 1 .. made
        BY <3>1 DEF Effect, UIInv, UITypeOK
      <3>3. n \in crossed
        BY <1>2, <3>1, <3>2, LostIsCrossed DEF UIInv
      <3>. QED  BY <2>1, <3>1, <3>3 DEF Usable, Crossed, AtWorkWith
    <2>4. CASE IsOpen(job[v].object)'
      BY <2>1, <2>4 DEF Usable
    <2>. QED  BY <2>1, <2>2, <2>3, <2>4 DEF Usable
  <1>. QED  BY <1>1, <1>2

LEMMA ClosedStays ==
    ASSUME UIInv, NEW u \in Users, Effect(u), crossed \subseteq crossed'
    PROVE  ClosedOnceGone'
  <1>. SUFFICES ASSUME NEW v \in Users, NEW p \in DOMAIN pages', job'[v].op = "close_context",
                       job'[v].object.nr = pages'[p].nr
                PROVE  job'[v].id \in DOMAIN contexts' \/ pages'[p].nr \in crossed'
    BY DEF ClosedOnceGone
  <1>. USE DEF UIInv
  <1>1. CASE v = u /\ job'[v].id \notin DOMAIN contexts'
    <2>1. /\ job[u].op = "close_context" /\ job'[u].object = job[u].object
          /\ job'[u].id = job[u].id /\ UNCHANGED <<contexts, pages>>
      BY <1>1 DEF Effect
    <2>. QED  BY <1>1, <2>1 DEF ClosedOnceGone
  <1>2. CASE v # u
    <2>1. job'[v] = job[v] /\ Holds(job[v])
      BY <1>2 DEF Effect, Holds
    <2>2. CASE /\ job[u].done /\ job[u].op \in PageOps /\ pages'[p] = job[u].object
      <3>1. Holds(job[u])
        BY <2>2 DEF Holds
      <3>2. job[u].object.nr \in 1 .. made
        BY <3>1, HeldIsMade
      <3>3. job[u].object.nr \in Closing(v) /\ job[u].object.nr \in AtWorkWith(u)
        BY <2>1, <2>2 DEF Closing, AtWorkWith
      <3>4. job[u].object.nr \in crossed
        BY <1>2, <3>2, <3>3, LostIsCrossed
      <3>. QED  BY <2>2, <3>4
    <2>3. CASE /\ p \in DOMAIN pages /\ pages'[p] = pages[p] /\ pageContext'[p] = pageContext[p]
      <3>1. job[v].id \in DOMAIN contexts \/ pages[p].nr \in crossed
        BY <2>1, <2>3 DEF ClosedOnceGone
      <3>2. job[v].id = pageContext[p]
        <4>1. /\ HeldAs(pages[p], pageContext[p]) /\ HeldAs(job[v].object, job[v].id)
              /\ pages[p] \in Object /\ job[v].object \in Object
              /\ pageContext[p] \in ContextIds /\ job[v].id \in ContextIds
          BY <2>1, <2>3, HeldIsMade
        <4>. QED  BY <2>1, <2>3, <4>1 DEF ObjectsAreOwn
      <3>3. job[v].id \in DOMAIN contexts => job[v].id \in DOMAIN contexts'
        BY <3>2 DEF Effect
      <3>. QED  BY <2>1, <2>3, <3>1, <3>3
    <2>. QED  BY <2>2, <2>3 DEF Effect
  <1>. QED  BY <1>1, <1>2

LEMMA ListedStays ==
    ASSUME UIInv, NEW u \in Users, Effect(u), crossed \subseteq crossed'
    PROVE  ListedIsUsable'
  <1>. SUFFICES ASSUME ~closeFailed', \A v \in Users : job'[v].op # "close_browser",
                       NEW p \in DOMAIN pages'
                PROVE  \/ Usable(pages[p])'
                       \/ \E v \in Users : HasBack(v, "close_context")'
                                          /\ job'[v].object.nr = pages'[p].nr
    BY DEF ListedIsUsable
  <1>. USE DEF UIInv
  <1>1. ~closeFailed /\ \A v \in Users : job[v].op # "close_browser"
    BY DEF Effect
  <1>2. CASE /\ job[u].done /\ job[u].op \in PageOps /\ pages'[p] = job[u].object
    <2>1. Usable(job[u].object) /\ Closing(u) = {}
      BY <1>2 DEF MadeIsUsable, Closing, PageOps
    <2>2. \A n \in open : n \in open'
      BY <2>1 DEF Effect
    <2>. QED  BY <1>2, <2>1, <2>2 DEF Usable, IsOpen, Crossed
  <1>3. CASE p \in DOMAIN pages /\ pages'[p] = pages[p]
    <2>. DEFINE o == pages[p]
    <2>1. /\ HeldAs(o, pageContext[p]) /\ o.nr \in 1 .. made
          /\ o \in Object /\ pageContext[p] \in ContextIds
      BY <1>3, HeldIsMade
    <2>2. \/ Usable(o)
          \/ \E v \in Users : HasBack(v, "close_context") /\ job[v].object.nr = o.nr
      BY <1>1, <1>3 DEF ListedIsUsable
    <2>3. \A v \in Users : job[v].op = "close_context" /\ job[v].object.nr = o.nr =>
              job[v].id = pageContext[p] /\ (job[v].id \in DOMAIN contexts \/ o.nr \in crossed)
      <3>. SUFFICES ASSUME NEW v \in Users, job[v].op = "close_context", job[v].object.nr = o.nr
                    PROVE  /\ job[v].id = pageContext[p]
                           /\ job[v].id \in DOMAIN contexts \/ o.nr \in crossed
        OBVIOUS
      <3>1. /\ HeldAs(job[v].object, job[v].id)
            /\ job[v].object \in Object /\ job[v].id \in ContextIds
        BY HeldIsMade DEF Holds
      <3>2. job[v].id = pageContext[p]
        BY <2>1, <3>1 DEF ObjectsAreOwn
      <3>. QED  BY <1>3, <3>2 DEF ClosedOnceGone
    <2>4. CASE Crossed(o)
      BY <1>3, <2>4 DEF Usable, Crossed
    <2>5. CASE IsOpen(o)
      <3>1. CASE IsOpen(o)'
        BY <1>3, <3>1 DEF Usable
      <3>2. CASE ~IsOpen(o)'
        <4>1. PICK n \in {o.nr, o.browser} : n \in open /\ n \notin open'
          BY <1>3, <2>5, <3>2 DEF IsOpen
        <4>2. n \in Closing(u)
          BY <4>1 DEF Effect
        <4>3. job[u].op = "close_context" /\ n = job[u].object.nr
          BY <1>1, <4>2 DEF Closing
        <4>4. HasBack(u, "close_context")' /\ job'[u].object = job[u].object
          <5>1. Awaits(u, "close_context")
            BY <4>1, <4>3, JobTypes DEF Effect, HasBack, Awaits
          <5>. QED  BY <4>1, <5>1 DEF Effect
        <4>5. n # o.browser
          <5>1. /\ HeldAs(job[u].object, job[u].id)
                /\ job[u].object \in Object /\ job[u].id \in ContextIds
            BY <4>3, HeldIsMade DEF Holds
          <5>. QED  BY <2>1, <4>3, <5>1 DEF ObjectsAreOwn
        <4>. QED  BY <1>3, <4>1, <4>3, <4>4, <4>5
      <3>. QED  BY <3>1, <3>2
    <2>6. CASE \E v \in Users : HasBack(v, "close_context") /\ job[v].object.nr = o.nr
      <3>1. PICK v \in Users : HasBack(v, "close_context") /\ job[v].object.nr = o.nr
        BY <2>6
      <3>2. CASE v # u
        <4>1. job'[v] = job[v]
          BY <3>2 DEF Effect
        <4>. QED  BY <1>3, <3>1, <4>1 DEF HasBack
      <3>3. CASE v = u
        <4>1. job[u].id = pageContext[p] /\ (job[u].id \in DOMAIN contexts \/ o.nr \in crossed)
          BY <2>3, <3>1, <3>3 DEF HasBack
        <4>2. job[u].id \notin DOMAIN contexts
          BY <3>1, <3>3, <4>1 DEF Effect
        <4>. QED  BY <1>3, <4>1, <4>2 DEF Usable, Crossed
      <3>. QED  BY <3>2, <3>3
    <2>. QED  BY <2>2, <2>4, <2>5, <2>6 DEF Usable
  <1>. QED  BY <1>2, <1>3 DEF Effect

LEMMA UIStepInv ==
    ASSUME UIInv, [UINext]_uiVars
    PROVE  UIInv'
  <1>1. CASE UNCHANGED uiVars
    BY <1>1 DEF uiVars, UIInv, UITypeOK, ObjectsAreOwn, HeldAs, Crossings, Closing, AtWorkWith,
                MadeIsUsable, ClosedOnceGone, ListedIsUsable, Usable, Crossed, IsOpen, HasBack
  <1>2. CASE UINext
    <2>1. PICK u \in Users : UIStep(u)
      BY <1>2 DEF UINext
    <2>2. crossed' = crossed \cup Crossings'
      BY <1>2 DEF UINext
    <2>3. UITypeOK' /\ Effect(u)
      <3>. USE DEF UIInv
      <3>1. CASE \/ LaunchBrowser(u) \/ Raises(u) \/ CloseBrowser(u) \/ NewPage(u)
                 \/ \E s \in Sites : NewContext(u, s) \/ CloseContext(u, s)
                 \/ \E p \in DOMAIN pages : SwitchPage(u, p)
                 \/ \E c \in DOMAIN contexts : SwitchContext(u, c)
        BY <3>1, StartActions, Zenon
      <3>2. CASE BrowserLaunched(u)
        BY <3>2, BrowserLaunchedEffect
      <3>3. CASE DefaultContextMade(u) \/ ContextMade(u)
        BY <3>3, MakeEffect DEF DefaultContextMade, ContextMade, Awaits
      <3>4. CASE DefaultContextListed(u) \/ ContextListed(u)
        BY <3>4, ContextListedEffect
      <3>5. CASE DefaultPageMade(u) \/ PageMade(u) \/ ContextPageMade(u)
        BY <3>5, BackEffect DEF DefaultPageMade, PageMade, ContextPageMade, Awaits, PageOps
      <3>6. CASE DefaultPageListed(u) \/ PageListed(u) \/ ContextPageListed(u)
        BY <3>6, PageListedEffect
      <3>7. CASE \/ ContextClosed(u) \/ BrowserClosed(u)
                 \/ \E c \in ContextIds : OneContextClosed(u, c)
        BY <3>7, BackEffect, Zenon
      <3>8. CASE ContextRemoved(u) \/ BrowserForgotten(u)
        BY <3>8, RemovedEffect
      <3>. QED
        BY <2>1, <3>1, <3>2, <3>3, <3>4, <3>5, <3>6, <3>7, <3>8, Zenon DEF UIStep
    <2>4. ObjectsAreOwn'
      <3>1. UITypeOK /\ ObjectsAreOwn
        BY DEF UIInv
      <3>. QED  BY <2>3, <3>1, ObjectsStay DEF Effect
    <2>5. crossed \subseteq crossed' /\ Crossings' \subseteq crossed'
      BY <2>2
    <2>. QED  BY <2>3, <2>4, <2>5, MadeStays, ClosedStays, ListedStays DEF UIInv
  <1>. QED  BY <1>1, <1>2

\* For any number of threads, whatever they do between the awaits of each other and
\* wherever these raise: a page that get_page finds can be used, unless its context
\* or the browser is being closed, the close of the browser has raised, or a close
\* has overlapped with another thread's operation on the same context or browser.
THEOREM ListedPagesAreOpen == UISpec => []PagesAreOpen
  <1>1. UIInit => UIInv
    <2>. SUFFICES ASSUME UIInit PROVE UIInv
      OBVIOUS
    <2>1. DOMAIN contexts = {} /\ DOMAIN pages = {} /\ DOMAIN pageContext = {} /\ open = {}
          /\ made = 0 /\ browser = 0 /\ closeFailed = FALSE /\ job = [u \in Users |-> NoCall]
      BY DEF UIInit
    <2>2. \A u \in Users : job[u] = NoCall
      BY <2>1
    <2>3. NoCall \in UICall /\ NoCall.op = "idle" /\ ~NoCall.done
      BY NoCallTypes
    <2>4. UITypeOK
      BY <2>1, <2>3 DEF UITypeOK
    <2>5. ~Holds(NoCall) /\ NoCall.op \notin PageOps
      BY <2>3 DEF Holds, PageOps
    <2>6. ObjectsAreOwn
      BY <2>1, <2>2, <2>5 DEF ObjectsAreOwn, HeldAs
    <2>7. Crossings = {}
      BY <2>1 DEF Crossings
    <2>. QED
      BY <2>1, <2>2, <2>3, <2>4, <2>5, <2>6, <2>7
         DEF UIInv, MadeIsUsable, ClosedOnceGone, ListedIsUsable
  <1>2. UIInv /\ [UINext]_uiVars => UIInv'
    BY UIStepInv
  <1>3. UIInv => PagesAreOpen
    <2>. SUFFICES ASSUME UIInv, ~closeFailed, NEW p \in DOMAIN pages
                  PROVE  \/ IsOpen(pages[p])
                         \/ \E u \in Users : pages[p].nr \in Closing(u)
                         \/ {pages[p].nr, pages[p].browser} \cap crossed # {}
      BY DEF PagesAreOpen
    <2>1. CASE \E u \in Users : job[u].op = "close_browser"
      <3>1. PICK u \in Users : job[u].op = "close_browser"
        BY <2>1
      <3>2. pages[p].nr \in 1 .. made
        BY HeldIsMade DEF UIInv
      <3>. QED  BY <3>1, <3>2 DEF Closing
    <2>2. CASE \A u \in Users : job[u].op # "close_browser"
      <3>1. \/ Usable(pages[p])
            \/ \E u \in Users : HasBack(u, "close_context") /\ job[u].object.nr = pages[p].nr
        BY <2>2 DEF UIInv, ListedIsUsable
      <3>. QED  BY <3>1 DEF Usable, Crossed, HasBack, Closing
    <2>. QED  BY <2>1, <2>2
  <1>. QED  BY <1>1, <1>2, <1>3, PTL DEF UISpec

-----------------------------------------------------------------------------
(* What the debugger can go back to is the course it has taken, for         *)
(* workflows of any size and sessions of any length.                         *)

Snap == [node : Nodes, results : [Nodes -> Results]]

\* A debugger at node i with context c and snapshots s, or a session saved
\* there.  Beyond the two properties: no snapshot is of a node behind i, and
\* they are in the order of their nodes, so that the first snapshot of a node
\* has those of all earlier nodes before it.
Course(i, c, s) ==
    /\ i \in 1 .. N + 1
    /\ c \in [Nodes -> Results]
    /\ s \in Seq(Snap)
    /\ \A n \in Nodes : n >= i => c[n] = NoResult
    /\ \A n \in Nodes : c[n] # NoResult => \E k \in 1 .. Len(s) : s[k].node = n
    /\ \A k \in 1 .. Len(s) :
          /\ s[k].node <= i
          /\ \A n \in Nodes : s[k].results[n] = IF n < s[k].node THEN c[n] ELSE NoResult
    /\ \A j, k \in 1 .. Len(s) : j < k => s[j].node <= s[k].node

DebugInv ==
    /\ Course(index, context, snapshots)
    /\ session.saved => Course(session.index, session.context, session.snapshots)

LEMMA NodesAreNumbers == N \in Nat \ {0} /\ Nodes = 1 .. N /\ Nodes \subseteq Nat
  BY NAssumption DEF Nodes

LEMMA CourseStarts == Course(1, NoResults, << >>)
  BY NodesAreNumbers DEF Course, NoResults, Results

\* A snapshot of the current node.
LEMMA CourseAppends ==
    ASSUME NEW i \in Nodes, NEW c, NEW s, Course(i, c, s)
    PROVE  Course(i, c, Append(s, [node |-> i, results |-> c]))
  <1>. DEFINE x == [node |-> i, results |-> c]
              t == Append(s, x)
  <1>1. s \in Seq(Snap) /\ x \in Snap
    BY DEF Course, Snap
  <1>2. /\ t \in Seq(Snap) /\ Len(t) = Len(s) + 1 /\ Len(s) \in Nat
        /\ \A k \in 1 .. Len(s) : t[k] = s[k]
        /\ t[Len(s) + 1] = x
    BY <1>1, AppendProperties, LenProperties
  <1>. HIDE DEF t
  <1>3. \A k \in 1 .. Len(t) : k \in 1 .. Len(s) \/ k = Len(s) + 1
    BY <1>2
  <1>4. ASSUME NEW n \in Nodes, c[n] # NoResult PROVE \E k \in 1 .. Len(t) : t[k].node = n
    <2>1. PICK k \in 1 .. Len(s) : s[k].node = n
      BY <1>4 DEF Course
    <2>. QED
      BY <1>2, <2>1
  <1>5. ASSUME NEW k \in 1 .. Len(t)
        PROVE  /\ t[k].node <= i
               /\ \A n \in Nodes : t[k].results[n] = IF n < t[k].node THEN c[n] ELSE NoResult
    <2>1. CASE k \in 1 .. Len(s)
      BY <1>2, <2>1 DEF Course
    <2>2. CASE k = Len(s) + 1
      <3>1. t[k].node = i /\ t[k].results = c
        BY <1>2, <2>2
      <3>2. \A n \in Nodes : n >= i => c[n] = NoResult
        BY DEF Course
      <3>. QED
        BY <3>1, <3>2, NodesAreNumbers
    <2>. QED
      BY <1>3, <2>1, <2>2
  <1>6. ASSUME NEW j \in 1 .. Len(t), NEW k \in 1 .. Len(t), j < k
        PROVE  t[j].node <= t[k].node
    <2>1. j \in 1 .. Len(s)
      BY <1>2, <1>6
    <2>2. CASE k \in 1 .. Len(s)
      BY <1>2, <1>6, <2>1, <2>2 DEF Course
    <2>3. CASE k = Len(s) + 1
      <3>1. s[j].node <= i
        BY <2>1 DEF Course
      <3>. QED
        BY <1>2, <2>1, <2>3, <3>1
    <2>. QED
      BY <1>3, <2>2, <2>3
  <1>7. Course(i, c, t)
    BY <1>2, <1>4, <1>5, <1>6 DEF Course
  <1>. QED
    BY <1>7 DEF t

\* The current node has a snapshot and has completed.
LEMMA CourseAdvances ==
    ASSUME NEW i \in Nodes, NEW c, NEW s, NEW r \in Results, NEW d, Course(i, c, s),
           d = [c EXCEPT ![i] = r], \E k \in 1 .. Len(s) : s[k].node = i
    PROVE  Course(i + 1, d, s)
  <1>1. /\ i + 1 \in 1 .. N + 1 /\ s \in Seq(Snap) /\ Len(s) \in Nat
        /\ c \in [Nodes -> Results] /\ d \in [Nodes -> Results]
        /\ \A n \in Nodes : n # i => d[n] = c[n]
    BY NodesAreNumbers, LenProperties DEF Course
  <1>2. ASSUME NEW n \in Nodes, n >= i + 1 PROVE d[n] = NoResult
    <2>1. n # i /\ n >= i
      BY <1>2, NodesAreNumbers
    <2>. QED
      BY <1>1, <2>1 DEF Course
  <1>3. \A n \in Nodes : d[n] # NoResult => \E k \in 1 .. Len(s) : s[k].node = n
    BY <1>1 DEF Course
  <1>4. ASSUME NEW k \in 1 .. Len(s)
        PROVE  /\ s[k].node <= i + 1
               /\ \A n \in Nodes : s[k].results[n] = IF n < s[k].node THEN d[n] ELSE NoResult
    <2>1. s[k] \in Snap
      BY <1>1
    <2>2. s[k].node \in Nodes /\ s[k].node <= i
      BY <2>1 DEF Course, Snap
    <2>3. \A n \in Nodes : n < s[k].node => d[n] = c[n]
      BY <1>1, <2>2, NodesAreNumbers
    <2>. QED
      BY <2>2, <2>3, NodesAreNumbers DEF Course
  <1>. QED
    BY <1>1, <1>2, <1>3, <1>4 DEF Course

\* A skipped node leaves nothing.
LEMMA CourseSkips ==
    ASSUME NEW i \in Nodes, NEW c, NEW s, Course(i, c, s)
    PROVE  Course(i + 1, c, s)
  <1>1. \A k \in 1 .. Len(s) : s[k] \in Snap
    BY DEF Course
  <1>2. \A k \in 1 .. Len(s) : s[k].node \in Nodes /\ s[k].node <= i
    BY <1>1 DEF Course, Snap
  <1>3. \A k \in 1 .. Len(s) : s[k].node <= i + 1
    BY <1>2, NodesAreNumbers
  <1>4. \A n \in Nodes : n >= i + 1 => n >= i
    BY NodesAreNumbers
  <1>5. i + 1 \in 1 .. N + 1
    BY NodesAreNumbers
  <1>. QED
    BY <1>3, <1>4, <1>5 DEF Course

\* Back to a snapshot of node n, whichever of them.
LEMMA CourseGoesBack ==
    ASSUME NEW i, NEW c, NEW s, Course(i, c, s), NEW n \in Nodes,
           NEW k \in 1 .. Len(s), s[k].node = n
    PROVE  Course(n, s[k].results, SubSeq(s, 1, k - 1))
  <1>. DEFINE t == SubSeq(s, 1, k - 1)
              d == s[k].results
  <1>1. s \in Seq(Snap) /\ Len(s) \in Nat /\ s[k] \in Snap /\ n \in 1 .. N + 1
    BY NodesAreNumbers, LenProperties DEF Course
  <1>2. /\ t \in Seq(Snap) /\ Len(t) = k - 1 /\ \A j \in 1 .. k - 1 : t[j] = s[j]
    BY <1>1, SubSeqProperties
  <1>3. d \in [Nodes -> Results] /\ \A m \in Nodes : d[m] = IF m < n THEN c[m] ELSE NoResult
    BY <1>1 DEF Course, Snap
  <1>. HIDE DEF t, d
  <1>4. \A j \in 1 .. Len(t) : j \in 1 .. Len(s) /\ j < k /\ t[j] = s[j]
    BY <1>1, <1>2
  <1>5. \A m \in Nodes : m >= n => d[m] = NoResult
    BY <1>3, NodesAreNumbers
  <1>6. ASSUME NEW m \in Nodes, d[m] # NoResult PROVE \E j \in 1 .. Len(t) : t[j].node = m
    <2>1. m < n /\ c[m] # NoResult
      BY <1>3, <1>6
    <2>2. PICK j \in 1 .. Len(s) : s[j].node = m
      BY <2>1 DEF Course
    <2>3. ~(k < j) /\ j # k
      BY <2>1, <2>2, NodesAreNumbers DEF Course
    <2>. QED
      BY <1>1, <1>2, <2>2, <2>3
  <1>7. ASSUME NEW j \in 1 .. Len(t)
        PROVE  /\ t[j].node <= n
               /\ \A m \in Nodes : t[j].results[m] = IF m < t[j].node THEN d[m] ELSE NoResult
    <2>1. s[j] \in Snap /\ j \in 1 .. Len(s)
      BY <1>1, <1>4
    <2>2. s[j].node \in Nodes /\ s[j].node <= n
      BY <1>4, <2>1 DEF Course, Snap
    <2>3. \A m \in Nodes : m < s[j].node => d[m] = c[m]
      BY <1>3, <2>2, NodesAreNumbers
    <2>. QED
      BY <1>4, <2>1, <2>2, <2>3 DEF Course
  <1>8. \A j, l \in 1 .. Len(t) : j < l => t[j].node <= t[l].node
    BY <1>4 DEF Course
  <1>9. Course(n, d, t)
    BY <1>1, <1>2, <1>3, <1>5, <1>6, <1>7, <1>8 DEF Course
  <1>. QED
    BY <1>9 DEF t, d

LEMMA DebugStepInv ==
    ASSUME DebugInv, [DebugNext]_debugVars
    PROVE  DebugInv'
  <1>0. /\ Course(index, context, snapshots) /\ index \in 1 .. N + 1
        /\ snapshots \in Seq(Snap) /\ Len(snapshots) \in Nat
        /\ (index <= N => index \in Nodes)
    <2>1. Course(index, context, snapshots)
      BY DEF DebugInv
    <2>2. index \in 1 .. N + 1 /\ snapshots \in Seq(Snap)
      BY <2>1 DEF Course
    <2>3. Len(snapshots) \in Nat
      BY <2>2, LenProperties, Zenon
    <2>. QED
      BY <2>1, <2>2, <2>3, NodesAreNumbers
  <1>. DEFINE x == Snapshot(index)
  \* The session stays what it is.
  <1>1. ASSUME session' = session, Course(index', context', snapshots') PROVE DebugInv'
    BY <1>1 DEF DebugInv
  <1>2. CASE UNCHANGED debugVars
    BY <1>2 DEF DebugInv, debugVars, debuggerVars
  <1>3. CASE StepOver
    <2>0. index \in Nodes /\ session' = session
      BY <1>0, <1>3 DEF StepOver
    <2>1. CASE SkipStep
      BY <1>0, <1>1, <2>0, <2>1, CourseSkips DEF SkipStep
    <2>2. Course(index, context, Append(snapshots, x))
      BY <1>0, <2>0, CourseAppends DEF Snapshot
    <2>3. CASE FailStep
      BY <1>1, <2>0, <2>2, <2>3 DEF FailStep
    <2>4. ASSUME NEW s, Course(index, context, s) PROVE Course(index, context, Append(s, x))
                 /\ \E k \in 1 .. Len(Append(s, x)) : Append(s, x)[k].node = index
      <3>1. s \in Seq(Snap) /\ x \in Snap
        BY <1>0, <2>0, <2>4 DEF Course, Snapshot, Snap
      <3>2. Len(Append(s, x)) = Len(s) + 1 /\ Append(s, x)[Len(s) + 1] = x /\ Len(s) \in Nat
        BY <3>1, AppendProperties, LenProperties
      <3>3. Len(s) + 1 \in 1 .. Len(Append(s, x)) /\ x.node = index
        BY <3>2 DEF Snapshot
      <3>4. \E k \in 1 .. Len(Append(s, x)) : Append(s, x)[k].node = index
        BY <3>2, <3>3
      <3>5. Course(index, context, Append(s, x))
        BY <2>0, <2>4, CourseAppends DEF Snapshot
      <3>. QED
        BY <3>4, <3>5
    <2>5. ASSUME RunStep \/ CallbackFailStep
          PROVE  \E r \in Results : context' = [context EXCEPT ![index] = r]
      BY <2>5 DEF RunStep, CallbackFailStep, ResultsOf, Results
    <2>6. CASE RunStep
      <3>1. snapshots' = Append(snapshots, x) /\ index' = index + 1
        BY <2>6 DEF RunStep
      <3>2. Course(index + 1, context', Append(snapshots, x))
        BY <1>0, <2>0, <2>4, <2>5, <2>6, CourseAdvances
      <3>. QED
        BY <1>1, <2>0, <3>1, <3>2
    <2>7. CASE CallbackFailStep
      <3>1. snapshots' = snapshots \o <<x, x>> /\ index' = index + 1
        BY <2>7 DEF CallbackFailStep
      <3>2. x \in Snap
        BY <1>0, <2>0 DEF Course, Snapshot, Snap
      <3>3. snapshots \o <<x, x>> = Append(Append(snapshots, x), x)
        BY <1>0, <3>2
      <3>4. Course(index + 1, context', Append(Append(snapshots, x), x))
        BY <2>0, <2>2, <2>4, <2>5, <2>7, CourseAdvances
      <3>. QED
        BY <1>1, <2>0, <3>1, <3>3, <3>4
    <2>. QED
      BY <1>3, <2>1, <2>3, <2>6, <2>7 DEF StepOver
  <1>4. CASE ContinueExecution \/ ContinueReturns \/ \E n \in Breakable : ToggleBreakpoint(n)
    <2>1. UNCHANGED <<index, context, snapshots, session>>
      BY <1>4 DEF ContinueExecution, ContinueReturns, ToggleBreakpoint
    <2>. QED
      BY <1>0, <1>1, <2>1
  <1>5. ASSUME NEW n \in Nodes, RollbackToNode(n) PROVE DebugInv'
    <2>1. PICK k \in DOMAIN snapshots : /\ snapshots[k].node = n
                                        /\ context' = snapshots[k].results
                                        /\ snapshots' = SubSeq(snapshots, 1, k - 1)
      BY <1>5 DEF RollbackToNode
    <2>2. k \in 1 .. Len(snapshots) /\ index' = n /\ session' = session
      BY <1>0, <1>5, <2>1, LenProperties DEF RollbackToNode
    <2>3. Course(n, context', snapshots')
      BY <1>0, <2>1, <2>2, CourseGoesBack
    <2>. QED
      BY <1>1, <2>2, <2>3
  <1>6. CASE RestartSession
    BY <1>1, <1>6, CourseStarts DEF RestartSession
  <1>7. CASE SaveSession
    <2>1. /\ UNCHANGED <<index, context, snapshots>>
          /\ session'.index = index /\ session'.context = context
          /\ session'.snapshots = snapshots
      BY <1>7 DEF SaveSession
    <2>. QED
      BY <1>0, <2>1 DEF DebugInv
  <1>8. CASE LoadSession
    BY <1>1, <1>8 DEF LoadSession, DebugInv
  <1>. QED
    BY <1>2, <1>3, <1>4, <1>5, <1>6, <1>7, <1>8 DEF DebugNext

LEMMA DebugInvariant == DebugSpec => []DebugInv
  <1>1. DebugInit => DebugInv
    BY CourseStarts DEF DebugInit, NoSession, DebugInv
  <1>2. DebugInv /\ [DebugNext]_debugVars => DebugInv'
    BY DebugStepInv
  <1>. QED
    BY <1>1, <1>2, PTL DEF DebugSpec

\* However one steps, rolls back, saves and loads, no result of a course that
\* was given up is left ahead of the debugger (workflow_debugger.py).
THEOREM NothingAhead == DebugSpec => []NoResultAhead
  <1>1. DebugInv => NoResultAhead
    BY DEF DebugInv, Course, NoResultAhead
  <1>. QED
    BY <1>1, DebugInvariant, PTL

\* Every node that has run can be rolled back to, and what is restored is the
\* present course up to it.
THEOREM CourseIsReachable == DebugSpec => []HistoryIsReachable
  <1>1. ASSUME DebugInv PROVE HistoryIsReachable
    <2>1. snapshots \in Seq(Snap)
      BY <1>1 DEF DebugInv, Course
    <2>2. DOMAIN snapshots = 1 .. Len(snapshots)
      BY <2>1, LenProperties
    <2>. QED
      BY <1>1, <2>2 DEF DebugInv, Course, HistoryIsReachable
  <1>. QED
    BY <1>1, DebugInvariant, PTL
=============================================================================
