------------------------ MODULE WorkflowEngineProofs ------------------------
(***************************************************************************)
(* What the engine's loop does with a workflow of any size: the nodes that *)
(* run are those at the end of a live path, the steps are complete, and    *)
(* the report shows a step its own output up to the first step that left   *)
(* none in the shard storage.                                              *)
(***************************************************************************)
EXTENDS WorkflowEngine, SequenceTheorems, TLAPS

\* steps and next, through the phases of a run: one step per node passed, none
\* of them failed, and after a failure the failed step and the pending ones.
Passed ==
    /\ \A k \in DOMAIN steps : steps[k].node = k
    /\ \A k \in 1 .. next - 1 : steps[k].status \in {"success", "skipped"}

Unfinished == Len(steps) = next - 1

Failed ==
    /\ next <= N
    /\ Len(steps) = N
    /\ steps[next].status = "failed"
    /\ \A k \in next + 1 .. N : steps[k].status = "pending"

StepsInv ==
    /\ next - 1 <= Len(steps)
    /\ Passed
    /\ phase \in {"running", "raised", "reported_error"} => Unfinished
    /\ phase = "success" => Unfinished /\ next = N + 1
    /\ phase = "failed" => Failed
    /\ phase = "reported" => Failed \/ (Unfinished /\ next = N + 1)

\* What the context holds: results of live nodes only, none ahead of the loop.
ResultsInv ==
    /\ phase = "running" => \A n \in next .. N : result[n] = NoResult
    /\ \A n \in Nodes : result[n] # NoResult => n <= next /\ LivePath(n)
    /\ \A n \in DOMAIN steps :
          /\ steps[n].status \in {"success", "failed"} => LivePath(n)
          /\ steps[n].status = "skipped" => Preds(wf, n) # {} /\ ~Open(n)

\* The shard storage: as long as every step left a reference, index and node
\* agree; a successful step without a reference has its output in itself.
AllReferences(k) == \A j \in 1 .. k : steps[j].output = "reference"

AllSoFar == AllReferences(next - 1)

StoreInv ==
    /\ \A k \in DOMAIN steps :
          /\ steps[k].status = "success" => steps[k].output \in {"full", "reference"}
          /\ AllReferences(k) => k <= Len(store) /\ store[k] = k
    /\ phase = "running" /\ AllSoFar => Len(store) = next - 1
    /\ phase = "reported" => report.shown = [k \in 1 .. Len(steps) |-> ShownOutput(k)]

-----------------------------------------------------------------------------
(* Open edges and live paths.                                              *)

LEMMA WorkflowType ==
    ASSUME TypeOK
    PROVE  /\ wf \in [Pairs -> Labels]
           /\ \A n \in Nodes : \A p \in Preds(wf, n) :
                 p \in Nodes /\ p < n /\ <<p, n>> \in Pairs /\ wf[p, n] \in {"plain"} \cup Branches
  BY NAssumption DEF TypeOK, Workflows, Preds, Pairs, Labels, Nodes

\* The source of an open edge has a result.
LEMMA OpenFromResult ==
    ASSUME TypeOK, NEW n \in Nodes, NEW p \in Preds(wf, n), OpenEdge(p, n)
    PROVE  result[p] # NoResult
  BY WorkflowType DEF OpenEdge, NoResult, Branches

\* The loop's test looks at the direct predecessors only; when those with a
\* result are live, a node it lets run is live too.
LEMMA MayRunIsLive ==
    ASSUME TypeOK, NEW n \in Nodes, MayRun(n),
           \A p \in Nodes : p < n /\ result[p] # NoResult => LivePath(p)
    PROVE  LivePath(n)
  <1>1. CASE Preds(wf, n) = {}
    <2>1. {n} \in SUBSET (1 .. n)
      BY NAssumption DEF Nodes
    <2>. QED
      BY <1>1, <2>1 DEF LivePath
  <1>2. CASE Preds(wf, n) # {}
    <2>1. PICK p \in Preds(wf, n) : OpenEdge(p, n)
      BY <1>2 DEF MayRun, Open
    <2>2. p \in Nodes /\ p < n /\ result[p] # NoResult
      BY <2>1, WorkflowType, OpenFromResult
    <2>3. PICK S \in SUBSET (1 .. p) :
             /\ p \in S
             /\ \A m \in S : \/ Preds(wf, m) = {}
                             \/ \E q \in S \cap Preds(wf, m) : OpenEdge(q, m)
      BY <2>2 DEF LivePath
    <2>. DEFINE T == S \cup {n}
    <2>4. T \in SUBSET (1 .. n) /\ n \in T
      BY <2>2, <2>3, NAssumption DEF Nodes
    <2>5. ASSUME NEW m \in T
          PROVE  \/ Preds(wf, m) = {}
                 \/ \E q \in T \cap Preds(wf, m) : OpenEdge(q, m)
      <3>1. CASE m \in S
        BY <2>3, <3>1
      <3>2. CASE m = n
        BY <2>1, <2>3, <3>2
      <3>. QED
        BY <3>1, <3>2
    <2>. QED
      BY <2>4, <2>5 DEF LivePath
  <1>. QED
    BY <1>1, <1>2

\* Neither test looks at a result further on, so what is recorded later does
\* not change what was decided.
LEMMA DecidedStays ==
    ASSUME TypeOK, NEW i \in Nodes, wf' = wf,
           \A p \in Nodes : p < i => result'[p] = result[p]
    PROVE  \A n \in 1 .. i : (LivePath(n) => LivePath(n)') /\ (Open(n) <=> Open(n)')
  <1>. TAKE n \in 1 .. i
  <1>1. n \in Nodes /\ n <= i
    BY NAssumption DEF Nodes
  <1>2. ASSUME NEW m \in 1 .. n, NEW p \in Preds(wf, m)
        PROVE  OpenEdge(p, m)' <=> OpenEdge(p, m)
    <2>1. m \in Nodes /\ m <= i
      BY <1>1, NAssumption DEF Nodes
    <2>2. p \in Nodes /\ p < m
      BY <2>1, WorkflowType
    <2>3. p < i
      BY <2>1, <2>2, NAssumption DEF Nodes
    <2>. QED
      BY <2>2, <2>3 DEF OpenEdge
  <1>3. \A m \in Nodes : Preds(wf', m) = Preds(wf, m)
    OBVIOUS
  <1>4. Open(n) <=> Open(n)'
    BY <1>1, <1>2, <1>3, NAssumption DEF Open, Nodes
  <1>5. ASSUME LivePath(n) PROVE LivePath(n)'
    <2>1. PICK S \in SUBSET (1 .. n) :
             /\ n \in S
             /\ \A m \in S : \/ Preds(wf, m) = {}
                             \/ \E q \in S \cap Preds(wf, m) : OpenEdge(q, m)
      BY <1>5 DEF LivePath
    <2>2. ASSUME NEW m \in S
          PROVE  \/ Preds(wf', m) = {}
                 \/ \E q \in S \cap Preds(wf', m) : OpenEdge(q, m)'
      BY <1>2, <2>1
    <2>. QED
      BY <2>1, <2>2 DEF LivePath
  <1>. QED
    BY <1>4, <1>5

-----------------------------------------------------------------------------
(* The list of steps.                                                      *)

StepRecords == [node : Nodes, status : StepStatus, output : Outputs]

LEMMA InitInv ==
    ASSUME Init
    PROVE  TypeOK /\ StepsInv /\ ResultsInv /\ StoreInv
  <1>1. TypeOK
    BY NAssumption DEF Init, TypeOK, NoResults, Nodes, Results
  <1>2. StepsInv
    BY NAssumption DEF Init, StepsInv, Passed, Unfinished
  <1>3. ResultsInv
    BY NAssumption DEF Init, ResultsInv, NoResults, Nodes
  <1>4. StoreInv
    BY DEF Init, StoreInv
  <1>. QED
    BY <1>1, <1>2, <1>3, <1>4

\* A step appended by the loop.
LEMMA AppendedStep ==
    ASSUME TypeOK, next <= N, NEW status \in StepStatus, NEW output \in Outputs,
           steps' = Append(steps, Step(next, status, output))
    PROVE  /\ steps' \in Seq(StepRecords)
           /\ Len(steps') = Len(steps) + 1
           /\ \A k \in 1 .. Len(steps) : steps'[k] = steps[k]
           /\ steps'[Len(steps) + 1] = Step(next, status, output)
  <1>1. steps \in Seq(StepRecords)
    BY DEF TypeOK, StepRecords
  <1>2. Step(next, status, output) \in StepRecords
    BY NAssumption DEF TypeOK, StepRecords, Step, Nodes
  <1>. QED
    BY <1>1, <1>2

\* The steps a failure leaves.
IsFailed(s, n) == s.node = n /\ s.status = "failed" /\ s.output = "full"

IsPending(s, n) == s.node = n /\ s.status = "pending" /\ s.output = "nothing"

LEMMA FailureSteps ==
    ASSUME TypeOK, next <= N, Len(steps) = next - 1, FinalizeFailure
    PROVE  /\ steps' \in Seq(StepRecords)
           /\ Len(steps') = N
           /\ \A k \in 1 .. next - 1 : steps'[k] = steps[k]
           /\ IsFailed(steps'[next], next)
           /\ \A k \in next + 1 .. N : IsPending(steps'[k], k)
  <1>. DEFINE first == Append(steps, Step(next, "failed", "full"))
              rest == [k \in 1 .. N - next |-> Step(next + k, "pending", "nothing")]
  <1>1. next \in Nodes /\ N \in Nat /\ next \in Nat /\ N - next \in Nat
    BY NAssumption DEF TypeOK, Nodes
  <1>2. steps \in Seq(StepRecords)
    BY DEF TypeOK, StepRecords
  <1>3. Step(next, "failed", "full") \in StepRecords
    BY <1>1 DEF StepRecords, Step, StepStatus, Outputs
  <1>4. /\ first \in Seq(StepRecords) /\ Len(first) = next
        /\ \A k \in 1 .. next - 1 : first[k] = steps[k]
        /\ first[next] = Step(next, "failed", "full")
    BY <1>1, <1>2, <1>3
  <1>5. \A k \in 1 .. N - next : Step(next + k, "pending", "nothing") \in StepRecords
    BY <1>1 DEF StepRecords, Step, StepStatus, Outputs, Nodes
  <1>6. rest \in Seq(StepRecords) /\ Len(rest) = N - next
    BY <1>1, <1>5
  <1>7. steps' = first \o rest
    BY DEF FinalizeFailure
  <1>. HIDE DEF first
  <1>8. /\ steps' \in Seq(StepRecords) /\ Len(steps') = N
        /\ \A k \in 1 .. next : steps'[k] = first[k]
        /\ \A k \in next + 1 .. N : steps'[k] = rest[k - next]
    <2>. HIDE DEF rest
    <2>1. /\ first \o rest \in Seq(StepRecords)
          /\ Len(first \o rest) = Len(first) + Len(rest)
          /\ \A i \in 1 .. Len(first) + Len(rest) :
                (first \o rest)[i] = IF i <= Len(first) THEN first[i] ELSE rest[i - Len(first)]
      BY <1>4, <1>6, ConcatProperties
    <2>. QED
      BY <1>1, <1>4, <1>6, <1>7, <2>1
  <1>9. ASSUME NEW k \in next + 1 .. N PROVE rest[k - next] = Step(k, "pending", "nothing")
    BY <1>1
  <1>10. /\ IsFailed(Step(next, "failed", "full"), next)
         /\ \A k \in next + 1 .. N : IsPending(Step(k, "pending", "nothing"), k)
    BY DEF IsFailed, IsPending, Step
  <1>. HIDE DEF rest
  <1>. QED
    BY <1>1, <1>4, <1>8, <1>9, <1>10

LEMMA TypeStep ==
    ASSUME TypeOK, StepsInv, [Next]_vars
    PROVE  TypeOK'
  <1>1. ASSUME UNCHANGED vars PROVE TypeOK'
    BY <1>1 DEF TypeOK, vars
  <1>2. CASE RaiseOnCondition
    BY <1>2 DEF TypeOK, RaiseOnCondition
  <1>3. CASE Skip
    <2>1. steps' \in Seq(StepRecords)
      BY <1>3, AppendedStep DEF Skip, StepStatus, Outputs
    <2>. QED
      BY <1>3, <2>1, NAssumption DEF TypeOK, Skip, StepRecords
  <1>4. CASE Succeed
    <2>1. steps' \in Seq(StepRecords)
      BY <1>4, AppendedStep DEF Succeed, StepStatus, Outputs
    <2>2. result' \in [Nodes -> Results]
      BY <1>4 DEF TypeOK, Succeed, ResultsOf, Results
    <2>3. store' \in Seq(Nodes)
      <3>1. next \in Nodes
        BY <1>4, NAssumption DEF TypeOK, Succeed, Nodes
      <3>2. store \in Seq(Nodes) /\ Append(store, next) \in Seq(Nodes)
        BY <3>1, AppendProperties DEF TypeOK
      <3>3. store' = Append(store, next) \/ store' = store
        BY <1>4 DEF Succeed
      <3>. QED
        BY <3>2, <3>3
    <2>. QED
      BY <1>4, <2>1, <2>2, <2>3, NAssumption DEF TypeOK, Succeed, StepRecords
  <1>5. CASE ProcessorRaises
    <2>1. steps' \in Seq(StepRecords)
      BY <1>5, FailureSteps DEF ProcessorRaises, StepsInv, Unfinished
    <2>. QED
      BY <1>5, <2>1 DEF TypeOK, ProcessorRaises, FinalizeFailure, StepRecords
  <1>6. CASE NodeFails
    <2>1. steps' \in Seq(StepRecords)
      BY <1>6, FailureSteps DEF NodeFails, StepsInv, Unfinished
    <2>2. result' \in [Nodes -> Results]
      BY <1>6 DEF TypeOK, NodeFails, ResultsOf, Results
    <2>. QED
      BY <1>6, <2>1, <2>2 DEF TypeOK, NodeFails, FinalizeFailure, StepRecords
  <1>7. CASE Finish \/ Report \/ ReportError
    BY <1>7 DEF TypeOK, Finish, Report, ReportError
  <1>. QED
    BY <1>1, <1>2, <1>3, <1>4, <1>5, <1>6, <1>7 DEF Next, Done

LEMMA StepsStep ==
    ASSUME TypeOK, StepsInv, [Next]_vars
    PROVE  StepsInv'
  <1>0. N \in Nat /\ next \in 1 .. N + 1 /\ steps \in Seq(StepRecords)
    BY NAssumption DEF TypeOK, StepRecords
  <1>1. ASSUME UNCHANGED vars PROVE StepsInv'
    BY <1>1 DEF StepsInv, Passed, Unfinished, Failed, vars
  <1>2. CASE RaiseOnCondition
    BY <1>2 DEF StepsInv, Passed, Unfinished, Failed, RaiseOnCondition
  <1>3. ASSUME phase = "running", phase' = "running", next <= N, next' = next + 1,
               NEW status \in {"success", "skipped"}, NEW output \in Outputs,
               steps' = Append(steps, Step(next, status, output))
        PROVE  StepsInv'
    <2>1. Len(steps) = next - 1
      BY <1>3 DEF StepsInv, Unfinished
    <2>2. /\ steps' \in Seq(StepRecords) /\ Len(steps') = Len(steps) + 1
          /\ \A k \in 1 .. Len(steps) : steps'[k] = steps[k]
          /\ steps'[Len(steps) + 1] = Step(next, status, output)
      BY <1>3, AppendedStep DEF StepStatus
    <2>3. /\ Len(steps') = next
          /\ \A k \in 1 .. next - 1 : steps'[k] = steps[k]
          /\ steps'[next].node = next /\ steps'[next].status = status
      BY <1>0, <2>1, <2>2 DEF Step
    <2>4. Passed'
      BY <1>0, <1>3, <2>1, <2>2, <2>3 DEF StepsInv, Passed
    <2>. QED
      BY <1>0, <1>3, <2>3, <2>4 DEF StepsInv, Unfinished
  <1>4. CASE Skip
    BY <1>3, <1>4 DEF Skip, Outputs
  <1>5. CASE Succeed
    BY <1>3, <1>5 DEF Succeed, Outputs
  <1>6. ASSUME phase = "running", next <= N, FinalizeFailure PROVE StepsInv'
    <2>1. Len(steps) = next - 1
      BY <1>6 DEF StepsInv, Unfinished
    <2>2. /\ steps' \in Seq(StepRecords) /\ Len(steps') = N
          /\ \A k \in 1 .. next - 1 : steps'[k] = steps[k]
          /\ IsFailed(steps'[next], next)
          /\ \A k \in next + 1 .. N : IsPending(steps'[k], k)
      BY <1>6, <2>1, FailureSteps
    <2>3. next' = next /\ phase' = "failed"
      BY <1>6 DEF FinalizeFailure
    <2>4. Passed'
      <3>1. ASSUME NEW k \in DOMAIN steps' PROVE steps'[k].node = k
        <4>1. k \in 1 .. next - 1 \/ k = next \/ k \in next + 1 .. N
          BY <1>0, <2>2
        <4>2. k \in 1 .. next - 1 => steps'[k] = steps[k] /\ steps[k].node = k
          BY <1>0, <2>1, <2>2 DEF StepsInv, Passed
        <4>. QED
          BY <2>2, <4>1, <4>2 DEF IsFailed, IsPending
      <3>2. ASSUME NEW k \in 1 .. next - 1 PROVE steps'[k].status \in {"success", "skipped"}
        BY <2>2 DEF StepsInv, Passed
      <3>. QED
        BY <2>3, <3>1, <3>2 DEF Passed
    <2>5. Failed'
      BY <1>0, <1>6, <2>2, <2>3 DEF Failed, IsFailed, IsPending
    <2>. QED
      BY <1>0, <1>6, <2>2, <2>3, <2>4, <2>5 DEF StepsInv
  <1>7. CASE ProcessorRaises \/ NodeFails
    BY <1>6, <1>7 DEF ProcessorRaises, NodeFails
  <1>8. CASE Finish
    BY <1>0, <1>8 DEF Finish, StepsInv, Passed, Unfinished, Failed
  <1>9. CASE Report
    BY <1>0, <1>9 DEF Report, StepsInv, Passed, Unfinished, Failed
  <1>10. CASE ReportError
    BY <1>10 DEF ReportError, StepsInv, Passed, Unfinished, Failed
  <1>. QED
    BY <1>1, <1>2, <1>4, <1>5, <1>7, <1>8, <1>9, <1>10 DEF Next, Done

-----------------------------------------------------------------------------
(* What the context and the steps say of live paths.                       *)

LEMMA ResultsStep ==
    ASSUME TypeOK, StepsInv, ResultsInv, [Next]_vars
    PROVE  ResultsInv'
  <1>0. /\ N \in Nat /\ next \in 1 .. N + 1 /\ steps \in Seq(StepRecords)
        /\ result \in [Nodes -> Results] /\ Len(steps) \in Nat /\ DOMAIN steps = 1 .. Len(steps)
    BY NAssumption DEF TypeOK, StepRecords
  <1>1. ASSUME UNCHANGED <<wf, next, result, steps>>, phase' = phase \/ phase' # "running"
        PROVE  ResultsInv'
    <2>1. ASSUME NEW n \in Nat PROVE (LivePath(n)' <=> LivePath(n)) /\ (Open(n)' <=> Open(n))
      <3>1. \A p, m : OpenEdge(p, m)' <=> OpenEdge(p, m)
        BY <1>1 DEF OpenEdge
      <3>. QED
        BY <1>1, <3>1 DEF LivePath, Open
    <2>2. Nodes \subseteq Nat /\ DOMAIN steps \subseteq Nat
      BY <1>0 DEF Nodes
    <2>. QED
      BY <1>1, <2>1, <2>2 DEF ResultsInv
  <1>2. ASSUME phase = "running", next <= N, wf' = wf, MayRun(next) \/ result' = result,
               \E r \in Results : result' = [result EXCEPT ![next] = r]
        PROVE  /\ \A p \in Nodes : p # next => result'[p] = result[p]
               /\ \A n \in Nodes : n = next /\ MayRun(n) => LivePath(n)'
               /\ \A n \in 1 .. next : (LivePath(n) => LivePath(n)') /\ (Open(n) <=> Open(n)')
               /\ \A n \in Nodes : result'[n] # NoResult => n <= next /\ LivePath(n)'
    <2>1. next \in Nodes /\ \A p \in Nodes : p # next => result'[p] = result[p]
      BY <1>0, <1>2 DEF Nodes
    <2>2. \A n \in 1 .. next : (LivePath(n) => LivePath(n)') /\ (Open(n) <=> Open(n)')
      BY <1>2, <2>1, DecidedStays, NAssumption DEF Nodes
    <2>3. ASSUME NEW n \in Nodes, n = next, MayRun(n) PROVE LivePath(n)'
      <3>1. \A p \in Nodes : p < n /\ result[p] # NoResult => LivePath(p)
        BY DEF ResultsInv
      <3>2. LivePath(n)
        BY <2>3, <3>1, MayRunIsLive
      <3>3. n \in 1 .. next
        BY <1>0, <2>3
      <3>. QED
        BY <2>2, <3>2, <3>3
    <2>4. ASSUME NEW n \in Nodes, result'[n] # NoResult PROVE n <= next /\ LivePath(n)'
      <3>1. CASE n = next /\ MayRun(next)
        BY <1>0, <2>3, <3>1
      <3>2. CASE result'[n] = result[n]
        <4>1. n <= next /\ LivePath(n)
          BY <2>4, <3>2 DEF ResultsInv
        <4>2. n \in 1 .. next
          BY <1>0, <4>1 DEF Nodes
        <4>. QED
          BY <2>2, <4>1, <4>2
      <3>. QED
        BY <1>2, <2>1, <3>1, <3>2
    <2>. QED
      BY <2>1, <2>2, <2>3, <2>4
  <1>3. ASSUME phase = "running", next <= N, next' = next + 1, wf' = wf,
               MayRun(next) \/ result' = result,
               \E r \in Results : result' = [result EXCEPT ![next] = r],
               NEW status \in {"success", "skipped"}, NEW output \in Outputs,
               steps' = Append(steps, Step(next, status, output)),
               status = "success" => MayRun(next),
               status = "skipped" => ~MayRun(next)
        PROVE  ResultsInv'
    <2>1. Len(steps) = next - 1
      BY <1>3 DEF StepsInv, Unfinished
    <2>2. /\ steps' \in Seq(StepRecords) /\ Len(steps') = next
          /\ \A k \in 1 .. next - 1 : steps'[k] = steps[k]
          /\ steps'[next].status = status
      <3>1. /\ steps' \in Seq(StepRecords) /\ Len(steps') = Len(steps) + 1
            /\ \A k \in 1 .. Len(steps) : steps'[k] = steps[k]
            /\ steps'[Len(steps) + 1] = Step(next, status, output)
        BY <1>3, AppendedStep DEF StepStatus
      <3>. QED
        BY <1>0, <2>1, <3>1 DEF Step
    <2>3. ASSUME NEW n \in next' .. N PROVE result'[n] = NoResult
      <3>1. n \in next .. N /\ n \in Nodes /\ n # next
        BY <1>0, <1>3 DEF Nodes
      <3>. QED
        BY <1>2, <1>3, <3>1 DEF ResultsInv
    <2>4. ASSUME NEW n \in Nodes, result'[n] # NoResult PROVE n <= next' /\ LivePath(n)'
      <3>1. n <= next /\ LivePath(n)'
        BY <1>2, <1>3, <2>4
      <3>. QED
        BY <1>0, <1>3, <3>1 DEF Nodes
    <2>5. ASSUME NEW n \in DOMAIN steps'
          PROVE  /\ steps'[n].status \in {"success", "failed"} => LivePath(n)'
                 /\ steps'[n].status = "skipped" => Preds(wf', n) # {} /\ ~Open(n)'
      <3>1. n \in 1 .. next
        BY <2>2
      <3>2. CASE n = next
        <4>1. n \in Nodes
          BY <1>0, <1>3, <3>2 DEF Nodes
        <4>2. MayRun(n) => LivePath(n)'
          BY <1>2, <1>3, <3>2, <4>1
        <4>3. Open(n) <=> Open(n)'
          BY <1>2, <1>3, <3>1
        <4>4. steps'[n].status = status
          BY <2>2, <3>2
        <4>5. status = "skipped" => Preds(wf', n) # {} /\ ~Open(n)'
          BY <1>3, <3>2, <4>3 DEF MayRun
        <4>. QED
          BY <1>3, <3>2, <4>2, <4>4, <4>5
      <3>3. CASE n < next
        <4>1. n \in DOMAIN steps /\ steps'[n] = steps[n]
          BY <1>0, <2>1, <2>2, <3>1, <3>3
        <4>. QED
          BY <1>2, <1>3, <3>1, <4>1 DEF ResultsInv
      <3>. QED
        BY <1>0, <3>1, <3>2, <3>3
    <2>. QED
      BY <2>3, <2>4, <2>5 DEF ResultsInv
  <1>4. CASE Skip
    <2>1. result' = [result EXCEPT ![next] = result[next]] /\ result[next] \in Results
      BY <1>0, <1>4 DEF Skip, Nodes
    <2>. QED
      BY <1>3, <1>4, <2>1 DEF Skip, MaySkip, Outputs
  <1>5. CASE Succeed
    BY <1>3, <1>5 DEF Succeed, ResultsOf, Results, Outputs
  <1>6. ASSUME phase = "running", next <= N, wf' = wf, MayRun(next), FinalizeFailure,
               \E r \in Results : result' = [result EXCEPT ![next] = r]
        PROVE  ResultsInv'
    <2>1. Len(steps) = next - 1
      BY <1>6 DEF StepsInv, Unfinished
    <2>2. /\ steps' \in Seq(StepRecords) /\ Len(steps') = N
          /\ \A k \in 1 .. next - 1 : steps'[k] = steps[k]
          /\ IsFailed(steps'[next], next)
          /\ \A k \in next + 1 .. N : IsPending(steps'[k], k)
      BY <1>6, <2>1, FailureSteps
    <2>3. next' = next /\ phase' = "failed"
      BY <1>6 DEF FinalizeFailure
    <2>4. ASSUME NEW n \in DOMAIN steps'
          PROVE  /\ steps'[n].status \in {"success", "failed"} => LivePath(n)'
                 /\ steps'[n].status = "skipped" => Preds(wf', n) # {} /\ ~Open(n)'
      <3>1. n \in 1 .. N
        BY <2>2
      <3>2. CASE n = next
        <4>1. n \in Nodes
          BY <3>1 DEF Nodes
        <4>2. LivePath(n)'
          BY <1>2, <1>6, <3>2, <4>1
        <4>. QED
          BY <2>2, <3>2, <4>2 DEF IsFailed
      <3>3. CASE n \in next + 1 .. N
        BY <2>2, <3>3 DEF IsPending
      <3>4. CASE n < next
        <4>1. n \in DOMAIN steps /\ steps'[n] = steps[n] /\ n \in 1 .. next
          BY <1>0, <2>1, <2>2, <3>1, <3>4
        <4>. QED
          BY <1>2, <1>6, <4>1 DEF ResultsInv
      <3>. QED
        BY <1>0, <3>1, <3>2, <3>3, <3>4
    <2>. QED
      BY <1>2, <1>6, <2>3, <2>4 DEF ResultsInv
  <1>7. CASE ProcessorRaises
    <2>1. result' = [result EXCEPT ![next] = result[next]] /\ result[next] \in Results
      BY <1>0, <1>7 DEF ProcessorRaises, Nodes
    <2>. QED
      BY <1>6, <1>7, <2>1 DEF ProcessorRaises, FinalizeFailure
  <1>8. CASE NodeFails
    BY <1>6, <1>8 DEF NodeFails, FinalizeFailure, ResultsOf, Results
  <1>9. CASE RaiseOnCondition \/ Finish \/ Report \/ ReportError \/ Done \/ UNCHANGED vars
    BY <1>1, <1>9 DEF RaiseOnCondition, Finish, Report, ReportError, Done, vars
  <1>. QED
    BY <1>4, <1>5, <1>7, <1>8, <1>9 DEF Next

-----------------------------------------------------------------------------
(* The shard storage.                                                      *)

LEMMA StoreStep ==
    ASSUME TypeOK, StepsInv, StoreInv, [Next]_vars
    PROVE  StoreInv'
  <1>0. /\ N \in Nat /\ next \in 1 .. N + 1 /\ steps \in Seq(StepRecords) /\ store \in Seq(Nodes)
        /\ Len(steps) \in Nat /\ Len(store) \in Nat /\ DOMAIN steps = 1 .. Len(steps)
    BY NAssumption DEF TypeOK, StepRecords
  \* Steps and storage stay: only a report may be new.
  <1>1. ASSUME UNCHANGED <<next, steps, store>>,
               UNCHANGED <<phase, report>> \/ phase' \notin {"running", "reported"}
                   \/ (phase' = "reported"
                          /\ report'.shown = [k \in 1 .. Len(steps) |-> ShownOutput(k)])
        PROVE  StoreInv'
    <2>1. \A k : AllReferences(k)' <=> AllReferences(k)
      BY <1>1 DEF AllReferences
    <2>2. \A k : ShownOutput(k)' = ShownOutput(k)
      BY <1>1 DEF ShownOutput
    <2>3. /\ \A k \in DOMAIN steps' :
                /\ steps'[k].status = "success" => steps'[k].output \in {"full", "reference"}
                /\ AllReferences(k)' => k <= Len(store') /\ store'[k] = k
          /\ phase' = "running" /\ AllSoFar' => Len(store') = next' - 1
      BY <1>1 DEF StoreInv, AllSoFar, AllReferences
    <2>4. phase' = "reported" =>
              report'.shown = [k \in 1 .. Len(steps') |-> ShownOutput(k)']
      BY <1>1, <2>2 DEF StoreInv
    <2>. QED
      BY <2>3, <2>4 DEF StoreInv
  \* A step is added.
  <1>2. ASSUME phase = "running", phase' = "running", next <= N, next' = next + 1,
               NEW status \in {"success", "skipped"}, NEW output \in Outputs,
               steps' = Append(steps, Step(next, status, output)),
               status = "success" => output \in {"full", "reference"},
               IF output = "reference" THEN store' = Append(store, next) ELSE store' = store
        PROVE  StoreInv'
    <2>1. /\ Len(steps) = next - 1 /\ Len(steps') = next /\ steps' \in Seq(StepRecords)
          /\ \A k \in 1 .. next - 1 : steps'[k] = steps[k]
          /\ steps'[next].status = status /\ steps'[next].output = output
      <3>1. Len(steps) = next - 1
        BY <1>2 DEF StepsInv, Unfinished
      <3>2. /\ steps' \in Seq(StepRecords) /\ Len(steps') = Len(steps) + 1
            /\ \A k \in 1 .. Len(steps) : steps'[k] = steps[k]
            /\ steps'[Len(steps) + 1] = Step(next, status, output)
        BY <1>2, AppendedStep DEF StepStatus
      <3>. QED
        BY <1>0, <3>1, <3>2 DEF Step
    <2>2. ASSUME NEW k \in 1 .. next - 1 PROVE AllReferences(k)' <=> AllReferences(k)
      BY <1>0, <2>1 DEF AllReferences
    <2>3. /\ Len(store') >= Len(store)
          /\ \A k \in 1 .. Len(store) : store'[k] = store[k]
          /\ output = "reference" =>
                Len(store') = Len(store) + 1 /\ store'[Len(store) + 1] = next
      <3>1. next \in Nodes
        BY <1>0, <1>2 DEF Nodes
      <3>2. CASE output = "reference"
        BY <1>0, <1>2, <3>1, <3>2, AppendProperties
      <3>3. CASE output # "reference"
        BY <1>0, <1>2, <3>3
      <3>. QED
        BY <3>2, <3>3
    <2>4. ASSUME \A j \in 1 .. next : steps'[j].output = "reference"
          PROVE  Len(store') = next /\ store'[next] = next
      <3>1. output = "reference" /\ AllSoFar
        BY <1>0, <2>1, <2>4 DEF AllSoFar, AllReferences
      <3>2. Len(store) = next - 1
        BY <1>2, <3>1 DEF StoreInv
      <3>. QED
        BY <1>0, <2>3, <3>1, <3>2
    <2>5. ASSUME NEW k \in DOMAIN steps'
          PROVE  /\ steps'[k].status = "success" => steps'[k].output \in {"full", "reference"}
                 /\ AllReferences(k)' => k <= Len(store') /\ store'[k] = k
      <3>1. k \in 1 .. next
        BY <2>1
      <3>2. CASE k = next
        BY <1>0, <1>2, <2>1, <2>4, <3>2 DEF AllReferences
      <3>3. CASE k \in 1 .. next - 1
        <4>1. k \in DOMAIN steps
          BY <1>0, <2>1, <3>3
        <4>2. AllReferences(k)' => k <= Len(store) /\ store[k] = k
          BY <2>2, <3>3, <4>1 DEF StoreInv
        <4>3. AllReferences(k)' => k <= Len(store') /\ store'[k] = k
          BY <1>0, <1>2, <2>3, <3>3, <4>2
        <4>. QED
          BY <2>1, <3>3, <4>1, <4>3 DEF StoreInv
      <3>. QED
        BY <1>0, <3>1, <3>2, <3>3
    <2>6. AllSoFar' => Len(store') = next' - 1
      <3>1. next' - 1 = next
        BY <1>0, <1>2
      <3>. QED
        BY <1>2, <2>4, <3>1 DEF AllSoFar, AllReferences
    <2>. QED
      BY <1>2, <2>5, <2>6 DEF StoreInv
  <1>3. CASE Skip
    BY <1>2, <1>3 DEF Skip, Outputs
  <1>4. CASE Succeed
    BY <1>2, <1>4 DEF Succeed, Outputs
  \* The run fails.
  <1>5. ASSUME phase = "running", next <= N, FinalizeFailure PROVE StoreInv'
    <2>1. Len(steps) = next - 1
      BY <1>5 DEF StepsInv, Unfinished
    <2>2. /\ steps' \in Seq(StepRecords) /\ Len(steps') = N
          /\ \A k \in 1 .. next - 1 : steps'[k] = steps[k]
          /\ IsFailed(steps'[next], next)
          /\ \A k \in next + 1 .. N : IsPending(steps'[k], k)
      BY <1>5, <2>1, FailureSteps
    <2>3. next' = next /\ phase' = "failed" /\ store' = store
      BY <1>5 DEF FinalizeFailure
    <2>4. ASSUME NEW k \in DOMAIN steps'
          PROVE  /\ steps'[k].status = "success" => steps'[k].output \in {"full", "reference"}
                 /\ AllReferences(k)' => k <= Len(store') /\ store'[k] = k
      <3>1. k \in 1 .. N
        BY <2>2
      <3>2. CASE k \in 1 .. next - 1
        <4>1. k \in DOMAIN steps /\ steps'[k] = steps[k]
          BY <1>0, <2>1, <2>2, <3>2
        <4>2. AllReferences(k)' <=> AllReferences(k)
          <5>1. \A j \in 1 .. k : steps'[j] = steps[j]
            BY <1>0, <2>2, <3>2
          <5>. QED
            BY <5>1 DEF AllReferences
        <4>. QED
          BY <2>3, <4>1, <4>2 DEF StoreInv
      <3>3. CASE k \in next .. N
        <4>1. steps'[k].status # "success"
          BY <1>0, <2>2, <3>3 DEF IsFailed, IsPending
        <4>2. ~AllReferences(k)'
          BY <1>0, <2>2, <3>3 DEF AllReferences, IsFailed
        <4>. QED
          BY <4>1, <4>2
      <3>. QED
        BY <1>0, <3>1, <3>2, <3>3
    <2>. QED
      BY <2>3, <2>4 DEF StoreInv
  <1>6. CASE ProcessorRaises \/ NodeFails
    BY <1>5, <1>6 DEF ProcessorRaises, NodeFails
  <1>7. CASE Report
    BY <1>1, <1>7 DEF Report
  <1>8. CASE RaiseOnCondition \/ Finish \/ ReportError \/ Done \/ UNCHANGED vars
    BY <1>1, <1>8 DEF RaiseOnCondition, Finish, ReportError, Done, vars
  <1>. QED
    BY <1>3, <1>4, <1>6, <1>7, <1>8 DEF Next

-----------------------------------------------------------------------------
(* The theorems.                                                           *)

EngineInv == TypeOK /\ StepsInv /\ ResultsInv /\ StoreInv

LEMMA EngineInvariant == Spec => []EngineInv
  <1>1. Init => EngineInv
    BY InitInv DEF EngineInv
  <1>2. EngineInv /\ [Next]_vars => EngineInv'
    BY TypeStep, StepsStep, ResultsStep, StoreStep DEF EngineInv
  <1>. QED
    BY <1>1, <1>2, PTL DEF Spec

\* The "multi-path or" of the engine, for a workflow of any size and shape: a
\* node that ran ends a live path, a skipped node ends none, although the test
\* sees only the direct predecessors at the time the node is reached.
THEOREM LivePathsRun == Spec => []LivePathsDecide
  <1>1. ASSUME EngineInv, NEW n \in DOMAIN steps, steps[n].status = "skipped"
        PROVE  ~LivePath(n)
    BY <1>1 DEF EngineInv, ResultsInv, LivePath, Open
  <1>2. EngineInv => LivePathsDecide
    BY <1>1 DEF EngineInv, ResultsInv, LivePathsDecide, StatusOf
  <1>. QED
    BY <1>2, EngineInvariant, PTL

\* The k-th step is of the k-th node, pending steps are those behind a failed
\* one, and execute() returns a step for every node: the loop and
\* _finalize_failure write one list, for a workflow of any size.
THEOREM StepsComplete == Spec => []StepsAreComplete
  <1>1. ASSUME EngineInv PROVE StepsAreComplete
    <2>0. N \in Nat /\ next \in 1 .. N + 1 /\ DOMAIN steps = 1 .. Len(steps) /\ Len(steps) \in Nat
      BY <1>1, NAssumption DEF EngineInv, TypeOK
    <2>1. phase \in {"success", "failed", "reported"} => Len(steps) = N
      <3>1. phase \in {"success", "failed", "reported"} => Failed \/ (Unfinished /\ next = N + 1)
        BY <1>1 DEF EngineInv, StepsInv
      <3>2. Failed => Len(steps) = N
        BY DEF Failed
      <3>3. Unfinished /\ next = N + 1 => Len(steps) = N
        BY <2>0 DEF Unfinished
      <3>. QED
        BY <3>1, <3>2, <3>3
    <2>2. CASE Failed
      <3>1. \A j \in 1 .. N : steps[j].status = "failed" <=> j = next
        BY <1>1, <2>0, <2>2 DEF EngineInv, StepsInv, Passed, Failed
      <3>2. \A j \in 1 .. N : steps[j].status = "pending" <=> j > next
        BY <1>1, <2>0, <2>2 DEF EngineInv, StepsInv, Passed, Failed
      <3>3. next \in Nat /\ next <= N /\ Len(steps) = N
        BY <2>0, <2>2 DEF Failed
      <3>4. ASSUME NEW k \in 1 .. N
            PROVE  steps[k].status = "pending" <=> \E j \in 1 .. k - 1 : steps[j].status = "failed"
        BY <2>0, <3>1, <3>2, <3>3
      <3>. QED
        BY <1>1, <2>0, <2>1, <3>3, <3>4 DEF EngineInv, StepsInv, Passed, StepsAreComplete
    <2>3. CASE Unfinished
      <3>1. \A k \in 1 .. Len(steps) : steps[k].status \in {"success", "skipped"}
        BY <1>1, <2>0, <2>3 DEF EngineInv, StepsInv, Passed, Unfinished
      <3>2. ASSUME NEW k \in 1 .. Len(steps)
            PROVE  steps[k].status # "pending" /\ \A j \in 1 .. k - 1 : steps[j].status # "failed"
        BY <2>0, <3>1
      <3>. QED
        BY <1>1, <2>0, <2>1, <3>2 DEF EngineInv, StepsInv, Passed, StepsAreComplete
    <2>. QED
      BY <1>1, <2>2, <2>3 DEF EngineInv, StepsInv, TypeOK
  <1>. QED
    BY <1>1, EngineInvariant, PTL

\* With the shard storage, the report shows a successful step its own output
\* as long as every step before it left a reference there: the position among
\* all steps, by which the report loads, and the position in the storage agree
\* until then.
THEOREM OwnOutput == Spec => []OwnOutputUnlessSkipped
  <1>1. ASSUME EngineInv, phase = "reported", NEW k \in DOMAIN steps,
               steps[k].status = "success", \A j \in 1 .. k - 1 : steps[j].output = "reference"
        PROVE  report.shown[k] = k
    <2>1. DOMAIN steps = 1 .. Len(steps) /\ Len(steps) \in Nat /\ k \in Nat
      BY <1>1 DEF EngineInv, TypeOK
    <2>2. report.shown[k] = ShownOutput(k) /\ steps[k].node = k
      BY <1>1, <2>1 DEF EngineInv, StoreInv, StepsInv, Passed
    <2>3. CASE steps[k].output = "full"
      BY <2>2, <2>3 DEF ShownOutput
    <2>4. CASE steps[k].output = "reference"
      <3>1. AllReferences(k)
        BY <1>1, <2>1, <2>4 DEF AllReferences
      <3>2. k <= Len(store) /\ store[k] = k
        BY <1>1, <3>1 DEF EngineInv, StoreInv
      <3>. QED
        BY <2>2, <2>4, <3>2 DEF ShownOutput
    <2>. QED
      BY <1>1, <2>3, <2>4 DEF EngineInv, StoreInv
  <1>2. EngineInv => OwnOutputUnlessSkipped
    BY <1>1 DEF OwnOutputUnlessSkipped
  <1>. QED
    BY <1>2, EngineInvariant, PTL

=============================================================================
