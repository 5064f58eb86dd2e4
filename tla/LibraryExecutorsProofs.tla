----------------------- MODULE LibraryExecutorsProofs -----------------------
(***************************************************************************)
(* Checkpoints, for workflows of any size and any number of deaths and     *)
(* restarts: what is restored is what had run, a resumed process runs      *)
(* nothing of it again, and a run that was interrupted ends with the nodes *)
(* an uninterrupted one would have run.                                    *)
(***************************************************************************)
EXTENDS LibraryExecutors, SequenceTheorems, TLAPS

Modes == {"down", "running", "saving", "saving_failure", "failed", "finished"}

Saved == [kind : {"saved"}, completed : Seq(Nodes), next : 0 .. N, results : [Nodes -> Results]]

Files == {NoFile, TornFile} \cup Saved

LibTypeOK ==
    /\ wf \in [Pairs -> Labels]
    /\ result \in [Nodes -> Results]
    /\ executor \in {"streaming", "advanced_stream", "advanced_execute", "resumable", "metrics"}
    /\ mode \in Modes
    /\ at \in 1 .. N + 1
    /\ mode \in {"saving", "saving_failure"} => at <= N
    /\ completed \in Seq(Nodes)
    /\ file \in Files
    /\ loaded \in Files
    /\ ranNow \subseteq Nodes
    /\ startedOver \in BOOLEAN

AtWork == mode \in {"running", "saving", "saving_failure"}

\* What has completed has a result and lies before node k, or is it.
DoneUpTo(done, results, k) == \A n \in InSeq(done) : results[n] # NoResult /\ n <= k

\* The process at work, and the file, hold what has completed up to their node.
DoneInv ==
    ~startedOver =>
        /\ AtWork => DoneUpTo(completed, result, at)
        /\ file.kind = "saved" =>
              DoneUpTo(file.completed, file.results, IF file.next = 0 THEN N ELSE file.next)

\* A process that went on has run nothing before the node it began at.
LoadedInv ==
    WentOn =>
        /\ loaded.next # 0
        /\ \A n \in InSeq(loaded.completed) : n <= loaded.next
        /\ \A n \in ranNow : n >= loaded.next
        /\ at >= loaded.next

-----------------------------------------------------------------------------
LEMMA AppendInSeq ==
    ASSUME NEW s \in Seq(Nodes), NEW n \in Nodes
    PROVE  Append(s, n) \in Seq(Nodes) /\ InSeq(Append(s, n)) = InSeq(s) \cup {n}
  <1>1. /\ Append(s, n) \in Seq(Nodes) /\ Len(Append(s, n)) = Len(s) + 1
        /\ \A i \in 1 .. Len(s) : Append(s, n)[i] = s[i]
        /\ Append(s, n)[Len(s) + 1] = n
    BY AppendProperties
  <1>2. Len(s) \in Nat /\ DOMAIN s = 1 .. Len(s) /\ DOMAIN Append(s, n) = 1 .. Len(s) + 1
    BY <1>1
  <1>3. \A i \in DOMAIN Append(s, n) : i \in DOMAIN s \/ i = Len(s) + 1
    BY <1>2
  <1>. QED
    BY <1>1, <1>2, <1>3 DEF InSeq

\* A checkpoint is a file.
LEMMA CheckpointType ==
    ASSUME NEW done \in Seq(Nodes), NEW next \in 0 .. N, NEW results \in [Nodes -> Results]
    PROVE  Checkpoint(done, next, results) \in Saved
  BY DEF Checkpoint, Saved

LEMMA SavedFile ==
    ASSUME NEW f \in Files, f.kind = "saved"
    PROVE  f \in Saved
  BY DEF Files, NoFile, TornFile

LEMMA LibInitType ==
    ASSUME LibInit
    PROVE  LibTypeOK
  <1>1. wf \in [Pairs -> Labels] /\ result \in [Nodes -> Results]
    BY DEF LibInit, Workflows, NoResults, Results
  <1>2. executor \in {"streaming", "advanced_stream", "advanced_execute", "resumable", "metrics"}
    BY ExecutorsAssumption DEF LibInit
  <1>3. at \in 1 .. N + 1 /\ mode = "down" /\ startedOver = FALSE
    BY NAssumption DEF LibInit
  <1>4. completed \in Seq(Nodes) /\ file \in Files /\ loaded \in Files /\ ranNow \subseteq Nodes
    BY DEF LibInit, Files
  <1>. QED
    BY <1>1, <1>2, <1>3, <1>4 DEF LibTypeOK, Modes

LEMMA StartType ==
    ASSUME LibTypeOK, StartFresh \/ StartFromCheckpoint \/ StartFromTornFile
    PROVE  LibTypeOK'
  <1>1. /\ executor' \in {"streaming", "advanced_stream", "advanced_execute", "resumable", "metrics"}
        /\ ranNow' = {} /\ wf' = wf /\ file' = file
    BY ExecutorsAssumption DEF StartFresh, StartFromCheckpoint, StartFromTornFile, Restart
  <1>2. NoResults \in [Nodes -> Results] /\ << >> \in Seq(Nodes) /\ 1 \in 1 .. N + 1
    BY NAssumption DEF NoResults, Results
  <1>3. CASE StartFresh
    BY <1>1, <1>2, <1>3 DEF LibTypeOK, StartFresh, Modes, Files
  <1>4. CASE StartFromCheckpoint
    <2>1. file \in Saved
      BY <1>4, SavedFile DEF StartFromCheckpoint, LibTypeOK
    <2>2. /\ file.completed \in Seq(Nodes) /\ file.results \in [Nodes -> Results]
          /\ file.next \in 0 .. N
      BY <2>1 DEF Saved
    <2>3. at' \in 1 .. N + 1
      BY <1>2, <1>4, <2>2, NAssumption DEF StartFromCheckpoint
    <2>. QED
      BY <1>1, <1>4, <2>2, <2>3 DEF LibTypeOK, StartFromCheckpoint, Modes
  <1>5. CASE StartFromTornFile
    BY <1>1, <1>2, <1>5 DEF LibTypeOK, StartFromTornFile, Modes, Files
  <1>. QED
    BY <1>3, <1>4, <1>5

LEMMA LibTypeStep ==
    ASSUME LibTypeOK, [LibNext]_libVars
    PROVE  LibTypeOK'
  <1>0. N \in Nat /\ (at <= N => at \in Nodes)
    BY NAssumption DEF LibTypeOK, Nodes
  <1>1. CASE UNCHANGED libVars
    BY <1>1 DEF LibTypeOK, libVars, execVars
  <1>2. CASE SkipNode
    BY <1>0, <1>2 DEF LibTypeOK, SkipNode
  <1>3. CASE RunNode
    <2>1. result' \in [Nodes -> Results]
      BY <1>3 DEF RunNode, LibTypeOK, ResultsOf, Results
    <2>2. completed' \in Seq(Nodes) /\ ranNow' \subseteq Nodes
      BY <1>0, <1>3, AppendInSeq DEF RunNode, LibTypeOK
    <2>3. /\ UNCHANGED <<wf, executor, loaded, startedOver>> /\ file' \in Files
          /\ mode' \in {"running", "saving"} /\ at' \in 1 .. N + 1
          /\ mode' = "saving" => at' <= N
      BY <1>0, <1>3 DEF RunNode, LibTypeOK, Files
    <2>. QED
      BY <2>1, <2>2, <2>3 DEF LibTypeOK, Modes
  <1>4. CASE SaveCheckpoint
    <2>1. file' \in Files
      BY <1>0, <1>4, CheckpointType DEF SaveCheckpoint, LibTypeOK, Files
    <2>. QED
      BY <1>0, <1>4, <2>1 DEF LibTypeOK, SaveCheckpoint, Modes
  <1>5. CASE NodeRaises \/ SaveRaises
    <2>1. NodeError /\ at <= N
      BY <1>5 DEF NodeRaises, SaveRaises, LibTypeOK
    <2>2. result' \in [Nodes -> Results]
      BY <2>1 DEF NodeError, LibTypeOK, Results
    <2>3. mode' \in Modes /\ file' \in Files
      BY <2>1 DEF NodeError, LibTypeOK, Modes, Files
    <2>. QED
      BY <2>1, <2>2, <2>3 DEF LibTypeOK, NodeError
  <1>6. CASE SaveOnFailure
    <2>1. at \in 0 .. N
      BY <1>0, <1>6 DEF SaveOnFailure, LibTypeOK
    <2>2. file' \in Files
      BY <1>6, <2>1, CheckpointType DEF SaveOnFailure, LibTypeOK, Files
    <2>. QED
      BY <1>6, <2>2 DEF LibTypeOK, SaveOnFailure, Modes
  <1>7. CASE FinishRun \/ Die
    BY <1>7 DEF LibTypeOK, FinishRun, Die, Modes, Files
  <1>. QED
    BY <1>1, <1>2, <1>3, <1>4, <1>5, <1>6, <1>7, StartType DEF LibNext, LibStep

-----------------------------------------------------------------------------
(* What has completed.                                                     *)

LEMMA DoneStep ==
    ASSUME LibTypeOK, DoneInv, [LibNext]_libVars
    PROVE  DoneInv'
  <1>0. /\ N \in Nat /\ at \in Nat /\ (at <= N => at \in Nodes) /\ completed \in Seq(Nodes)
        /\ result \in [Nodes -> Results] /\ InSeq(completed) \subseteq Nodes
    BY NAssumption DEF LibTypeOK, Nodes, InSeq
  <1>1. CASE UNCHANGED libVars
    BY <1>1 DEF DoneInv, AtWork, DoneUpTo, libVars, execVars
  <1>2. CASE StartFresh
    BY <1>2 DEF StartFresh, DoneInv, AtWork, DoneUpTo, InSeq, Restart, NoFile
  <1>3. CASE StartFromCheckpoint
    <2>1. file' = file /\ completed' = file.completed /\ result' = file.results
      BY <1>3 DEF StartFromCheckpoint, Restart
    <2>2. ASSUME ~startedOver' PROVE ~startedOver /\ file.next # 0 /\ at' = file.next
      <3>1. ~(startedOver \/ (at' = 1 /\ file.next # 1))
        BY <1>3, <2>2 DEF StartFromCheckpoint
      <3>2. at' = IF file.next = 0 \/ executor' = "advanced_execute" THEN 1 ELSE file.next
        BY <1>3 DEF StartFromCheckpoint
      <3>. QED
        BY <3>1, <3>2
    <2>. QED
      BY <1>3, <2>1, <2>2 DEF StartFromCheckpoint, DoneInv, DoneUpTo
  <1>4. CASE StartFromTornFile
    BY <1>4 DEF StartFromTornFile, DoneInv, AtWork, Restart, TornFile
  <1>5. CASE SkipNode
    <2>1. ~startedOver => DoneUpTo(completed, result, at + 1)
      BY <1>0, <1>5 DEF SkipNode, DoneInv, AtWork, DoneUpTo, Nodes
    <2>. QED
      BY <1>5, <2>1 DEF SkipNode, DoneInv, AtWork, DoneUpTo
  <1>6. CASE RunNode
    <2>1. InSeq(completed') = InSeq(completed) \cup {at}
      BY <1>0, <1>6, AppendInSeq DEF RunNode
    <2>2. result'[at] # NoResult /\ \A n \in Nodes \ {at} : result'[n] = result[n]
      BY <1>0, <1>6 DEF RunNode, ResultsOf, NoResult, Branches
    <2>3. ~startedOver => DoneUpTo(completed', result', at)
      BY <1>0, <1>6, <2>1, <2>2 DEF RunNode, DoneInv, AtWork, DoneUpTo
    <2>4. ~startedOver => DoneUpTo(completed', result', at + 1)
      <3>1. InSeq(completed') \subseteq Nat
        BY <1>0, <1>6, <2>1 DEF RunNode, Nodes
      <3>. QED
        BY <1>0, <2>3, <3>1 DEF DoneUpTo
    <2>5. CASE executor \in Checkpointing
      BY <1>6, <2>3, <2>5 DEF RunNode, DoneInv, DoneUpTo, TornFile
    <2>6. CASE executor \notin Checkpointing
      BY <1>6, <2>4, <2>6 DEF RunNode, DoneInv, DoneUpTo
    <2>. QED
      BY <2>5, <2>6
  <1>7. CASE SaveCheckpoint
    <2>1. ~startedOver => DoneUpTo(completed, result, at) /\ DoneUpTo(completed, result, at + 1)
      BY <1>0, <1>7 DEF SaveCheckpoint, DoneInv, AtWork, DoneUpTo, Nodes
    <2>2. at' = at + 1 /\ UNCHANGED <<completed, result, startedOver>>
      BY <1>7 DEF SaveCheckpoint
    <2>3. /\ file'.completed = completed /\ file'.results = result
          /\ IF at = N THEN file'.next = 0 ELSE file'.next = at + 1
      BY <1>7 DEF SaveCheckpoint, Checkpoint
    <2>. QED
      BY <1>0, <2>1, <2>2, <2>3 DEF DoneInv, DoneUpTo
  <1>8. CASE NodeRaises \/ SaveRaises
    <2>1. NodeError /\ AtWork
      BY <1>8 DEF NodeRaises, SaveRaises, AtWork
    <2>2. \A n \in Nodes : result[n] # NoResult => result'[n] # NoResult
      BY <1>0, <2>1 DEF NodeError, NoResult
    <2>3. ~startedOver => DoneUpTo(completed, result', at)
      BY <1>0, <2>1, <2>2 DEF DoneInv, DoneUpTo
    <2>4. UNCHANGED <<at, completed, startedOver>> /\ (file' = file \/ file' = TornFile)
      BY <2>1 DEF NodeError
    <2>. QED
      BY <2>3, <2>4 DEF DoneInv, DoneUpTo, TornFile
  <1>9. CASE SaveOnFailure
    <2>1. UNCHANGED <<completed, result, at, startedOver>> /\ ~AtWork'
      BY <1>9 DEF SaveOnFailure, AtWork
    <2>2. CASE file' = file
      BY <2>1, <2>2 DEF DoneInv, DoneUpTo
    <2>3. CASE file' = Checkpoint(completed, at, result)
      <3>1. file'.completed = completed /\ file'.results = result /\ file'.next = at /\ at # 0
        BY <2>3 DEF Checkpoint, LibTypeOK
      <3>. QED
        BY <1>9, <2>1, <3>1 DEF SaveOnFailure, DoneInv, DoneUpTo, AtWork
    <2>. QED
      BY <1>9, <2>2, <2>3 DEF SaveOnFailure
  <1>10. CASE FinishRun \/ Die
    BY <1>10 DEF FinishRun, Die, DoneInv, DoneUpTo, AtWork, NoFile
  <1>. QED
    BY <1>1, <1>2, <1>3, <1>4, <1>5, <1>6, <1>7, <1>8, <1>9, <1>10 DEF LibNext, LibStep

LEMMA LoadedStep ==
    ASSUME LibTypeOK, DoneInv, LoadedInv, [LibNext]_libVars
    PROVE  LoadedInv'
  <1>0. N \in Nat /\ at \in Nat /\ file \in Files /\ loaded \in Files
    BY NAssumption DEF LibTypeOK
  <1>1. CASE StartFresh \/ StartFromTornFile
    BY <1>1 DEF StartFresh, StartFromTornFile, LoadedInv, WentOn, NoFile
  <1>2. CASE StartFromCheckpoint
    <2>1. file \in Saved
      BY <1>0, <1>2, SavedFile DEF StartFromCheckpoint
    <2>2. loaded' = file /\ ranNow' = {}
      BY <1>2 DEF StartFromCheckpoint, Restart
    <2>3. ASSUME ~startedOver' PROVE ~startedOver /\ file.next # 0 /\ at' = file.next
      <3>1. ~(startedOver \/ (at' = 1 /\ file.next # 1))
        BY <1>2, <2>3 DEF StartFromCheckpoint
      <3>2. at' = IF file.next = 0 \/ executor' = "advanced_execute" THEN 1 ELSE file.next
        BY <1>2 DEF StartFromCheckpoint
      <3>. QED
        BY <3>1, <3>2
    <2>4. ASSUME ~startedOver' PROVE \A n \in InSeq(file.completed) : n <= file.next
      BY <1>2, <2>3, <2>4 DEF StartFromCheckpoint, DoneInv, DoneUpTo
    <2>5. file.next \in Nat
      BY <2>1 DEF Saved
    <2>. QED
      BY <2>2, <2>3, <2>4, <2>5 DEF LoadedInv, WentOn
  <1>3. ASSUME UNCHANGED <<loaded, startedOver>>, at' \in {at, at + 1},
               ranNow' = ranNow \/ ranNow' = ranNow \cup {at}
        PROVE  LoadedInv'
    <2>1. WentOn => loaded.next \in Nat
      <3>1. WentOn => loaded \in Saved
        BY <1>0, SavedFile DEF WentOn
      <3>. QED
        BY <3>1 DEF Saved
    <2>2. WentOn' <=> WentOn
      BY <1>3 DEF WentOn
    <2>. QED
      BY <1>0, <1>3, <2>1, <2>2 DEF LoadedInv
  <1>4. CASE SkipNode \/ RunNode \/ SaveCheckpoint \/ SaveOnFailure \/ FinishRun \/ Die
               \/ UNCHANGED libVars
    <2>1. /\ UNCHANGED <<loaded, startedOver>> /\ at' \in {at, at + 1}
          /\ ranNow' = ranNow \/ ranNow' = ranNow \cup {at}
      BY <1>4 DEF SkipNode, RunNode, SaveCheckpoint, SaveOnFailure, FinishRun, Die, libVars, execVars
    <2>. QED
      BY <1>3, <2>1
  <1>5. CASE NodeRaises \/ SaveRaises
    BY <1>3, <1>5 DEF NodeRaises, SaveRaises, NodeError
  <1>. QED
    BY <1>1, <1>2, <1>4, <1>5 DEF LibNext, LibStep

-----------------------------------------------------------------------------
(* Crash, restart and branches: the walk, of any workflow and results.     *)

\* The test before a node, of any results: those in memory or in the file.
ValueIn(r, p) == IF r[p] \in Branches THEN r[p] ELSE "false"

ActiveIn(w, r, p, n) == IF w[p, n] = "plain" THEN r[p] # NoResult ELSE ValueIn(r, p) = w[p, n]

RunsIn(w, r, n) == Preds(w, n) = {} \/ \E p \in Preds(w, n) : ActiveIn(w, r, p, n)

Outcomes(w, n) == IF IsCondition(w, n) THEN Branches ELSE {"value"}

\* r is what a walk leaves that has come to node k, which may have run already.
WalkedTo(w, r, k) ==
    /\ r \in [Nodes -> Results]
    /\ \A n \in Nodes : n < k =>
          /\ r[n] # NoResult <=> RunsIn(w, r, n)
          /\ r[n] # NoResult => r[n] \in Outcomes(w, n)
    /\ \A n \in Nodes : n >= k /\ r[n] # NoResult => n = k /\ RunsIn(w, r, n)

\* The same before node k has run.
WalkedPast(w, r, k) == WalkedTo(w, r, k) /\ \A n \in Nodes : n >= k => r[n] = NoResult

\* The test looks at earlier nodes only.
LEMMA RunsInStays ==
    ASSUME NEW w, NEW r, NEW s, NEW k \in Nodes, \A p \in Nodes : p < k => s[p] = r[p],
           NEW n \in Nodes, n <= k
    PROVE  RunsIn(w, s, n) <=> RunsIn(w, r, n)
  <1>1. ASSUME NEW p \in Preds(w, n) PROVE ActiveIn(w, s, p, n) <=> ActiveIn(w, r, p, n)
    <2>1. p \in Nodes /\ p < n
      BY DEF Preds
    <2>2. p \in Nat /\ n \in Nat /\ k \in Nat
      BY <2>1, NAssumption DEF Nodes
    <2>3. p < k
      BY <2>1, <2>2
    <2>4. s[p] = r[p]
      BY <2>1, <2>3
    <2>. QED
      BY <2>4 DEF ActiveIn, ValueIn
  <1>. QED
    BY <1>1 DEF RunsIn

LEMMA WalkFromStart ==
    ASSUME NEW w
    PROVE  WalkedTo(w, NoResults, 1)
  BY NAssumption DEF WalkedTo, NoResults, Results, Nodes

LEMMA WalkOverSkipped ==
    ASSUME NEW w, NEW r, NEW k \in Nodes, WalkedTo(w, r, k), ~RunsIn(w, r, k)
    PROVE  WalkedTo(w, r, k + 1)
  BY NAssumption DEF WalkedTo, Nodes

LEMMA WalkOverRun ==
    ASSUME NEW w, NEW r, NEW s, NEW k \in Nodes, NEW v \in Outcomes(w, k),
           s = [r EXCEPT ![k] = v], WalkedTo(w, r, k), RunsIn(w, r, k)
    PROVE  WalkedPast(w, s, k + 1)
  <1>1. /\ Nodes \subseteq Nat /\ r \in [Nodes -> Results]
        /\ v # NoResult /\ v \in Results
    BY NAssumption DEF WalkedTo, Nodes, Outcomes, NoResult, Results, Branches
  <1>2. s \in [Nodes -> Results] /\ s[k] = v /\ \A n \in Nodes : n # k => s[n] = r[n]
    BY <1>1
  <1>3. \A n \in Nodes : n < k => s[n] = r[n]
    BY <1>1, <1>2
  <1>4. \A n \in Nodes : n <= k => (RunsIn(w, s, n) <=> RunsIn(w, r, n))
    BY <1>3, RunsInStays
  <1>5. ASSUME NEW n \in Nodes, n < k + 1
        PROVE  /\ s[n] # NoResult <=> RunsIn(w, s, n)
               /\ s[n] # NoResult => s[n] \in Outcomes(w, n)
    <2>0. n \in Nat /\ k \in Nat /\ n <= k
      BY <1>1, <1>5
    <2>1. RunsIn(w, s, n) <=> RunsIn(w, r, n)
      BY <1>4, <2>0
    <2>2. CASE n = k
      BY <1>1, <1>2, <2>1, <2>2
    <2>3. CASE n # k
      <3>1. n < k /\ s[n] = r[n]
        BY <1>1, <1>2, <1>5, <2>3
      <3>2. /\ r[n] # NoResult <=> RunsIn(w, r, n)
            /\ r[n] # NoResult => r[n] \in Outcomes(w, n)
        BY <3>1 DEF WalkedTo
      <3>. QED
        BY <2>1, <3>1, <3>2
    <2>. QED
      BY <2>2, <2>3
  <1>6. ASSUME NEW n \in Nodes, n >= k + 1 PROVE s[n] = NoResult
    <2>1. n # k /\ n >= k
      BY <1>1, <1>6
    <2>. QED
      BY <1>2, <2>1 DEF WalkedTo
  <1>. QED
    BY <1>2, <1>5, <1>6 DEF WalkedTo, WalkedPast

\* A node that raised is the next one again.
LEMMA WalkBackToFailed ==
    ASSUME NEW w, NEW r, NEW s, NEW k \in Nodes, RunsIn(w, r, k),
           WalkedTo(w, r, k) \/ WalkedPast(w, r, k + 1),
           s = r \/ s = [r EXCEPT ![k] = "error"]
    PROVE  WalkedTo(w, s, k)
  <1>1. Nodes \subseteq Nat /\ r \in [Nodes -> Results]
    BY NAssumption DEF WalkedTo, WalkedPast, Nodes
  <1>2. s \in [Nodes -> Results] /\ \A n \in Nodes : n # k => s[n] = r[n]
    BY <1>1 DEF Results
  <1>3. \A n \in Nodes : n < k => s[n] = r[n]
    BY <1>1, <1>2
  <1>4. \A n \in Nodes : n <= k => (RunsIn(w, s, n) <=> RunsIn(w, r, n))
    BY <1>3, RunsInStays
  <1>5. ASSUME NEW n \in Nodes, n < k
        PROVE  /\ r[n] # NoResult <=> RunsIn(w, r, n)
               /\ r[n] # NoResult => r[n] \in Outcomes(w, n)
    BY <1>1, <1>5 DEF WalkedTo, WalkedPast
  <1>6. ASSUME NEW n \in Nodes, n >= k, s[n] # NoResult PROVE n = k
    <2>1. n # k => n >= k + 1 /\ s[n] = r[n]
      BY <1>1, <1>2, <1>6
    <2>. QED
      BY <1>6, <2>1 DEF WalkedTo, WalkedPast
  <1>7. ASSUME NEW n \in Nodes, n < k
        PROVE  /\ s[n] # NoResult <=> RunsIn(w, s, n)
               /\ s[n] # NoResult => s[n] \in Outcomes(w, n)
    <2>1. s[n] = r[n] /\ (RunsIn(w, s, n) <=> RunsIn(w, r, n))
      BY <1>1, <1>3, <1>4, <1>7
    <2>. QED
      BY <1>5, <1>7, <2>1
  <1>8. RunsIn(w, s, k)
    BY <1>1, <1>4
  <1>. QED
    BY <1>2, <1>6, <1>7, <1>8 DEF WalkedTo

\* A run of the executors that look for an active path, and its file.
Branching == executor \in {"streaming", "advanced_stream", "advanced_execute"}

WalkInv ==
    Branching /\ ~startedOver =>
        /\ mode = "running" => WalkedTo(wf, result, at)
        /\ mode = "saving" => RunsIn(wf, result, at) /\ WalkedPast(wf, result, at + 1)
        /\ mode = "saving_failure" => WalkedTo(wf, result, at)
        /\ mode = "finished" => WalkedTo(wf, result, N + 1)
        /\ file.kind = "saved" /\ file.next # 0 => WalkedTo(wf, file.results, file.next)

LEMMA TestIsRunsIn ==
    ASSUME Branching, NEW n
    PROVE  ~ShouldSkip(n) <=> RunsIn(wf, result, n)
  <1>1. \A p : ActiveEdge(p, n) <=> ActiveIn(wf, result, p, n)
    BY DEF ActiveEdge, ActiveIn, BranchValue, ValueIn
  <1>2. executor \notin {"resumable", "metrics"}
    BY DEF Branching
  <1>. QED
    BY <1>1, <1>2 DEF ShouldSkip, RunsIn

LEMMA WalkStep ==
    ASSUME LibTypeOK, WalkInv, [LibNext]_libVars
    PROVE  WalkInv'
  <1>0. /\ N \in Nat /\ at \in Nat /\ (at <= N => at \in Nodes) /\ (mode = "saving" => at <= N)
        /\ result \in [Nodes -> Results]
    BY NAssumption DEF LibTypeOK, Nodes
  <1>1. CASE UNCHANGED libVars
    BY <1>1 DEF WalkInv, Branching, libVars, execVars
  <1>2. CASE StartFresh
    BY <1>2, WalkFromStart DEF StartFresh, WalkInv, Branching, Restart, NoFile
  <1>3. CASE StartFromCheckpoint
    <2>1. file' = file /\ result' = file.results /\ wf' = wf /\ mode' = "running"
      BY <1>3 DEF StartFromCheckpoint, Restart
    <2>2. Branching' => Branching
      BY <1>3 DEF StartFromCheckpoint, Restart, Branching
    <2>3. ASSUME ~startedOver' PROVE ~startedOver /\ file.next # 0 /\ at' = file.next
      <3>1. ~(startedOver \/ (at' = 1 /\ file.next # 1))
        BY <1>3, <2>3 DEF StartFromCheckpoint
      <3>2. at' = IF file.next = 0 \/ executor' = "advanced_execute" THEN 1 ELSE file.next
        BY <1>3 DEF StartFromCheckpoint
      <3>. QED
        BY <3>1, <3>2
    <2>. QED
      BY <1>3, <2>1, <2>2, <2>3 DEF StartFromCheckpoint, WalkInv
  <1>4. CASE StartFromTornFile
    BY <1>4 DEF StartFromTornFile, WalkInv, Restart, TornFile
  <1>5. CASE SkipNode
    <2>1. ASSUME Branching, ~startedOver PROVE WalkedTo(wf, result, at + 1)
      BY <1>0, <1>5, <2>1, TestIsRunsIn, WalkOverSkipped DEF SkipNode, WalkInv
    <2>. QED
      BY <1>5, <2>1 DEF SkipNode, WalkInv, Branching
  <1>6. CASE RunNode
    <2>1. PICK r \in ResultsOf(at) : result' = [result EXCEPT ![at] = r]
      BY <1>6 DEF RunNode
    <2>2. r \in Outcomes(wf, at) /\ at \in Nodes
      BY <1>0, <1>6, <2>1 DEF RunNode, ResultsOf, Outcomes
    <2>3. ASSUME Branching, ~startedOver
          PROVE  RunsIn(wf, result', at) /\ WalkedPast(wf, result', at + 1)
      <3>1. RunsIn(wf, result, at) /\ WalkedTo(wf, result, at)
        BY <1>6, <2>3, TestIsRunsIn DEF RunNode, WalkInv
      <3>2. WalkedPast(wf, result', at + 1)
        BY <2>1, <2>2, <3>1, WalkOverRun
      <3>3. \A p \in Nodes : p < at => result'[p] = result[p]
        BY <1>0, <2>1
      <3>4. RunsIn(wf, result', at) <=> RunsIn(wf, result, at)
        BY <1>0, <2>2, <3>3, RunsInStays
      <3>. QED
        BY <3>1, <3>2, <3>4
    <2>4. UNCHANGED <<wf, executor, startedOver>>
      BY <1>6 DEF RunNode
    <2>5. CASE executor \in Checkpointing
      BY <1>6, <2>3, <2>4, <2>5 DEF RunNode, WalkInv, Branching, TornFile
    <2>6. CASE executor \notin Checkpointing
      BY <1>6, <2>3, <2>4, <2>6 DEF RunNode, WalkInv, Branching, WalkedPast
    <2>. QED
      BY <2>5, <2>6
  <1>7. CASE SaveCheckpoint
    <2>1. ASSUME Branching, ~startedOver PROVE WalkedTo(wf, result, at + 1)
      BY <1>7, <2>1 DEF SaveCheckpoint, WalkInv, WalkedPast
    <2>2. /\ file'.results = result
          /\ file'.next # 0 => file'.next = at + 1
      BY <1>7 DEF SaveCheckpoint, Checkpoint
    <2>. QED
      BY <1>7, <2>1, <2>2 DEF SaveCheckpoint, WalkInv, Branching
  <1>8. CASE NodeRaises \/ SaveRaises
    <2>1. /\ NodeError /\ at \in Nodes
          /\ UNCHANGED <<wf, executor, at, startedOver>>
          /\ mode' \in {"failed", "saving_failure"}
          /\ file' = file \/ file' = TornFile
          /\ result' = result \/ result' = [result EXCEPT ![at] = "error"]
      BY <1>0, <1>8 DEF NodeRaises, SaveRaises, NodeError
    <2>2. ASSUME Branching, ~startedOver
          PROVE  RunsIn(wf, result, at) /\ (WalkedTo(wf, result, at) \/ WalkedPast(wf, result, at + 1))
      BY <1>8, <2>2, TestIsRunsIn DEF NodeRaises, SaveRaises, WalkInv
    <2>3. ASSUME Branching, ~startedOver PROVE WalkedTo(wf, result', at)
      BY <2>1, <2>2, <2>3, WalkBackToFailed
    <2>. QED
      BY <2>1, <2>3 DEF WalkInv, Branching, TornFile
  <1>9. CASE SaveOnFailure
    <2>1. UNCHANGED <<wf, result, executor, at, startedOver>> /\ mode' = "failed"
      BY <1>9 DEF SaveOnFailure
    <2>2. CASE file' = file
      BY <2>1, <2>2 DEF WalkInv, Branching
    <2>3. CASE file' = Checkpoint(completed, at, result)
      <3>1. file'.results = result /\ file'.next = at
        BY <2>3 DEF Checkpoint
      <3>. QED
        BY <1>9, <2>1, <3>1 DEF SaveOnFailure, WalkInv, Branching
    <2>. QED
      BY <1>9, <2>2, <2>3 DEF SaveOnFailure
  <1>10. CASE FinishRun
    BY <1>10 DEF FinishRun, WalkInv, Branching, NoFile
  <1>11. CASE Die
    BY <1>11 DEF Die, WalkInv, Branching
  <1>. QED
    BY <1>1, <1>2, <1>3, <1>4, <1>5, <1>6, <1>7, <1>8, <1>9, <1>10, <1>11 DEF LibNext, LibStep

-----------------------------------------------------------------------------
LibInv == LibTypeOK /\ DoneInv /\ LoadedInv /\ WalkInv

LEMMA LibInvariant == LibSpec => []LibInv
  <1>1. LibInit => LibInv
    <2>1. LibInit => mode = "down" /\ file = NoFile /\ loaded = NoFile
      BY DEF LibInit
    <2>2. mode = "down" /\ file = NoFile /\ loaded = NoFile => DoneInv /\ LoadedInv /\ WalkInv
      BY DEF DoneInv, LoadedInv, WalkInv, AtWork, WentOn, NoFile
    <2>. QED
      BY <2>1, <2>2, LibInitType DEF LibInv
  <1>2. LibInv /\ [LibNext]_libVars => LibInv'
    BY LibTypeStep, DoneStep, LoadedStep, WalkStep DEF LibInv
  <1>. QED
    BY <1>1, <1>2, PTL DEF LibSpec

\* What a checkpoint holds is what had run before its next node, with its
\* results, after any number of deaths, failures and restarts (checkpoint.py).
THEOREM CheckpointHoldsWhatRan == LibSpec => []CheckpointIsConsistent
  <1>1. LibInv => CheckpointIsConsistent
    BY DEF LibInv, DoneInv, DoneUpTo, CheckpointIsConsistent
  <1>. QED
    BY <1>1, LibInvariant, PTL

\* A process that goes on at a checkpoint runs nothing of it again but the
\* node the checkpoint names next.
THEOREM ResumeSkipsCompleted == LibSpec => []ResumeRunsNoCompletedNode
  <1>1. ASSUME LibInv, WentOn, NEW n \in ranNow \cap InSeq(loaded.completed)
        PROVE  n = loaded.next
    <2>1. n \in Nat /\ n >= loaded.next /\ n <= loaded.next
      BY <1>1, NAssumption DEF LibInv, LibTypeOK, LoadedInv, Nodes
    <2>2. loaded \in Saved
      BY <1>1, SavedFile DEF LibInv, LibTypeOK, WentOn
    <2>3. loaded.next \in Nat
      BY <2>2, NAssumption DEF Saved
    <2>. QED
      BY <2>1, <2>3
  <1>2. LibInv => ResumeRunsNoCompletedNode
    BY <1>1 DEF ResumeRunsNoCompletedNode
  <1>. QED
    BY <1>2, LibInvariant, PTL

\* However often it was interrupted and went on, a run of the streaming or the
\* advanced executor ends with the nodes of the live paths, if every condition
\* has run: checkpoints and branches do not disturb each other.
THEOREM ResumedRunsLivePaths == LibSpec => []FinishedRunsLivePaths
  <1>1. ASSUME WalkedTo(wf, result, N + 1), wf \in [Pairs -> Labels], NEW n \in Nodes,
               \A p \in Nodes : IsCondition(wf, p) => result[p] # NoResult
        PROVE  result[n] # NoResult <=> LivePath(n)
    <2>0. N \in Nat /\ Nodes = 1 .. N
      BY NAssumption DEF Nodes
    <2>1. \A m \in Nodes : /\ result[m] # NoResult <=> RunsIn(wf, result, m)
                           /\ result[m] # NoResult => result[m] \in Outcomes(wf, m)
      BY <1>1, <2>0 DEF WalkedTo
    <2>2. ASSUME NEW m \in Nodes, NEW p \in Preds(wf, m)
          PROVE  /\ p \in Nodes /\ p < m
                 /\ ActiveIn(wf, result, p, m) => OpenEdge(p, m) /\ result[p] # NoResult
                 /\ OpenEdge(p, m) => ActiveIn(wf, result, p, m)
      <3>1. p \in Nodes /\ p < m /\ wf[p, m] # "absent"
        BY <2>2 DEF Preds
      <3>0. <<p, m>> \in Pairs
        BY <3>1 DEF Pairs
      <3>2. wf[p, m] \in Branches => IsCondition(wf, p)
        BY <3>1 DEF IsCondition, Succs
      <3>3. wf[p, m] \in Branches => result[p] \in Branches
        BY <1>1, <2>1, <3>1, <3>2 DEF Outcomes
      <3>4. ActiveIn(wf, result, p, m) /\ wf[p, m] # "plain" => wf[p, m] \in Branches
        BY DEF ActiveIn, ValueIn, Branches
      <3>5. \A b \in Branches : b # NoResult
        BY DEF Branches, NoResult
      <3>6. wf[p, m] = "plain" \/ wf[p, m] \in Branches
        BY <1>1, <3>0, <3>1 DEF Labels
      <3>. QED
        BY <3>1, <3>3, <3>4, <3>5, <3>6 DEF ActiveIn, ValueIn, OpenEdge
    <2>3. ASSUME result[n] # NoResult PROVE LivePath(n)
      <3>1. DEFINE S == {m \in 1 .. n : result[m] # NoResult}
      <3>2. S \in SUBSET (1 .. n) /\ n \in S /\ S \subseteq Nodes
        BY <2>0, <2>3
      <3>3. ASSUME NEW m \in S, Preds(wf, m) # {}
            PROVE  \E p \in S \cap Preds(wf, m) : OpenEdge(p, m)
        <4>1. m \in Nodes /\ m <= n /\ RunsIn(wf, result, m)
          BY <2>0, <2>1, <3>2, <3>3
        <4>2. PICK p \in Preds(wf, m) : ActiveIn(wf, result, p, m)
          BY <3>3, <4>1 DEF RunsIn
        <4>3. p \in Nodes /\ p < m /\ OpenEdge(p, m) /\ result[p] # NoResult
          BY <2>2, <4>1, <4>2
        <4>4. p \in S
          BY <2>0, <4>1, <4>3
        <4>. QED
          BY <4>3, <4>4
      <3>. QED
        BY <3>2, <3>3 DEF LivePath
    <2>4. ASSUME LivePath(n) PROVE result[n] # NoResult
      <3>1. CASE Preds(wf, n) = {}
        BY <2>1, <3>1 DEF RunsIn
      <3>2. CASE \E p \in Preds(wf, n) : OpenEdge(p, n)
        BY <2>1, <2>2, <3>2 DEF RunsIn
      <3>. QED
        BY <2>4, <3>1, <3>2 DEF LivePath
    <2>. QED
      BY <2>3, <2>4
  <1>2. LibInv => FinishedRunsLivePaths
    BY <1>1 DEF LibInv, LibTypeOK, WalkInv, Branching, FinishedRunsLivePaths
  <1>. QED
    BY <1>2, LibInvariant, PTL

=============================================================================
