------------------------ MODULE BatchDispatchProofs ------------------------
(***************************************************************************)
(* A batch at the master, for batches of any length and any size of the    *)
(* parts they are sent in, whatever is cancelled, retried or fails: no     *)
(* task is sent more often than its row accounts for, and no row stays     *)
(* pending with nothing on its way.                                        *)
(***************************************************************************)
EXTENDS BatchDispatch, FiniteSetTheorems, TLAPS

\* The tasks the background task has still to send.
ToSend ==
    IF dispatch.at \in {"save", "seed"} THEN dispatch.from .. Total
    ELSE IF dispatch.at = "send" THEN dispatch.task .. Total
    ELSE IF dispatch.at \in {"done", "raised"} THEN {}
    ELSE (LastOfBatch + 1) .. Total

\* The tasks a retry has still to send.
ToResend == IF call.at = "send" THEN call.todo ELSE {}

\* The tasks a retry will send although it could not update their rows.
Forgone ==
    IF call.op # "cancel" /\ call.at \in {"loop", "commit"} THEN call.unwritten ELSE {}

One(S, t) == IF t \in S THEN 1 ELSE 0

DispatchTypeOK ==
    /\ dispatch \in [at : {"save", "seed", "send", "sent", "markHash", "abort", "abortHash",
                           "done", "raised"},
                     from : 1 .. Total, task : Nat, failed : SUBSET Nat]

CallTypeOK ==
    call \in [at : {"idle", "loop", "commit", "send", "sent", "markHash"},
             op : {"none", "cancel", "retry"},
             todo : SUBSET Tasks, chosen : SUBSET Tasks, failed : SUBSET Tasks,
             unwritten : SUBSET Tasks]

CountTypeOK ==
    sent \in [Tasks -> Nat] /\ dbRetry \in [Tasks -> Nat] /\ lost \in [Tasks -> Nat]

\* Every send that was made or is still to come is accounted for: the first
\* by the row itself, each later one by a counted retry or by one whose update
\* of the row was lost.
Counted(t) ==
    sent[t] + One(ToSend, t) + One(ToResend, t) + One(Forgone, t) <= 1 + dbRetry[t] + lost[t]

BatchInv ==
    /\ DispatchTypeOK /\ CallTypeOK /\ CountTypeOK
    /\ \A t \in Tasks : Counted(t)

-----------------------------------------------------------------------------
LEMMA TotalIsNat == Total \in Nat \ {0} /\ Tasks = 1 .. Total /\ BatchSize \in Nat \ {0}
  <1>1. IsFiniteSet(Tasks) /\ Tasks # {} /\ Tasks = 1 .. Cardinality(Tasks)
        /\ BatchSize \in Nat \ {0}
    BY BatchAssumption
  <1>2. Cardinality(Tasks) \in Nat
    BY <1>1, FS_CardinalityType
  <1>3. Cardinality(Tasks) # 0
    BY <1>1, <1>2
  <1>. QED
    BY <1>1, <1>2, <1>3 DEF Total

\* A part of the batch begins where it begins and ends with the batch.
LEMMA LastIsInBatch ==
    ASSUME DispatchTypeOK
    PROVE  LastOfBatch \in dispatch.from .. Total
  <1>1. dispatch.from \in 1 .. Total /\ Total \in Nat /\ BatchSize \in Nat \ {0}
    BY TotalIsNat DEF DispatchTypeOK
  <1>2. DEFINE S == {dispatch.from + BatchSize - 1, Total}
  <1>3. \E x \in S : \A y \in S : x <= y
    <2>1. CASE dispatch.from + BatchSize - 1 <= Total
      BY <1>1, <2>1
    <2>2. CASE ~(dispatch.from + BatchSize - 1 <= Total)
      BY <1>1, <2>2
    <2>. QED
      BY <2>1, <2>2
  <1>4. Min(S) \in S /\ \A y \in S : Min(S) <= y
    BY <1>3 DEF Min
  <1>5. LastOfBatch = Min(S)
    BY DEF LastOfBatch
  <1>. HIDE DEF S
  <1>6. Min(S) = dispatch.from + BatchSize - 1 \/ Min(S) = Total
    BY <1>4 DEF S
  <1>7. Min(S) <= Total
    BY <1>4 DEF S
  <1>. QED
    BY <1>1, <1>5, <1>6, <1>7

LEMMA OneMore ==
    ASSUME NEW S, NEW f \in [S -> Nat], NEW x
    PROVE  [f EXCEPT ![x] = @ + 1] \in [S -> Nat]
  <1>1. CASE x \in S
    BY <1>1
  <1>2. CASE x \notin S
    BY <1>2
  <1>. QED
    BY <1>1, <1>2

LEMMA BatchInitInv ==
    ASSUME BatchInit
    PROVE  BatchInv
  <1>1. DispatchTypeOK
    BY TotalIsNat DEF BatchInit, DispatchAt, DispatchTypeOK
  <1>2. CallTypeOK /\ CountTypeOK
    BY DEF BatchInit, StoresInit, NoCall, CallTypeOK, CountTypeOK
  <1>3. \A t \in Tasks : /\ sent[t] = 0 /\ dbRetry[t] = 0 /\ lost[t] = 0
                         /\ One(ToResend, t) = 0 /\ One(Forgone, t) = 0
    BY DEF BatchInit, StoresInit, NoCall, ToResend, Forgone, One
  <1>4. \A t \in Tasks : One(ToSend, t) \in {0, 1}
    BY DEF One
  <1>. QED
    BY <1>1, <1>2, <1>3, <1>4 DEF BatchInv, Counted

\* What is not sent and not put back among what is to send leaves the count.
LEMMA CountedStays ==
    ASSUME CountTypeOK, NEW t \in Tasks, Counted(t),
           sent'[t] = sent[t], dbRetry'[t] = dbRetry[t], lost'[t] = lost[t],
           t \in ToSend' => t \in ToSend, t \in ToResend' => t \in ToResend,
           t \in Forgone' => t \in Forgone
    PROVE  Counted(t)'
  BY DEF CountTypeOK, Counted, One

\* Behind a part of the batch, its tasks are no longer to send.
LEMMA NextBatchKeeps ==
    ASSUME DispatchTypeOK, NextBatch, dispatch.at \notin {"done", "raised", "send"}
    PROVE  DispatchTypeOK' /\ ToSend' \subseteq ToSend
  <1>1. LastOfBatch \in dispatch.from .. Total /\ dispatch.from \in 1 .. Total /\ Total \in Nat \ {0}
    BY LastIsInBatch, TotalIsNat DEF DispatchTypeOK
  <1>2. Total' = Total
    BY DEF Total
  <1>3. CASE LastOfBatch = Total
    <2>1. dispatch' = [at |-> "done", from |-> 1, task |-> 1, failed |-> {}]
      BY <1>3 DEF NextBatch, DispatchAt
    <2>. QED
      BY <1>1, <1>2, <2>1 DEF DispatchTypeOK, ToSend
  <1>4. CASE LastOfBatch # Total
    <2>1. dispatch' = [at |-> "save", from |-> LastOfBatch + 1, task |-> LastOfBatch + 1,
                       failed |-> {}]
      BY <1>4 DEF NextBatch, DispatchAt
    <2>2. LastOfBatch + 1 \in 1 .. Total /\ LastOfBatch + 1 \in Nat
      BY <1>1, <1>4
    <2>3. ToSend' = (LastOfBatch + 1) .. Total
      BY <1>2, <2>1 DEF ToSend
    <2>4. (LastOfBatch + 1) .. Total \subseteq ToSend
      BY <1>1, <1>4 DEF ToSend, DispatchTypeOK
    <2>. QED
      BY <1>2, <2>1, <2>2, <2>3, <2>4 DEF DispatchTypeOK
  <1>. QED
    BY <1>3, <1>4

LEMMA BatchStepInv ==
    ASSUME BatchInv, [BatchNext]_batchVars
    PROVE  BatchInv'
  <1>0. /\ DispatchTypeOK /\ CallTypeOK /\ CountTypeOK
        /\ dispatch.from \in 1 .. Total /\ dispatch.task \in Nat
        /\ LastOfBatch \in dispatch.from .. Total /\ Total \in Nat \ {0}
        /\ Total' = Total /\ Tasks = 1 .. Total
    BY LastIsInBatch, TotalIsNat DEF BatchInv, DispatchTypeOK, Total
  \* The counts stay, and nothing is put back.
  <1>1. ASSUME UNCHANGED <<sent, dbRetry, lost>>, DispatchTypeOK', CallTypeOK',
               ToSend' \subseteq ToSend, ToResend' \subseteq ToResend, Forgone' \subseteq Forgone
        PROVE  BatchInv'
    BY <1>0, <1>1, CountedStays DEF BatchInv, CountTypeOK
  <1>2. ASSUME UNCHANGED dispatch PROVE DispatchTypeOK' /\ ToSend' = ToSend
    BY <1>0, <1>2 DEF DispatchTypeOK, ToSend, LastOfBatch
  <1>3. ASSUME UNCHANGED call PROVE CallTypeOK' /\ ToResend' = ToResend /\ Forgone' = Forgone
    BY <1>0, <1>3 DEF CallTypeOK, ToResend, Forgone
  <1>4. CASE UNCHANGED batchVars
    BY <1>1, <1>2, <1>3, <1>4 DEF batchVars, storeVars, dbVars
  <1>5. CASE SaveBatch /\ UNCHANGED lost
    <2>1. UNCHANGED <<sent, dbRetry, lost, call>> /\ dispatch' = [dispatch EXCEPT !.at = "seed"]
      BY <1>5 DEF SaveBatch, InsertRows
    <2>2. DispatchTypeOK' /\ ToSend' \subseteq ToSend
      BY <1>0, <1>5, <2>1 DEF SaveBatch, DispatchTypeOK, ToSend
    <2>. QED
      BY <1>1, <1>3, <2>1, <2>2
  <1>6. CASE SeedTask /\ UNCHANGED lost
    <2>1. UNCHANGED <<sent, dbRetry, lost, call>> /\ dispatch.at = "seed"
          /\ NextTask("seed", "send", {})
      BY <1>6 DEF SeedTask, dbVars
    <2>2. DispatchTypeOK' /\ ToSend' \subseteq ToSend
      BY <1>0, <2>1 DEF NextTask, DispatchAt, DispatchTypeOK, ToSend
    <2>. QED
      BY <1>1, <1>3, <2>1, <2>2
  <1>7. CASE SendTask /\ UNCHANGED lost
    <2>0. UNCHANGED <<dbRetry, lost, call>> /\ dispatch.at = "send"
      BY <1>7 DEF SendTask, storeVars, dbVars
    <2>1. PICK failed \in {dispatch.failed, dispatch.failed \cup {dispatch.task}} :
              NextTask("send", "sent", failed)
      BY <1>7 DEF SendTask
    <2>2. DispatchTypeOK'
      BY <1>0, <2>0, <2>1 DEF NextTask, DispatchAt, DispatchTypeOK
    <2>3. ToSend' \subseteq ToSend /\ dispatch.task \notin ToSend'
      <3>1. CASE dispatch.task = LastOfBatch
        <4>1. dispatch' = [at |-> "sent", from |-> dispatch.from, task |-> dispatch.from,
                           failed |-> failed]
          BY <2>1, <3>1 DEF NextTask, DispatchAt
        <4>2. LastOfBatch' = LastOfBatch
          BY <1>0, <4>1 DEF LastOfBatch
        <4>. QED
          BY <1>0, <2>0, <3>1, <4>1, <4>2 DEF ToSend
      <3>2. CASE dispatch.task # LastOfBatch
        <4>1. dispatch' = [at |-> "send", from |-> dispatch.from, task |-> dispatch.task + 1,
                           failed |-> failed]
          BY <2>1, <3>2 DEF NextTask, DispatchAt
        <4>. QED
          BY <1>0, <2>0, <4>1 DEF ToSend
      <3>. QED
        BY <3>1, <3>2
    <2>4. CASE UNCHANGED sent
      BY <1>1, <1>3, <2>0, <2>2, <2>3, <2>4
    <2>5. CASE Deliver(dispatch.task)
      <3>1. sent' = [sent EXCEPT ![dispatch.task] = @ + 1]
        BY <2>5 DEF Deliver
      <3>2. CountTypeOK'
        BY <1>0, <2>0, <3>1, OneMore DEF CountTypeOK
      <3>3. ASSUME NEW t \in Tasks, t = dispatch.task PROVE Counted(t)'
        <4>1. t \in ToSend
          BY <1>0, <2>0, <3>3 DEF ToSend
        <4>2. t \notin ToSend' /\ ToResend' = ToResend /\ Forgone' = Forgone
          BY <1>3, <2>0, <2>3, <3>3
        <4>3. /\ Counted(t) /\ sent'[t] = sent[t] + 1
              /\ dbRetry'[t] = dbRetry[t] /\ lost'[t] = lost[t]
          BY <1>0, <2>0, <3>1, <3>3 DEF BatchInv, CountTypeOK
        <4>. QED
          BY <1>0, <4>1, <4>2, <4>3 DEF Counted, One, CountTypeOK
      <3>4. ASSUME NEW t \in Tasks, t # dispatch.task PROVE Counted(t)'
        BY <1>0, <1>3, <2>0, <2>3, <3>1, <3>4, CountedStays DEF BatchInv, CountTypeOK
      <3>. QED
        BY <1>3, <2>0, <2>2, <3>2, <3>3, <3>4 DEF BatchInv
    <2>. QED
      BY <1>7, <2>4, <2>5 DEF SendTask, Refuse
  <1>8. ASSUME NEW unwritten, MarkRowsBut(unwritten), UNCHANGED lost PROVE BatchInv'
    <2>1. UNCHANGED <<sent, dbRetry, lost, call>> /\ dispatch.at \in {"sent", "abort"}
      BY <1>8 DEF MarkRowsBut, CloseRows, dbVars
    <2>2. CASE NextBatch
      BY <1>0, <1>1, <1>3, <2>1, <2>2, NextBatchKeeps
    <2>3. CASE dispatch' = [dispatch EXCEPT !.at = IF dispatch.at = "sent" THEN "markHash"
                                                                           ELSE "abortHash"]
      <3>1. LastOfBatch' = LastOfBatch
        BY <1>0, <2>3 DEF LastOfBatch, DispatchTypeOK
      <3>2. DispatchTypeOK' /\ ToSend' \subseteq ToSend
        BY <1>0, <2>1, <2>3, <3>1 DEF DispatchTypeOK, ToSend
      <3>. QED
        BY <1>1, <1>3, <2>1, <3>2
    <2>. QED
      BY <1>8, <2>2, <2>3 DEF MarkRowsBut
  <1>9. CASE MarkHash /\ UNCHANGED lost
    <2>1. UNCHANGED <<sent, dbRetry, lost, call>> /\ dispatch.at \in {"markHash", "abortHash"}
      BY <1>9 DEF MarkHash, dbVars
    <2>2. CASE NextBatch
      BY <1>0, <1>1, <1>3, <2>1, <2>2, NextBatchKeeps
    <2>3. ASSUME NEW t, dispatch' = [dispatch EXCEPT !.failed = @ \ {t}] PROVE BatchInv'
      <3>1. LastOfBatch' = LastOfBatch
        BY <1>0, <2>3 DEF LastOfBatch, DispatchTypeOK
      <3>2. DispatchTypeOK' /\ ToSend' \subseteq ToSend
        BY <1>0, <2>1, <2>3, <3>1 DEF DispatchTypeOK, ToSend
      <3>. QED
        BY <1>1, <1>3, <2>1, <3>2
    <2>. QED
      BY <1>9, <2>2, <2>3 DEF MarkHash
  <1>10. CASE DispatchRaises /\ UNCHANGED lost
    <2>1. UNCHANGED <<sent, dbRetry, lost, call>>
          /\ dispatch.at \in {"save", "sent", "abort", "seed", "markHash", "abortHash"}
      BY <1>10 DEF DispatchRaises, storeVars, dbVars
    <2>2. CASE dispatch' = DispatchAt("raised", 1, 1, {})
      <3>1. DispatchTypeOK' /\ ToSend' \subseteq ToSend
        BY <1>0, <2>2 DEF DispatchAt, DispatchTypeOK, ToSend
      <3>. QED
        BY <1>1, <1>3, <2>1, <3>1
    <2>3. CASE dispatch' = DispatchAt("abort", dispatch.from, dispatch.from, Batch)
      <3>1. LastOfBatch' = LastOfBatch
        BY <1>0, <2>3 DEF LastOfBatch, DispatchAt
      <3>2. Batch \subseteq Nat
        BY <1>0 DEF Batch
      <3>3. DispatchTypeOK' /\ ToSend' \subseteq ToSend
        BY <1>0, <2>1, <2>3, <3>1, <3>2 DEF DispatchAt, DispatchTypeOK, ToSend
      <3>. QED
        BY <1>1, <1>3, <2>1, <3>3
    <2>. QED
      BY <1>10, <2>2, <2>3 DEF DispatchRaises
  <1>11. CASE MasterDies /\ UNCHANGED lost
    <2>1. UNCHANGED <<sent, dbRetry, lost>> /\ call' = NoCall
          /\ dispatch' = DispatchAt("raised", 1, 1, {})
      BY <1>11 DEF MasterDies, storeVars, dbVars
    <2>2. DispatchTypeOK' /\ ToSend' \subseteq ToSend
      BY <1>0, <2>1 DEF DispatchAt, DispatchTypeOK, ToSend
    <2>3. CallTypeOK' /\ ToResend' \subseteq ToResend /\ Forgone' = {}
      BY <2>1 DEF NoCall, CallTypeOK, ToResend, Forgone
    <2>. QED
      BY <1>1, <2>1, <2>2, <2>3
  <1>12. CASE (CancelBatch \/ RetryBatch) /\ UNCHANGED lost
    <2>1. UNCHANGED <<sent, dbRetry, lost, dispatch>>
      BY <1>12 DEF CancelBatch, RetryBatch, storeVars, dbVars
    <2>2. \E op \in {"cancel", "retry"}, chosen \in SUBSET Tasks : Enter(op, chosen)
      BY <1>12 DEF CancelBatch, RetryBatch, Listed
    <2>3. CallTypeOK' /\ ToResend' = {} /\ Forgone' = {}
      BY <2>2 DEF Enter, CallTypeOK, ToResend, Forgone
    <2>. QED
      BY <1>1, <1>2, <2>1, <2>3
  <1>13. CASE CallLoop /\ UNCHANGED lost
    <2>1. UNCHANGED <<sent, dbRetry, lost, dispatch>> /\ call.at = "loop"
      BY <1>13 DEF CallLoop, dbVars
    <2>2. PICK t \in call.todo : NextOfLoop(t, call.unwritten)
      BY <1>13 DEF CallLoop
    <2>3. call' = [call EXCEPT !.todo = @ \ {t},
                              !.at = IF call.todo = {t} THEN "commit" ELSE "loop",
                              !.unwritten = call.unwritten]
      BY <2>2 DEF NextOfLoop
    <2>4. CallTypeOK' /\ ToResend' = {} /\ Forgone' = Forgone
      BY <1>0, <2>1, <2>3 DEF CallTypeOK, ToResend, Forgone
    <2>. QED
      BY <1>1, <1>2, <2>1, <2>4
  <1>14. CASE CallCommit /\ UNCHANGED lost
    <2>1. UNCHANGED <<sent, lost, dispatch>> /\ call.at = "commit"
      BY <1>14 DEF CallCommit
    <2>2. CASE call.op = "cancel"
      <3>1. UNCHANGED dbRetry /\ call' = NoCall
        BY <1>14, <2>2 DEF CallCommit, CloseRows
      <3>2. CallTypeOK' /\ ToResend' = {} /\ Forgone' = {}
        BY <3>1 DEF NoCall, CallTypeOK, ToResend, Forgone
      <3>. QED
        BY <1>1, <1>2, <2>1, <3>1, <3>2
    <2>3. CASE call.op # "cancel"
      <3>1. /\ dbRetry' = [t \in Tasks |-> IF t \in call.chosen \ call.unwritten THEN dbRetry[t] + 1
                                      ELSE dbRetry[t]]
            /\ call' = [call EXCEPT !.at = "send", !.todo = call.chosen]
        BY <1>14, <2>3 DEF CallCommit, ReopenRows
      <3>2. /\ CallTypeOK' /\ ToResend' = call.chosen /\ ToResend = {}
            /\ Forgone' = {} /\ Forgone = call.unwritten
        BY <1>0, <2>1, <2>3, <3>1 DEF CallTypeOK, ToResend, Forgone
      <3>3. CountTypeOK'
        BY <1>0, <2>1, <3>1 DEF CountTypeOK
      <3>4. ASSUME NEW t \in Tasks PROVE Counted(t)'
        <4>1. Counted(t) /\ sent'[t] = sent[t] /\ One(ToSend', t) = One(ToSend, t)
          BY <1>2, <2>1 DEF BatchInv, One
        <4>2. /\ One(ToResend, t) = 0 /\ One(Forgone', t) = 0
              /\ t \in call.unwritten => One(Forgone, t) = 1 /\ dbRetry'[t] = dbRetry[t]
              /\ t \in call.chosen \ call.unwritten => dbRetry'[t] = dbRetry[t] + 1
              /\ t \notin call.chosen => One(ToResend', t) = 0 /\ dbRetry'[t] >= dbRetry[t]
              /\ One(ToResend', t) \in {0, 1} /\ One(Forgone, t) \in {0, 1}
          BY <1>0, <3>1, <3>2 DEF One, CountTypeOK
        <4>3. /\ sent[t] \in Nat /\ dbRetry[t] \in Nat /\ dbRetry'[t] \in Nat
              /\ lost[t] \in Nat /\ lost'[t] = lost[t] /\ One(ToSend, t) \in {0, 1}
          BY <1>0, <2>1, <3>3 DEF CountTypeOK, One
        <4>. QED
          BY <4>1, <4>2, <4>3 DEF Counted, One
      <3>. QED
        BY <1>2, <2>1, <3>2, <3>3, <3>4 DEF BatchInv
    <2>. QED
      BY <2>2, <2>3
  <1>15. CASE CallSend /\ UNCHANGED lost
    <2>1. UNCHANGED <<dbRetry, lost, dispatch>> /\ call.at = "send"
      BY <1>15 DEF CallSend, storeVars, dbVars
    <2>2. PICK t \in call.todo, refused \in BOOLEAN :
              /\ IF refused THEN Refuse ELSE Deliver(t)
              /\ call' = [call EXCEPT
                            !.todo = @ \ {t},
                            !.failed = IF refused THEN @ \cup {t} ELSE @,
                            !.at = IF call.todo = {t} THEN "sent" ELSE "send"]
      BY <1>15 DEF CallSend
    <2>3. t \in Tasks /\ CallTypeOK'
      BY <1>0, <2>2 DEF CallTypeOK
    <2>4. /\ ToResend' \subseteq ToResend /\ t \in ToResend /\ t \notin ToResend'
          /\ Forgone' = {}
      BY <1>0, <2>1, <2>2 DEF CallTypeOK, ToResend, Forgone
    <2>5. CASE UNCHANGED sent
      BY <1>1, <1>2, <2>1, <2>3, <2>4, <2>5
    <2>6. CASE Deliver(t)
      <3>1. sent' = [sent EXCEPT ![t] = @ + 1]
        BY <2>6 DEF Deliver
      <3>2. CountTypeOK'
        BY <1>0, <2>1, <3>1, OneMore DEF CountTypeOK
      <3>3. Counted(t)'
        <4>1. Counted(t) /\ sent'[t] = sent[t] + 1 /\ dbRetry'[t] = dbRetry[t]
              /\ One(ToSend', t) = One(ToSend, t) /\ lost'[t] = lost[t]
          BY <1>0, <1>2, <2>1, <2>3, <3>1 DEF BatchInv, CountTypeOK, One
        <4>2. /\ One(ToResend, t) = 1 /\ One(ToResend', t) = 0
              /\ One(Forgone, t) \in {0, 1} /\ One(Forgone', t) = 0
          BY <2>4 DEF One
        <4>3. sent[t] \in Nat /\ dbRetry[t] \in Nat /\ lost[t] \in Nat /\ One(ToSend, t) \in {0, 1}
          BY <1>0, <2>3 DEF CountTypeOK, One
        <4>. QED
          BY <4>1, <4>2, <4>3 DEF Counted, One
      <3>4. ASSUME NEW u \in Tasks, u # t PROVE Counted(u)'
        BY <1>0, <1>2, <2>1, <2>4, <3>1, <3>4, CountedStays DEF BatchInv, CountTypeOK
      <3>. QED
        BY <1>2, <2>1, <2>3, <3>2, <3>3, <3>4 DEF BatchInv
    <2>. QED
      BY <2>2, <2>5, <2>6 DEF Refuse
  <1>16. ASSUME NEW unwritten, CallMarkRowsBut(unwritten), UNCHANGED lost PROVE BatchInv'
    <2>1. /\ UNCHANGED <<sent, dbRetry, lost, dispatch>>
          /\ call' = NoCall \/ call' = [call EXCEPT !.at = "markHash", !.todo = call.failed]
      BY <1>16 DEF CallMarkRowsBut, CloseRows
    <2>2. CallTypeOK' /\ ToResend' = {} /\ Forgone' = {}
      <3>1. CASE call' = NoCall
        BY <3>1 DEF NoCall, CallTypeOK, ToResend, Forgone
      <3>2. CASE call' = [call EXCEPT !.at = "markHash", !.todo = call.failed]
        <4>1. CallTypeOK'
          BY <1>0, <3>2 DEF CallTypeOK
        <4>2. call'.at = "markHash"
          BY <1>0, <3>2 DEF CallTypeOK
        <4>. QED
          BY <4>1, <4>2 DEF ToResend, Forgone
      <3>. QED
        BY <2>1, <3>1, <3>2
    <2>. QED
      BY <1>1, <1>2, <2>1, <2>2
  <1>17. CASE CallMarkHash /\ UNCHANGED lost
    <2>1. UNCHANGED <<sent, dbRetry, lost, dispatch>> /\ call.at = "markHash"
      BY <1>17 DEF CallMarkHash, dbVars
    <2>2. \E t : call' = NoCall \/ call' = [call EXCEPT !.todo = @ \ {t}]
      BY <1>17 DEF CallMarkHash
    <2>3. CallTypeOK' /\ ToResend' = {} /\ Forgone' = {}
      BY <1>0, <2>1, <2>2 DEF NoCall, CallTypeOK, ToResend, Forgone
    <2>. QED
      BY <1>1, <1>2, <2>1, <2>3
  <1>18. CASE CallRaises /\ UNCHANGED lost
    <2>1. UNCHANGED <<sent, dbRetry, lost, dispatch>> /\ call' = NoCall
      BY <1>18 DEF CallRaises, storeVars, dbVars
    <2>2. CallTypeOK' /\ ToResend' = {} /\ Forgone' = {}
      BY <2>1 DEF NoCall, CallTypeOK, ToResend, Forgone
    <2>. QED
      BY <1>1, <1>2, <2>1, <2>2
  <1>19. ASSUME NEW t \in Tasks, TaskStep(t), UNCHANGED lost PROVE BatchInv'
    <2>1. UNCHANGED <<sent, dbRetry, lost, dispatch, call>>
      BY <1>19 DEF TaskStep, Take, MarkRunning, SaveRunning, MarkOutcome, SaveOutcome,
                   WorkerWritesRow, storeVars, dbVars
    <2>. QED
      BY <1>1, <1>2, <1>3, <2>1
  <1>20. CASE CallUpdateFails
    <2>1. UNCHANGED <<sent, dbRetry, dispatch>> /\ call.at = "loop"
      BY <1>20 DEF CallUpdateFails, dbVars
    <2>2. PICK u \in call.todo :
              /\ NextOfLoop(u, call.unwritten \cup {u})
              /\ lost' = IF call.op = "cancel" THEN lost ELSE [lost EXCEPT ![u] = @ + 1]
      BY <1>20 DEF CallUpdateFails
    <2>3. call' = [call EXCEPT !.todo = @ \ {u},
                              !.at = IF call.todo = {u} THEN "commit" ELSE "loop",
                              !.unwritten = call.unwritten \cup {u}]
      BY <2>2 DEF NextOfLoop
    <2>4. u \in Tasks /\ CallTypeOK' /\ ToResend' = {}
      BY <1>0, <2>1, <2>2, <2>3 DEF CallTypeOK, ToResend
    <2>5. CASE call.op = "cancel"
      <3>1. Forgone' = {}
        BY <1>0, <2>3, <2>5 DEF CallTypeOK, Forgone
      <3>. QED
        BY <1>1, <1>2, <2>1, <2>2, <2>4, <2>5, <3>1
    <2>6. CASE call.op # "cancel"
      <3>1. lost' = [lost EXCEPT ![u] = @ + 1]
        BY <2>2, <2>6
      <3>2. CountTypeOK'
        BY <1>0, <2>1, <3>1, OneMore DEF CountTypeOK
      <3>3. ASSUME NEW t \in Tasks PROVE Counted(t)'
        <4>1. /\ Counted(t) /\ sent'[t] = sent[t] /\ dbRetry'[t] = dbRetry[t]
              /\ One(ToSend', t) = One(ToSend, t) /\ One(ToResend', t) = 0
          BY <1>2, <2>1, <2>4 DEF BatchInv, One
        <4>2. /\ sent[t] \in Nat /\ dbRetry[t] \in Nat /\ lost[t] \in Nat
              /\ One(ToSend, t) \in {0, 1} /\ One(ToResend, t) \in {0, 1}
              /\ One(Forgone, t) \in {0, 1} /\ One(Forgone', t) \in {0, 1}
          BY <1>0 DEF CountTypeOK, One
        <4>3. CASE t = u
          <5>1. lost'[t] = lost[t] + 1
            BY <1>0, <3>1, <4>3 DEF CountTypeOK
          <5>. QED
            BY <4>1, <4>2, <5>1 DEF Counted
        <4>4. CASE t # u
          <5>1. lost'[t] = lost[t]
            BY <1>0, <3>1, <4>4 DEF CountTypeOK
          <5>2. t \in Forgone' => t \in Forgone
            BY <1>0, <2>1, <2>3, <2>6, <4>4 DEF CallTypeOK, Forgone
          <5>3. One(Forgone', t) <= One(Forgone, t)
            BY <5>2 DEF One
          <5>. QED
            BY <4>1, <4>2, <5>1, <5>3 DEF Counted
        <4>. QED
          BY <4>3, <4>4
      <3>. QED
        BY <1>2, <2>1, <2>4, <3>2, <3>3 DEF BatchInv
    <2>. QED
      BY <2>5, <2>6
  <1>. QED
    BY <1>4, <1>5, <1>6, <1>7, <1>8, <1>9, <1>10, <1>11, <1>12, <1>13, <1>14, <1>15, <1>16,
       <1>17, <1>18, <1>19, <1>20
       DEF BatchNext, DispatchStep, CallStep, MarkRows, MarkRowsUnwritten, CallMarkRows,
           CallMarkRowsUnwritten

\* However dispatch, cancellation and retry overlap and whatever is refused,
\* raises or fails unread, a task of the batch is sent once, once more per
\* counted retry, and beyond that only by a retry whose update of the row was
\* lost (process_batch_tasks_async, retry_batch_tasks, update_task_status).
THEOREM SendsCounted == BatchSpec => []SendsAreCounted
  <1>1. BatchInit => BatchInv
    BY BatchInitInv
  <1>2. BatchInv /\ [BatchNext]_batchVars => BatchInv'
    BY BatchStepInv
  <1>3. ASSUME BatchInv, NEW t \in Tasks PROVE sent[t] <= 1 + dbRetry[t] + lost[t]
    <2>1. /\ sent[t] \in Nat /\ dbRetry[t] \in Nat /\ lost[t] \in Nat
          /\ One(ToSend, t) \in {0, 1} /\ One(ToResend, t) \in {0, 1}
          /\ One(Forgone, t) \in {0, 1}
      BY <1>3 DEF BatchInv, CountTypeOK, One
    <2>. QED
      BY <1>3, <2>1 DEF BatchInv, Counted
  <1>4. BatchInv => SendsAreCounted
    BY <1>3 DEF SendsAreCounted
  <1>. QED
    BY <1>1, <1>2, <1>4, PTL DEF BatchSpec

-----------------------------------------------------------------------------
(* What is pending is on its way.                                          *)

\* A task that is cancelled while its message is still there, and then retried,
\* may be run by the old message before the retry commits: no behaviour has
\* both requests, and no retry comes before the dispatch is done.
RequestsApart ==
    /\ EarlyRetry = FALSE
    /\ \A w \in Workloads : ~("cancel" \in w /\ "retry" \in w)

\* No worker has to do with t.
Idle(t) == inbox[t] = 0 /\ run[t] = "idle"

\* The tasks whose rows are not inserted yet.
Unsaved ==
    IF dispatch.at = "save" THEN dispatch.from .. Total
    ELSE IF dispatch.at \in {"done", "raised"} THEN {}
    ELSE (LastOfBatch + 1) .. Total

\* The background task will send t, or has noted that it could not.
AwaitsSend(t) ==
    \/ dispatch.at = "seed" /\ t \in Batch
    \/ dispatch.at = "send" /\ t \in dispatch.task .. LastOfBatch
    \/ dispatch.at \in {"send", "sent"} /\ t \in dispatch.failed

\* A cancellation will close the row of t.
AwaitsCancel(t) == call.op = "cancel" /\ t \in call.chosen

\* A retry will send t, or has noted that it could not.
AwaitsResend(t) ==
    \/ call.at = "send" /\ t \in call.todo
    \/ call.at \in {"send", "sent"} /\ t \in call.failed

WorkerTypeOK ==
    /\ dbStatus \in [Tasks -> Status] /\ redis \in [Tasks -> Status]
    /\ inbox \in [Tasks -> Nat]
    /\ run \in [Tasks -> {"idle", "claimed", "marked", "executing", "success", "failed"}]

\* The background task: what it could not send lies behind it in its part.
DispatchShape ==
    /\ dispatch.at \in {"save", "seed", "send", "sent", "markHash", "done"}
    /\ dispatch.at = "save" => dispatch.task = dispatch.from
    /\ dispatch.at \in {"seed", "send"} => dispatch.task \in dispatch.from .. LastOfBatch
    /\ dispatch.at \in {"save", "seed", "done"} => dispatch.failed = {}
    /\ dispatch.at = "send" => dispatch.failed \subseteq dispatch.from .. dispatch.task - 1
    /\ dispatch.at = "markHash" => dispatch.failed # {}
    /\ dispatch.failed \subseteq Batch

\* The request: a cancellation has two stages, a retry comes after the dispatch.
CallShape ==
    /\ call.op = "none" => call = NoCall
    /\ call.op = "cancel" => call.at \in {"loop", "commit"} /\ "cancel" \in workload
    /\ call.op = "retry" => call.at # "idle" /\ dispatch.at = "done" /\ "retry" \in workload
    /\ call.todo \subseteq call.chosen /\ call.failed \subseteq call.chosen
    /\ call.unwritten = {}
    /\ call.at = "commit" => call.todo = {}
    /\ call.at \in {"loop", "commit"} => call.failed = {}
    /\ call.at = "send" => call.todo \cap call.failed = {}

\* A task whose row is not there is unknown to everybody.
Unknown(t) ==
    dbStatus[t] = "absent" /\ redis[t] \notin Skipped /\ Idle(t) /\ t \notin call.chosen

\* The property, by who will send, run or close the task.
Held(t) ==
    dbStatus[t] = "pending" =>
        inbox[t] > 0 \/ run[t] # "idle" \/ AwaitsSend(t) \/ AwaitsCancel(t) \/ AwaitsResend(t)

\* A worker throws the message of a pending task away only when another one
\* has taken the task, or when it is being cancelled.
HashFollows(t) ==
    dbStatus[t] = "pending" /\ redis[t] \in Skipped => run[t] # "idle" \/ AwaitsCancel(t)

\* The hashes that will be marked are of rows that are closed.
MarkedIsClosed(t) ==
    (\/ dispatch.at = "markHash" /\ t \in dispatch.failed
     \/ call.at = "markHash" /\ t \in call.todo) => dbStatus[t] # "pending"

\* Where there are retries and so no cancellations: one message or coroutine
\* per task, and none of a task that is to be sent or is over.
OneCarrier(t) ==
    /\ inbox[t] <= 1 /\ (run[t] # "idle" => inbox[t] = 0)
    /\ dbStatus[t] \in Finished => Idle(t)
    /\ t \in ToSend \/ t \in ToResend \/ t \in dispatch.failed \/ t \in call.failed => Idle(t)
    /\ t \in ToSend \/ t \in ToResend => dbStatus[t] \in {"absent", "pending"}
    /\ call.at \in {"loop", "commit"} /\ t \in call.chosen =>
          dbStatus[t] \in Finished /\ (t \notin call.todo => redis[t] = "pending")

TaskInv(t) ==
    /\ t \in Unsaved => Unknown(t)
    /\ Held(t)
    /\ HashFollows(t)
    /\ MarkedIsClosed(t)
    /\ "retry" \in workload => OneCarrier(t)

Way == DispatchShape /\ CallShape /\ \A t \in Tasks : TaskInv(t)

WayInv ==
    /\ BatchInv /\ WorkerTypeOK
    /\ workload \in Workloads
    /\ ~troubled => Way

LEMMA WayTypes ==
    ASSUME BatchInv, WorkerTypeOK, [BatchNext]_batchVars
    PROVE  WorkerTypeOK'
  <1>0. DispatchTypeOK /\ CallTypeOK /\ Tasks = 1 .. Total
    BY TotalIsNat DEF BatchInv
  <1>1. CASE UNCHANGED batchVars
    BY <1>1 DEF batchVars, storeVars, dbVars, WorkerTypeOK
  <1>2. CASE SaveBatch \/ SeedTask \/ MarkHash
    BY <1>2 DEF SaveBatch, SeedTask, MarkHash, InsertRows, SetRedis, dbVars, WorkerTypeOK,
                Status, Finished
  <1>3. ASSUME NEW unwritten, MarkRowsBut(unwritten) PROVE WorkerTypeOK'
    BY <1>3 DEF MarkRowsBut, CloseRows, dbVars, WorkerTypeOK, Status, Finished
  <1>4. CASE SendTask
    BY <1>4, OneMore DEF SendTask, Deliver, Refuse, storeVars, dbVars, WorkerTypeOK
  <1>5. CASE DispatchRaises \/ MasterDies \/ CallRaises \/ CancelBatch \/ RetryBatch
    BY <1>5 DEF DispatchRaises, MasterDies, CallRaises, CancelBatch, RetryBatch, storeVars, dbVars,
                WorkerTypeOK
  <1>6. CASE CallLoop \/ CallUpdateFails \/ CallMarkHash
    BY <1>6 DEF CallLoop, CallUpdateFails, NextOfLoop, CallMarkHash, SetRedis, dbVars,
                WorkerTypeOK, Status, Finished
  <1>7. CASE CallCommit
    BY <1>7 DEF CallCommit, CloseRows, ReopenRows, WorkerTypeOK, Status, Finished
  <1>10. ASSUME NEW unwritten, CallMarkRowsBut(unwritten) PROVE WorkerTypeOK'
    BY <1>10 DEF CallMarkRowsBut, CloseRows, WorkerTypeOK, Status, Finished
  <1>8. CASE CallSend
    BY <1>8, OneMore DEF CallSend, Deliver, Refuse, storeVars, dbVars, WorkerTypeOK
  <1>9. ASSUME NEW t \in Tasks, TaskStep(t) PROVE WorkerTypeOK'
    <2>1. CASE Take(t)
      BY <2>1 DEF Take, storeVars, dbVars, WorkerTypeOK
    <2>2. CASE MarkRunning(t) \/ SaveRunning(t)
      BY <2>2 DEF MarkRunning, SaveRunning, SetRedis, WorkerWritesRow, dbVars, WorkerTypeOK, Status
    <2>3. CASE MarkOutcome(t) \/ SaveOutcome(t)
      BY <2>3 DEF MarkOutcome, SaveOutcome, SetRedis, WorkerWritesRow, dbVars, WorkerTypeOK,
                  Status, Finished
    <2>. QED
      BY <1>9, <2>1, <2>2, <2>3 DEF TaskStep
  <1>. QED
    BY <1>1, <1>2, <1>3, <1>4, <1>5, <1>6, <1>7, <1>8, <1>9, <1>10
       DEF BatchNext, DispatchStep, CallStep, MarkRows, MarkRowsUnwritten, CallMarkRows,
           CallMarkRowsUnwritten

\* What the master does not do leaves its shape.
LEMMA ShapesStay ==
    ASSUME UNCHANGED <<dispatch, call, workload>>
    PROVE  /\ DispatchShape => DispatchShape'
           /\ CallShape => CallShape'
           /\ LastOfBatch' = LastOfBatch /\ Batch' = Batch /\ Total' = Total
           /\ Unsaved' = Unsaved /\ ToSend' = ToSend /\ ToResend' = ToResend
  BY DEF DispatchShape, CallShape, LastOfBatch, Batch, Total, Unsaved, ToSend, ToResend

LEMMA TaskStepWay ==
    ASSUME Way, BatchInv, WorkerTypeOK, NEW u \in Tasks, TaskStep(u), UNCHANGED workload
    PROVE  Way'
  <1>0. UNCHANGED <<dispatch, call, workload>>
    BY DEF TaskStep, Take, MarkRunning, SaveRunning, MarkOutcome, SaveOutcome
  <1>1. DispatchShape' /\ CallShape'
    BY <1>0, ShapesStay DEF Way
  <1>2. /\ Unsaved' = Unsaved /\ ToSend' = ToSend /\ ToResend' = ToResend
        /\ \A t : AwaitsSend(t)' <=> AwaitsSend(t)
        /\ \A t : AwaitsCancel(t)' <=> AwaitsCancel(t)
        /\ \A t : AwaitsResend(t)' <=> AwaitsResend(t)
    BY <1>0, ShapesStay DEF AwaitsSend, AwaitsCancel, AwaitsResend
  <1>3. ASSUME NEW t \in Tasks, t # u PROVE TaskInv(t)'
    <2>1. /\ dbStatus'[t] = dbStatus[t] /\ redis'[t] = redis[t]
          /\ inbox'[t] = inbox[t] /\ run'[t] = run[t]
      BY <1>3 DEF TaskStep, Take, MarkRunning, SaveRunning, MarkOutcome, SaveOutcome, SetRedis,
                  WorkerWritesRow, storeVars, dbVars, WorkerTypeOK
    <2>. QED
      BY <1>0, <1>2, <2>1 DEF Way, TaskInv, Unknown, Held, HashFollows, MarkedIsClosed,
                              OneCarrier, Idle
  <1>4. CASE Take(u)
    <2>1. /\ dbStatus' = dbStatus /\ redis' = redis
          /\ inbox[u] > 0 /\ inbox'[u] = inbox[u] - 1 /\ inbox[u] \in Nat
          /\ \/ redis[u] \in Skipped /\ run' = run
             \/ redis[u] \notin Skipped /\ run[u] = "idle" /\ run'[u] = "claimed"
      BY <1>4 DEF Take, storeVars, dbVars, WorkerTypeOK
    <2>2. TaskInv(u)
      BY DEF Way
    <2>3. ~Idle(u) /\ u \notin Unsaved
      BY <2>1, <2>2 DEF TaskInv, Unknown, Idle
    <2>4. Held(u)' /\ HashFollows(u)' /\ MarkedIsClosed(u)'
      BY <1>0, <1>2, <2>1, <2>2 DEF TaskInv, Held, HashFollows, MarkedIsClosed
    <2>5. ASSUME "retry" \in workload PROVE OneCarrier(u)'
      BY <1>0, <1>2, <2>1, <2>2, <2>3, <2>5 DEF TaskInv, OneCarrier, Idle
    <2>6. TaskInv(u)'
      BY <1>0, <1>2, <2>3, <2>4, <2>5 DEF TaskInv
    <2>. QED
      BY <1>1, <1>3, <2>6 DEF Way
  <1>5. CASE MarkRunning(u) \/ SaveRunning(u) \/ MarkOutcome(u) \/ SaveOutcome(u)
    <2>1. /\ run[u] # "idle" /\ inbox' = inbox
          /\ \/ dbStatus' = dbStatus /\ run'[u] # "idle"
             \/ dbStatus'[u] = "running" /\ run'[u] # "idle"
             \/ dbStatus'[u] \in {"success", "failed"} /\ run'[u] = "idle"
      BY <1>5 DEF MarkRunning, SaveRunning, MarkOutcome, SaveOutcome, SetRedis, WorkerWritesRow,
                  storeVars, dbVars, WorkerTypeOK
    <2>2. TaskInv(u)
      BY DEF Way
    <2>3. ~Idle(u) /\ u \notin Unsaved
      BY <2>1, <2>2 DEF TaskInv, Unknown, Idle
    <2>4. Held(u)' /\ HashFollows(u)' /\ MarkedIsClosed(u)'
      BY <1>0, <1>2, <2>1, <2>2 DEF TaskInv, Held, HashFollows, MarkedIsClosed
    <2>5. ASSUME "retry" \in workload PROVE OneCarrier(u)'
      BY <1>0, <1>2, <2>1, <2>2, <2>3, <2>5 DEF TaskInv, OneCarrier, Idle, Finished
    <2>6. TaskInv(u)'
      BY <1>0, <1>2, <2>3, <2>4, <2>5 DEF TaskInv
    <2>. QED
      BY <1>1, <1>3, <2>6 DEF Way
  <1>. QED
    BY <1>4, <1>5 DEF TaskStep

\* The parts of a batch, and what a step of the background task leaves alone.
LEMMA PartFacts ==
    ASSUME BatchInv
    PROVE  /\ DispatchTypeOK /\ CallTypeOK
           /\ dispatch.from \in 1 .. Total /\ dispatch.task \in Nat
           /\ LastOfBatch \in dispatch.from .. Total /\ Total \in Nat \ {0}
           /\ Total' = Total /\ Tasks = 1 .. Total
           /\ dispatch'.from = dispatch.from => LastOfBatch' = LastOfBatch
           /\ UNCHANGED call => ToResend' = ToResend /\ \A t : AwaitsResend(t)' <=> AwaitsResend(t)
           /\ UNCHANGED call => \A t : AwaitsCancel(t)' <=> AwaitsCancel(t)
  BY LastIsInBatch, TotalIsNat
     DEF BatchInv, DispatchTypeOK, Total, LastOfBatch, ToResend, AwaitsResend, AwaitsCancel

\* A retry waits for the background task.
LEMMA NoRetryYet ==
    ASSUME Way, dispatch.at # "done"
    PROVE  call.op # "retry"
  BY DEF Way, CallShape

LEMMA NoRequestYet ==
    ASSUME Way, BatchInv, RequestsApart, workload \in Workloads, "retry" \in workload,
           dispatch.at # "done"
    PROVE  call = NoCall
  <1>1. call.op \in {"none", "cancel", "retry"}
    BY DEF BatchInv, CallTypeOK
  <1>2. "cancel" \notin workload
    BY DEF RequestsApart
  <1>. QED
    BY <1>1, <1>2, NoRetryYet DEF Way, CallShape

LEMMA SaveBatchWay ==
    ASSUME Way, BatchInv, WorkerTypeOK, SaveBatch, UNCHANGED workload
    PROVE  Way'
  <1>0. /\ dispatch.at = "save" /\ UNCHANGED <<redis, call, inbox, run>>
        /\ dispatch' = [dispatch EXCEPT !.at = "seed"]
        /\ \A t \in Tasks : dbStatus'[t] = IF t \in Batch THEN "pending" ELSE dbStatus[t]
    BY DEF SaveBatch, InsertRows
  <1>1. /\ dispatch'.at = "seed" /\ dispatch'.from = dispatch.from
        /\ dispatch'.task = dispatch.task /\ dispatch'.failed = dispatch.failed
    BY <1>0, PartFacts DEF DispatchTypeOK
  <1>2. LastOfBatch' = LastOfBatch /\ Batch' = Batch
    BY <1>1, PartFacts DEF Batch
  <1>3. DispatchShape'
    BY <1>0, <1>1, <1>2, PartFacts DEF Way, DispatchShape
  <1>4. CallShape'
    BY <1>0, NoRetryYet DEF Way, CallShape
  <1>5. ASSUME NEW t \in Tasks PROVE TaskInv(t)'
    <2>1. TaskInv(t)
      BY DEF Way
    <2>2. t \in Unsaved <=> t \in Batch \/ t \in (LastOfBatch + 1) .. Total
      BY <1>0, PartFacts DEF Unsaved, Batch
    <2>3. t \in Unsaved' => t \in Unsaved /\ t \notin Batch
      BY <1>1, <1>2, <2>2, PartFacts DEF Unsaved, Batch
    <2>4. t \in Unsaved' => Unknown(t)'
      BY <1>0, <2>1, <2>3 DEF TaskInv, Unknown, Idle
    <2>5. Held(t)'
      <3>1. CASE t \in Batch
        BY <1>1, <1>2, <3>1 DEF Held, AwaitsSend
      <3>2. CASE t \notin Batch
        <4>1. ~AwaitsSend(t)
          BY <1>0 DEF AwaitsSend
        <4>. QED
          BY <1>0, <2>1, <3>2, <4>1, PartFacts DEF TaskInv, Held
      <3>. QED
        BY <3>1, <3>2
    <2>6. HashFollows(t)'
      <3>1. CASE t \in Batch
        BY <1>0, <2>1, <2>2, <3>1 DEF TaskInv, Unknown, HashFollows
      <3>2. CASE t \notin Batch
        BY <1>0, <2>1, <3>2, PartFacts DEF TaskInv, HashFollows
      <3>. QED
        BY <3>1, <3>2
    <2>7. MarkedIsClosed(t)'
      <3>1. call.at # "markHash" \/ t \notin call.todo
        BY <1>0, NoRetryYet, PartFacts DEF Way, CallShape, CallTypeOK, NoCall
      <3>. QED
        BY <1>0, <1>1, <3>1 DEF MarkedIsClosed
    <2>8. ASSUME "retry" \in workload PROVE OneCarrier(t)'
      <3>1. OneCarrier(t)
        BY <2>1, <2>8 DEF TaskInv
      <3>2. t \in Batch => Idle(t) /\ t \notin call.chosen
        BY <2>1, <2>2 DEF TaskInv, Unknown
      <3>3. ToSend' = ToSend /\ ToResend' = ToResend
        BY <1>0, <1>1, PartFacts DEF ToSend
      <3>4. dbStatus'[t] \in Finished => Idle(t)
        BY <1>0, <3>1, <3>2 DEF OneCarrier
      <3>. QED
        BY <1>0, <1>1, <3>1, <3>2, <3>3, <3>4 DEF OneCarrier, Idle
    <2>. QED
      BY <1>0, <2>4, <2>5, <2>6, <2>7, <2>8 DEF TaskInv
  <1>. QED
    BY <1>3, <1>4, <1>5 DEF Way

LEMMA SeedTaskWay ==
    ASSUME Way, BatchInv, WorkerTypeOK, SeedTask, UNCHANGED workload
    PROVE  Way'
  <1>0. /\ dispatch.at = "seed" /\ UNCHANGED <<dbStatus, call, inbox, run>>
        /\ redis' = [redis EXCEPT ![dispatch.task] = "pending"]
        /\ NextTask("seed", "send", {})
    BY DEF SeedTask, SetRedis, dbVars
  <1>1. /\ dispatch'.from = dispatch.from /\ dispatch'.failed = {}
        /\ dispatch.task \in dispatch.from .. LastOfBatch
        /\ \/ /\ dispatch.task = LastOfBatch
              /\ dispatch'.at = "send" /\ dispatch'.task = dispatch.from
           \/ /\ dispatch.task # LastOfBatch
              /\ dispatch'.at = "seed" /\ dispatch'.task = dispatch.task + 1
    BY <1>0 DEF NextTask, DispatchAt, Way, DispatchShape
  <1>2. LastOfBatch' = LastOfBatch /\ Batch' = Batch
    BY <1>1, PartFacts DEF Batch
  <1>3. DispatchShape'
    BY <1>0, <1>1, <1>2, PartFacts DEF Way, DispatchShape
  <1>4. CallShape'
    BY <1>0, NoRetryYet DEF Way, CallShape
  <1>5. ASSUME NEW t \in Tasks PROVE TaskInv(t)'
    <2>1. TaskInv(t)
      BY DEF Way
    <2>2. Unsaved' = Unsaved /\ (t \in Unsaved => t # dispatch.task)
      BY <1>0, <1>1, <1>2, PartFacts DEF Unsaved
    <2>3. redis'[t] = redis[t] \/ redis'[t] = "pending"
      BY <1>0 DEF WorkerTypeOK
    <2>4. t \in Unsaved' => Unknown(t)'
      BY <1>0, <2>1, <2>2, <2>3 DEF TaskInv, Unknown, Idle, Skipped, Finished
    <2>5. Held(t)'
      <3>1. AwaitsSend(t) => AwaitsSend(t)'
        BY <1>0, <1>1, <1>2 DEF AwaitsSend, Batch
      <3>. QED
        BY <1>0, <2>1, <3>1, PartFacts DEF TaskInv, Held
    <2>6. HashFollows(t)'
      BY <1>0, <2>1, <2>3, PartFacts DEF TaskInv, HashFollows, Skipped, Finished
    <2>7. MarkedIsClosed(t)'
      BY <1>0, <1>1, <2>1 DEF TaskInv, MarkedIsClosed
    <2>8. ASSUME "retry" \in workload PROVE OneCarrier(t)'
      <3>1. ToSend' = ToSend /\ ToResend' = ToResend
        BY <1>0, <1>1, PartFacts DEF ToSend
      <3>. QED
        BY <1>0, <1>1, <2>1, <2>3, <2>8, <3>1 DEF TaskInv, OneCarrier, Idle
    <2>. QED
      BY <1>0, <2>4, <2>5, <2>6, <2>7, <2>8 DEF TaskInv
  <1>. QED
    BY <1>3, <1>4, <1>5 DEF Way

LEMMA SendTaskWay ==
    ASSUME Way, BatchInv, WorkerTypeOK, RequestsApart, workload \in Workloads,
           SendTask, UNCHANGED workload
    PROVE  Way'
  <1>0. /\ dispatch.at = "send" /\ UNCHANGED <<dbStatus, redis, call, run>>
        /\ dispatch.task \in dispatch.from .. LastOfBatch
        /\ dispatch.failed \subseteq dispatch.from .. dispatch.task - 1
    BY DEF SendTask, storeVars, dbVars, Way, DispatchShape
  <1>1. PICK failed \in {dispatch.failed, dispatch.failed \cup {dispatch.task}} :
            /\ NextTask("send", "sent", failed)
            /\ \/ inbox' = [inbox EXCEPT ![dispatch.task] = @ + 1] /\ failed = dispatch.failed
               \/ inbox' = inbox /\ failed = dispatch.failed \cup {dispatch.task}
    BY DEF SendTask, Deliver, Refuse
  <1>2. /\ dispatch'.from = dispatch.from /\ dispatch'.failed = failed
        /\ \/ /\ dispatch.task = LastOfBatch
              /\ dispatch'.at = "sent" /\ dispatch'.task = dispatch.from
           \/ /\ dispatch.task # LastOfBatch
              /\ dispatch'.at = "send" /\ dispatch'.task = dispatch.task + 1
    BY <1>1 DEF NextTask, DispatchAt
  <1>3. LastOfBatch' = LastOfBatch /\ Batch' = Batch
    BY <1>2, PartFacts DEF Batch
  <1>4. DispatchShape'
    <2>1. dispatch'.task = dispatch.task + 1 => failed \subseteq dispatch.from .. dispatch'.task - 1
      BY <1>0, <1>1, PartFacts
    <2>2. failed \subseteq Batch
      BY <1>0, <1>1, PartFacts DEF Batch
    <2>. QED
      BY <1>0, <1>2, <1>3, <2>1, <2>2, PartFacts DEF DispatchShape
  <1>5. CallShape'
    BY <1>0, NoRetryYet DEF Way, CallShape
  <1>6. ASSUME NEW t \in Tasks PROVE TaskInv(t)'
    <2>1. TaskInv(t)
      BY DEF Way
    <2>2. Unsaved' = Unsaved /\ (t \in Unsaved => t # dispatch.task)
      BY <1>0, <1>2, <1>3, PartFacts DEF Unsaved
    <2>3. /\ inbox[t] \in Nat
          /\ t # dispatch.task => inbox'[t] = inbox[t]
          /\ t = dispatch.task => inbox'[t] = inbox[t] + 1 \/ (inbox'[t] = inbox[t] /\ t \in failed)
      BY <1>1 DEF WorkerTypeOK
    <2>4. t \in Unsaved' => Unknown(t)'
      BY <1>0, <2>1, <2>2, <2>3 DEF TaskInv, Unknown, Idle
    <2>5. Held(t)'
      <3>1. AwaitsSend(t) /\ t # dispatch.task => AwaitsSend(t)'
        BY <1>0, <1>1, <1>2, <1>3, PartFacts DEF AwaitsSend
      <3>2. CASE t = dispatch.task
        BY <1>0, <1>2, <2>3, <3>2 DEF Held, AwaitsSend
      <3>3. CASE t # dispatch.task
        BY <1>0, <2>1, <2>3, <3>1, <3>3, PartFacts DEF TaskInv, Held
      <3>. QED
        BY <3>2, <3>3
    <2>6. HashFollows(t)'
      BY <1>0, <2>1, PartFacts DEF TaskInv, HashFollows
    <2>7. MarkedIsClosed(t)'
      BY <1>0, <1>2, <2>1 DEF TaskInv, MarkedIsClosed
    <2>8. ASSUME "retry" \in workload PROVE OneCarrier(t)'
      <3>1. ToSend' \subseteq ToSend /\ dispatch.task \in ToSend /\ dispatch.task \notin ToSend'
        BY <1>0, <1>2, <1>3, PartFacts DEF ToSend
      <3>2. ToResend' = ToResend /\ OneCarrier(t)
        BY <1>0, <2>1, <2>8, PartFacts DEF TaskInv
      <3>3. CASE t # dispatch.task
        BY <1>0, <1>1, <1>2, <2>3, <3>1, <3>2, <3>3 DEF OneCarrier, Idle
      <3>4. CASE t = dispatch.task
        <4>1. Idle(t) /\ t \notin dispatch.failed /\ t \notin Unsaved
          BY <1>0, <2>2, <3>1, <3>2, <3>4 DEF OneCarrier
        <4>2. CASE inbox'[t] = inbox[t]
          BY <1>0, <3>1, <3>2, <3>4, <4>1, <4>2 DEF OneCarrier, Idle
        <4>3. CASE inbox' = [inbox EXCEPT ![dispatch.task] = @ + 1] /\ failed = dispatch.failed
          <5>1. dbStatus[t] \notin Finished /\ t \notin ToResend /\ t \notin call.failed
                /\ ~(call.at \in {"loop", "commit"} /\ t \in call.chosen)
            BY <1>0, <2>8, <3>1, <3>2, <3>4, NoRequestYet
               DEF OneCarrier, NoCall, ToResend, Finished
          <5>. QED
            BY <1>0, <1>2, <2>3, <3>1, <3>2, <3>4, <4>1, <4>3, <5>1 DEF OneCarrier, Idle
        <4>. QED
          BY <1>1, <4>2, <4>3
      <3>. QED
        BY <3>3, <3>4
    <2>. QED
      BY <1>0, <2>4, <2>5, <2>6, <2>7, <2>8 DEF TaskInv
  <1>. QED
    BY <1>4, <1>5, <1>6 DEF Way

\* Behind a part of the batch everything that is still to do lies in the next.
LEMMA NextPartFacts ==
    ASSUME BatchInv, dispatch.at \in {"sent", "markHash"}, NextBatch
    PROVE  /\ DispatchShape'
           /\ dispatch'.at \in {"save", "done"} /\ dispatch'.failed = {}
           /\ Unsaved' = Unsaved /\ ToSend' = ToSend
  <1>1. CASE LastOfBatch = Total
    <2>1. dispatch' = [at |-> "done", from |-> 1, task |-> 1, failed |-> {}]
      BY <1>1 DEF NextBatch, DispatchAt
    <2>2. (LastOfBatch + 1) .. Total = {}
      BY <1>1, PartFacts
    <2>. QED
      BY <2>1, <2>2 DEF DispatchShape, Unsaved, ToSend
  <1>2. CASE LastOfBatch # Total
    <2>1. dispatch' = [at |-> "save", from |-> LastOfBatch + 1, task |-> LastOfBatch + 1,
                       failed |-> {}]
      BY <1>2 DEF NextBatch, DispatchAt
    <2>. QED
      BY <2>1, PartFacts DEF DispatchShape, Unsaved, ToSend
  <1>. QED
    BY <1>1, <1>2

LEMMA MarkRowsWay ==
    ASSUME Way, BatchInv, WorkerTypeOK, RequestsApart, workload \in Workloads,
           MarkRows, UNCHANGED workload
    PROVE  Way'
  <1>0. /\ dispatch.at = "sent" /\ UNCHANGED <<redis, call, inbox, run>>
        /\ dispatch.failed \subseteq Batch
        /\ Unsaved = (LastOfBatch + 1) .. Total /\ ToSend = (LastOfBatch + 1) .. Total
    BY DEF MarkRows, MarkRowsBut, Way, DispatchShape, Unsaved, ToSend
  <1>1. CallShape'
    BY <1>0, NoRetryYet DEF Way, CallShape
  <1>2. call.at # "markHash"
    BY <1>0, NoRetryYet, PartFacts DEF Way, CallShape, CallTypeOK, NoCall
  <1>3. CASE dispatch.failed = {}
    <2>1. NextBatch /\ dbStatus' = dbStatus
      BY <1>3 DEF MarkRows, MarkRowsBut, dbVars
    <2>2. /\ DispatchShape' /\ dispatch'.at \in {"save", "done"} /\ dispatch'.failed = {}
          /\ Unsaved' = Unsaved /\ ToSend' = ToSend /\ ToResend' = ToResend
      BY <1>0, <2>1, NextPartFacts, PartFacts
    <2>3. ASSUME NEW t \in Tasks PROVE TaskInv(t)'
      <3>1. TaskInv(t) /\ ~AwaitsSend(t)
        BY <1>0, <1>3 DEF Way, AwaitsSend
      <3>2. Held(t)' /\ HashFollows(t)' /\ MarkedIsClosed(t)'
        BY <1>0, <1>2, <2>1, <2>2, <3>1, PartFacts DEF TaskInv, Held, HashFollows, MarkedIsClosed
      <3>3. ASSUME "retry" \in workload PROVE OneCarrier(t)'
        BY <1>0, <2>1, <2>2, <3>1, <3>3 DEF TaskInv, OneCarrier, Idle
      <3>. QED
        BY <1>0, <2>1, <2>2, <3>1, <3>2, <3>3 DEF TaskInv, Unknown, Idle
    <2>. QED
      BY <1>1, <2>2, <2>3 DEF Way
  <1>4. CASE dispatch.failed # {}
    <2>1. /\ dispatch' = [dispatch EXCEPT !.at = "markHash"]
          /\ \A t \in Tasks : dbStatus'[t] = IF t \in dispatch.failed /\ dbStatus[t] # "absent"
                                            THEN "failed" ELSE dbStatus[t]
      BY <1>0, <1>4 DEF MarkRows, MarkRowsBut, CloseRows
    <2>2. /\ dispatch'.at = "markHash" /\ dispatch'.from = dispatch.from
          /\ dispatch'.failed = dispatch.failed
      BY <2>1, PartFacts DEF DispatchTypeOK
    <2>3. LastOfBatch' = LastOfBatch /\ Batch' = Batch
      BY <2>2, PartFacts DEF Batch
    <2>4. Unsaved' = Unsaved /\ ToSend' = ToSend /\ ToResend' = ToResend
      BY <1>0, <2>2, <2>3, PartFacts DEF Unsaved, ToSend
    <2>5. DispatchShape'
      BY <1>0, <1>4, <2>2, <2>3 DEF DispatchShape
    <2>6. ASSUME NEW t \in Tasks PROVE TaskInv(t)'
      <3>1. TaskInv(t)
        BY DEF Way
      <3>2. dbStatus'[t] = "pending" => dbStatus[t] = "pending" /\ ~AwaitsSend(t)
        BY <1>0, <2>1 DEF AwaitsSend
      <3>3. Held(t)' /\ HashFollows(t)'
        BY <1>0, <3>1, <3>2, PartFacts DEF TaskInv, Held, HashFollows
      <3>4. MarkedIsClosed(t)'
        BY <1>0, <1>2, <2>1, <2>2 DEF MarkedIsClosed
      <3>5. ASSUME "retry" \in workload PROVE OneCarrier(t)'
        <4>1. OneCarrier(t) /\ call = NoCall
          BY <1>0, <3>1, <3>5, NoRequestYet DEF TaskInv
        <4>2. t \in ToSend => t \notin dispatch.failed
          BY <1>0, PartFacts DEF Batch
        <4>3. dbStatus'[t] \in Finished => Idle(t)
          BY <2>1, <4>1 DEF OneCarrier
        <4>4. t \notin ToResend
          BY <4>1 DEF NoCall, ToResend
        <4>. QED
          BY <1>0, <2>1, <2>2, <2>4, <4>1, <4>2, <4>3, <4>4 DEF OneCarrier, Idle, NoCall
      <3>6. t \in Unsaved => t \notin dispatch.failed
        BY <1>0, PartFacts DEF Batch
      <3>7. t \in Unsaved' => Unknown(t)'
        BY <1>0, <2>1, <2>4, <3>1, <3>6 DEF TaskInv, Unknown, Idle
      <3>. QED
        BY <3>3, <3>4, <3>5, <3>7 DEF TaskInv
    <2>. QED
      BY <1>1, <2>5, <2>6 DEF Way
  <1>. QED
    BY <1>3, <1>4

LEMMA LeastIsIn ==
    ASSUME NEW S, S \subseteq Nat, S # {}
    PROVE  Min(S) \in S
  <1>. DEFINE R == {ss \in Nat \X Nat : ss[1] < ss[2]}
  <1>1. IsWellFoundedOn(R, Nat)
    BY NatLessThanWellFounded DEF OpToRel
  <1>. HIDE DEF R
  <1>2. PICK x \in S : \A y \in S : ~(<<y, x>> \in R)
    BY <1>1, WFMin
  <1>3. ASSUME NEW y \in S PROVE x <= y
    <2>1. x \in Nat /\ y \in Nat
      OBVIOUS
    <2>2. y < x => <<y, x>> \in R
      BY <2>1, Zenon DEF R
    <2>. QED
      BY <1>2, <2>1, <2>2
  <1>. QED
    BY <1>2, <1>3 DEF Min

LEMMA MarkHashWay ==
    ASSUME Way, BatchInv, WorkerTypeOK, RequestsApart, workload \in Workloads,
           MarkHash, UNCHANGED workload
    PROVE  Way'
  <1>0. /\ dispatch.at = "markHash" /\ UNCHANGED <<dbStatus, call, inbox, run>>
        /\ dispatch.failed \subseteq Batch /\ dispatch.failed # {}
        /\ Unsaved = (LastOfBatch + 1) .. Total /\ ToSend = (LastOfBatch + 1) .. Total
    BY DEF MarkHash, dbVars, Way, DispatchShape, Unsaved, ToSend
  <1>1. CallShape'
    BY <1>0, NoRetryYet DEF Way, CallShape
  <1>2. call.at # "markHash"
    BY <1>0, NoRetryYet, PartFacts DEF Way, CallShape, CallTypeOK, NoCall
  <1>. DEFINE m == Min(dispatch.failed)
  <1>3. m \in dispatch.failed
    BY <1>0, PartFacts, LeastIsIn DEF DispatchTypeOK
  <1>4. /\ redis' = [redis EXCEPT ![m] = "failed"]
        /\ IF dispatch.failed = {m} THEN NextBatch
           ELSE dispatch' = [dispatch EXCEPT !.failed = @ \ {m}]
    BY DEF MarkHash, SetRedis
  <1>. HIDE DEF m
  <1>5. /\ DispatchShape' /\ Unsaved' = Unsaved /\ ToSend' = ToSend /\ ToResend' = ToResend
        /\ dispatch'.at \in {"save", "done", "markHash"} /\ dispatch'.failed \subseteq dispatch.failed
    <2>1. CASE dispatch.failed = {m}
      BY <1>0, <1>4, <2>1, NextPartFacts, PartFacts
    <2>2. CASE dispatch.failed # {m}
      <3>1. /\ dispatch'.at = "markHash" /\ dispatch'.from = dispatch.from
            /\ dispatch'.failed = dispatch.failed \ {m}
        BY <1>0, <1>4, <2>2, PartFacts DEF DispatchTypeOK
      <3>2. LastOfBatch' = LastOfBatch /\ Batch' = Batch
        BY <3>1, PartFacts DEF Batch
      <3>. QED
        BY <1>0, <1>3, <2>2, <3>1, <3>2, PartFacts DEF DispatchShape, Unsaved, ToSend
    <2>. QED
      BY <2>1, <2>2
  <1>6. ASSUME NEW t \in Tasks PROVE TaskInv(t)'
    <2>1. TaskInv(t) /\ ~AwaitsSend(t)
      BY <1>0 DEF Way, AwaitsSend
    <2>2. t = m => dbStatus[t] # "pending" /\ t \notin Unsaved
      BY <1>0, <1>3, <2>1, PartFacts DEF TaskInv, MarkedIsClosed, Batch
    <2>3. t # m => redis'[t] = redis[t]
      BY <1>4 DEF WorkerTypeOK
    <2>4. t \in Unsaved' => Unknown(t)'
      BY <1>0, <1>5, <2>1, <2>2, <2>3 DEF TaskInv, Unknown, Idle
    <2>5. Held(t)' /\ HashFollows(t)' /\ MarkedIsClosed(t)'
      BY <1>0, <1>2, <1>5, <2>1, <2>2, <2>3, PartFacts
         DEF TaskInv, Held, HashFollows, MarkedIsClosed
    <2>6. ASSUME "retry" \in workload PROVE OneCarrier(t)'
      <3>1. OneCarrier(t) /\ call = NoCall
        BY <1>0, <2>1, <2>6, NoRequestYet DEF TaskInv
      <3>. QED
        BY <1>0, <1>5, <3>1 DEF OneCarrier, Idle, NoCall
    <2>. QED
      BY <1>0, <2>4, <2>5, <2>6 DEF TaskInv
  <1>. QED
    BY <1>1, <1>5, <1>6 DEF Way

\* What a request does leaves the background task as it is.
LEMMA DispatchStays ==
    ASSUME UNCHANGED <<dispatch, workload>>
    PROVE  /\ DispatchShape => DispatchShape'
           /\ LastOfBatch' = LastOfBatch /\ Batch' = Batch
           /\ Unsaved' = Unsaved /\ ToSend' = ToSend
           /\ \A t : AwaitsSend(t)' <=> AwaitsSend(t)
           /\ dispatch.at = "done" => /\ Unsaved = {} /\ ToSend = {}
                                      /\ \A t : ~AwaitsSend(t)
  BY DEF DispatchShape, LastOfBatch, Batch, Total, Unsaved, ToSend, AwaitsSend

LEMMA CancelBatchWay ==
    ASSUME Way, BatchInv, WorkerTypeOK, RequestsApart, workload \in Workloads,
           CancelBatch, UNCHANGED workload
    PROVE  Way'
  <1>0. /\ UNCHANGED <<dbStatus, redis, inbox, run, dispatch, workload>>
        /\ call = NoCall /\ "cancel" \in workload /\ "retry" \notin workload
    BY DEF CancelBatch, storeVars, dbVars, RequestsApart
  <1>1. PICK chosen \in SUBSET Tasks :
            /\ \A t \in chosen : dbStatus[t] = "pending"
            /\ call' = [at |-> "loop", op |-> "cancel", todo |-> chosen, chosen |-> chosen,
                        failed |-> {}, unwritten |-> {}]
    BY DEF CancelBatch, Listed, Enter
  <1>2. DispatchShape' /\ CallShape'
    BY <1>0, <1>1, DispatchStays DEF Way, CallShape
  <1>3. ASSUME NEW t \in Tasks PROVE TaskInv(t)'
    <2>1. TaskInv(t) /\ ~AwaitsCancel(t) /\ ~AwaitsResend(t)
      BY <1>0 DEF Way, AwaitsCancel, AwaitsResend, NoCall
    <2>2. t \in Unsaved' => Unknown(t)'
      BY <1>0, <1>1, <2>1, DispatchStays DEF TaskInv, Unknown, Idle
    <2>3. Held(t)' /\ HashFollows(t)' /\ MarkedIsClosed(t)'
      BY <1>0, <1>1, <2>1, DispatchStays DEF TaskInv, Held, HashFollows, MarkedIsClosed
    <2>. QED
      BY <1>0, <2>2, <2>3 DEF TaskInv
  <1>. QED
    BY <1>2, <1>3 DEF Way

LEMMA RetryBatchWay ==
    ASSUME Way, BatchInv, WorkerTypeOK, RequestsApart, workload \in Workloads,
           RetryBatch, UNCHANGED workload
    PROVE  Way'
  <1>0. /\ UNCHANGED <<dbStatus, redis, inbox, run, dispatch, workload>>
        /\ call = NoCall /\ "retry" \in workload /\ dispatch.at = "done"
    BY DEF RetryBatch, storeVars, dbVars, RequestsApart, Way, DispatchShape
  <1>1. PICK chosen \in SUBSET Tasks :
            /\ \A t \in chosen : dbStatus[t] \in Finished
            /\ call' = [at |-> "loop", op |-> "retry", todo |-> chosen, chosen |-> chosen,
                        failed |-> {}, unwritten |-> {}]
    BY DEF RetryBatch, Listed, Enter, Finished
  <1>2. DispatchShape' /\ CallShape'
    BY <1>0, <1>1, DispatchStays DEF Way, CallShape
  <1>3. ASSUME NEW t \in Tasks PROVE TaskInv(t)'
    <2>1. TaskInv(t) /\ ~AwaitsCancel(t) /\ ~AwaitsResend(t) /\ ~AwaitsSend(t)
      BY <1>0, DispatchStays DEF Way, AwaitsCancel, AwaitsResend, NoCall
    <2>2. Unsaved' = {} /\ ToSend' = {} /\ ToResend' = {}
      BY <1>0, <1>1, DispatchStays DEF ToResend
    <2>3. Held(t)' /\ HashFollows(t)' /\ MarkedIsClosed(t)'
      BY <1>0, <1>1, <2>1 DEF TaskInv, Held, HashFollows, MarkedIsClosed
    <2>4. OneCarrier(t)'
      BY <1>0, <1>1, <2>1, <2>2 DEF TaskInv, OneCarrier, Idle
    <2>. QED
      BY <2>2, <2>3, <2>4 DEF TaskInv
  <1>. QED
    BY <1>2, <1>3 DEF Way

\* Where a request can be, by what it is.
LEMMA CallFacts ==
    ASSUME Way, BatchInv, call.at # "idle"
    PROVE  /\ call \in [at : {"loop", "commit", "send", "sent", "markHash"},
                        op : {"cancel", "retry"},
                        todo : SUBSET Tasks, chosen : SUBSET Tasks, failed : SUBSET Tasks,
                        unwritten : SUBSET Tasks]
           /\ call.unwritten = {}
           /\ call.op = "cancel" => call.at \in {"loop", "commit"} /\ "cancel" \in workload
           /\ call.op = "retry" => dispatch.at = "done" /\ "retry" \in workload
           /\ call.todo \subseteq call.chosen /\ call.failed \subseteq call.chosen
           /\ call.at = "commit" => call.todo = {}
           /\ call.at \in {"loop", "commit"} => call.failed = {}
           /\ call.at = "send" => call.todo \cap call.failed = {}
  BY DEF Way, CallShape, NoCall, BatchInv, CallTypeOK

LEMMA CallLoopWay ==
    ASSUME Way, BatchInv, WorkerTypeOK, RequestsApart, workload \in Workloads,
           CallLoop, UNCHANGED workload
    PROVE  Way'
  <1>0. UNCHANGED <<dbStatus, inbox, run, dispatch, workload>> /\ call.at = "loop"
    BY DEF CallLoop, dbVars
  <1>1. PICK u \in call.todo :
            /\ redis' = [redis EXCEPT ![u] = IF call.op = "cancel" THEN "cancelled" ELSE "pending"]
            /\ call' = [call EXCEPT !.todo = @ \ {u},
                                    !.at = IF call.todo = {u} THEN "commit" ELSE "loop",
                                    !.unwritten = call.unwritten]
    BY DEF CallLoop, NextOfLoop, SetRedis
  <1>2. /\ call'.unwritten = {}
        /\ call'.at \in {"loop", "commit"} /\ (call'.at = "commit" => call'.todo = {})
        /\ call'.op = call.op /\ call'.chosen = call.chosen /\ call'.failed = {}
        /\ call'.todo = call.todo \ {u} /\ u \in call.chosen
    BY <1>0, <1>1, CallFacts
  <1>3. DispatchShape' /\ CallShape'
    BY <1>0, <1>2, CallFacts, DispatchStays DEF Way, CallShape
  <1>4. ASSUME NEW t \in Tasks PROVE TaskInv(t)'
    <2>1. /\ TaskInv(t) /\ ~AwaitsResend(t) /\ (AwaitsCancel(t)' <=> AwaitsCancel(t))
          /\ t # u => redis'[t] = redis[t]
          /\ t = u => \/ call.op = "cancel" /\ redis'[t] = "cancelled"
                      \/ call.op = "retry" /\ redis'[t] = "pending"
      <3>1. TaskInv(t) /\ ~AwaitsResend(t) /\ (AwaitsCancel(t)' <=> AwaitsCancel(t))
        BY <1>0, <1>2 DEF Way, AwaitsCancel, AwaitsResend
      <3>2. call.op \in {"cancel", "retry"}
        BY <1>0, CallFacts
      <3>3. t # u => redis'[t] = redis[t]
        BY <1>1 DEF WorkerTypeOK
      <3>4. t = u => redis'[t] = IF call.op = "cancel" THEN "cancelled" ELSE "pending"
        BY <1>1 DEF WorkerTypeOK
      <3>5. t = u => \/ call.op = "cancel" /\ redis'[t] = "cancelled"
                     \/ call.op = "retry" /\ redis'[t] = "pending"
        BY <3>2, <3>4
      <3>. QED
        BY <3>1, <3>3, <3>5
    <2>2. t \in Unsaved' => Unknown(t)'
      BY <1>0, <1>2, <2>1, DispatchStays DEF TaskInv, Unknown, Idle
    <2>3. Held(t)' /\ MarkedIsClosed(t)'
      BY <1>0, <1>2, <2>1, DispatchStays DEF TaskInv, Held, MarkedIsClosed
    <2>4. HashFollows(t)'
      <3>1. CASE t = u
        BY <1>0, <1>2, <2>1, <3>1 DEF HashFollows, AwaitsCancel, Skipped, Finished
      <3>2. CASE t # u
        BY <1>0, <2>1, <3>2 DEF TaskInv, HashFollows
      <3>. QED
        BY <3>1, <3>2
    <2>5. ASSUME "retry" \in workload PROVE OneCarrier(t)'
      <3>1. OneCarrier(t) /\ call.op = "retry"
        BY <1>0, <2>1, <2>5, CallFacts DEF TaskInv, RequestsApart
      <3>2. ToSend' = {} /\ ToResend' = {}
        BY <1>0, <1>2, <3>1, CallFacts, DispatchStays DEF ToResend
      <3>. QED
        BY <1>0, <1>2, <2>1, <3>1, <3>2 DEF OneCarrier, Idle
    <2>. QED
      BY <1>0, <2>2, <2>3, <2>4, <2>5 DEF TaskInv
  <1>. QED
    BY <1>3, <1>4 DEF Way

LEMMA CallCommitWay ==
    ASSUME Way, BatchInv, WorkerTypeOK, RequestsApart, workload \in Workloads,
           CallCommit, UNCHANGED workload
    PROVE  Way'
  <1>0. UNCHANGED <<redis, inbox, run, dispatch, workload>> /\ call.at = "commit"
    BY DEF CallCommit
  <1>1. CASE call.op = "cancel"
    <2>1. /\ call' = NoCall /\ "retry" \notin workload
          /\ \A t \in Tasks : dbStatus'[t] = IF t \in call.chosen /\ dbStatus[t] # "absent"
                                            THEN "cancelled" ELSE dbStatus[t]
      BY <1>0, <1>1, CallFacts DEF CallCommit, CloseRows, RequestsApart
    <2>2. DispatchShape' /\ CallShape'
      BY <1>0, <2>1, DispatchStays DEF Way, CallShape, NoCall
    <2>3. ASSUME NEW t \in Tasks PROVE TaskInv(t)'
      <3>1. TaskInv(t) /\ ~AwaitsResend(t)
        BY <1>0 DEF Way, AwaitsResend
      <3>2. dbStatus'[t] = "pending" => dbStatus[t] = "pending" /\ ~AwaitsCancel(t)
        BY <2>1 DEF AwaitsCancel
      <3>3. Held(t)' /\ HashFollows(t)' /\ MarkedIsClosed(t)'
        BY <1>0, <2>1, <3>1, <3>2, DispatchStays
           DEF TaskInv, Held, HashFollows, MarkedIsClosed, NoCall
      <3>4. t \in Unsaved' => Unknown(t)'
        BY <1>0, <2>1, <3>1, DispatchStays DEF TaskInv, Unknown, Idle, NoCall
      <3>. QED
        BY <1>0, <2>1, <3>3, <3>4 DEF TaskInv
    <2>. QED
      BY <2>2, <2>3 DEF Way
  <1>2. CASE call.op = "retry"
    <2>1. /\ call' = [call EXCEPT !.at = "send", !.todo = call.chosen]
          /\ \A t \in Tasks : dbStatus'[t] = IF t \in call.chosen THEN "pending" ELSE dbStatus[t]
      BY <1>0, <1>2, CallFacts DEF CallCommit, ReopenRows
    <2>2. /\ call'.at = "send" /\ call'.op = "retry" /\ call'.todo = call.chosen
          /\ call'.chosen = call.chosen /\ call'.failed = {} /\ call.todo = {}
          /\ call'.unwritten = {}
          /\ dispatch.at = "done" /\ "retry" \in workload
      BY <1>0, <1>2, <2>1, CallFacts
    <2>3. DispatchShape' /\ CallShape'
      BY <1>0, <2>2, CallFacts, DispatchStays DEF Way, CallShape
    <2>4. Unsaved' = {} /\ ToSend' = {} /\ ToResend' = call.chosen
      BY <1>0, <2>2, DispatchStays DEF ToResend
    <2>5. ASSUME NEW t \in Tasks PROVE TaskInv(t)'
      <3>1. TaskInv(t) /\ OneCarrier(t) /\ ~AwaitsSend(t) /\ ~AwaitsCancel(t) /\ ~AwaitsResend(t)
        BY <1>0, <1>2, <2>2, DispatchStays DEF Way, TaskInv, AwaitsCancel, AwaitsResend
      <3>2. CASE t \in call.chosen
        <4>1. redis[t] = "pending" /\ Idle(t) /\ dbStatus'[t] = "pending"
          BY <1>0, <2>1, <2>2, <3>1, <3>2 DEF OneCarrier
        <4>2. Held(t)' /\ HashFollows(t)' /\ MarkedIsClosed(t)'
          BY <1>0, <2>2, <3>2, <4>1
             DEF Held, HashFollows, MarkedIsClosed, AwaitsResend, Skipped, Finished
        <4>3. OneCarrier(t)'
          BY <1>0, <2>2, <2>4, <3>1, <3>2, <4>1 DEF OneCarrier, Idle, Finished
        <4>. QED
          BY <2>4, <4>2, <4>3 DEF TaskInv
      <3>3. CASE t \notin call.chosen
        <4>1. dbStatus'[t] = dbStatus[t]
          BY <2>1, <3>3
        <4>2. Held(t)' /\ HashFollows(t)' /\ MarkedIsClosed(t)'
          BY <1>0, <2>2, <3>1, <4>1 DEF TaskInv, Held, HashFollows, MarkedIsClosed
        <4>3. OneCarrier(t)'
          BY <1>0, <2>2, <2>4, <3>1, <3>3, <4>1 DEF OneCarrier, Idle
        <4>. QED
          BY <2>4, <4>2, <4>3 DEF TaskInv
      <3>. QED
        BY <3>2, <3>3
    <2>. QED
      BY <2>3, <2>5 DEF Way
  <1>. QED
    BY <1>0, <1>1, <1>2, CallFacts

LEMMA CallSendWay ==
    ASSUME Way, BatchInv, WorkerTypeOK, RequestsApart, workload \in Workloads,
           CallSend, UNCHANGED workload
    PROVE  Way'
  <1>0. /\ UNCHANGED <<dbStatus, redis, run, dispatch, workload>> /\ call.at = "send"
        /\ call.op = "retry" /\ dispatch.at = "done" /\ "retry" \in workload
        /\ call.todo \cap call.failed = {}
    BY CallFacts DEF CallSend, storeVars, dbVars
  <1>1. PICK u \in call.todo, refused \in BOOLEAN :
            /\ IF refused THEN Refuse ELSE Deliver(u)
            /\ call' = [call EXCEPT
                           !.todo = @ \ {u},
                           !.failed = IF refused THEN @ \cup {u} ELSE @,
                           !.at = IF call.todo = {u} THEN "sent" ELSE "send"]
    BY DEF CallSend
  <1>2. /\ call'.op = "retry" /\ call'.chosen = call.chosen /\ call'.todo = call.todo \ {u}
        /\ call'.failed = IF refused THEN call.failed \cup {u} ELSE call.failed
        /\ call'.at = IF call.todo = {u} THEN "sent" ELSE "send"
        /\ u \in call.chosen /\ call'.unwritten = {}
    BY <1>0, <1>1, CallFacts
  <1>3. DispatchShape' /\ CallShape'
    BY <1>0, <1>2, CallFacts, DispatchStays DEF Way, CallShape
  <1>4. Unsaved' = {} /\ ToSend' = {} /\ ToResend' = call'.todo /\ ToResend = call.todo
    BY <1>0, <1>2, DispatchStays DEF ToResend
  <1>5. ASSUME NEW t \in Tasks PROVE TaskInv(t)'
    <2>1. TaskInv(t) /\ OneCarrier(t) /\ ~AwaitsSend(t) /\ ~AwaitsCancel(t)
      BY <1>0, DispatchStays DEF Way, TaskInv, AwaitsCancel
    <2>2. /\ inbox[t] \in Nat
          /\ t # u => inbox'[t] = inbox[t]
          /\ t = u => IF refused THEN inbox'[t] = inbox[t] ELSE inbox'[t] = inbox[t] + 1
      BY <1>1 DEF Deliver, Refuse, WorkerTypeOK
    <2>3. Held(t)'
      <3>1. CASE t = u
        BY <1>2, <2>2, <3>1 DEF Held, AwaitsResend
      <3>2. CASE t # u
        BY <1>0, <1>2, <2>1, <2>2, <3>2 DEF TaskInv, Held, AwaitsResend
      <3>. QED
        BY <3>1, <3>2
    <2>4. HashFollows(t)' /\ MarkedIsClosed(t)'
      BY <1>0, <1>2, <2>1 DEF TaskInv, HashFollows, MarkedIsClosed
    <2>5. OneCarrier(t)'
      <3>1. CASE t = u
        <4>1. /\ Idle(t) /\ dbStatus[t] \in {"absent", "pending"} /\ t \notin call.failed
              /\ t \notin dispatch.failed
          BY <1>0, <1>4, <2>1, <3>1 DEF OneCarrier, Way, DispatchShape
        <4>2. t \notin ToSend' /\ t \notin ToResend' /\ call'.at \notin {"loop", "commit"}
              /\ dbStatus'[t] \notin Finished
          BY <1>0, <1>2, <1>4, <3>1, <4>1 DEF Finished
        <4>3. CASE refused
          BY <1>0, <2>2, <3>1, <4>1, <4>2, <4>3 DEF OneCarrier, Idle
        <4>4. CASE ~refused
          BY <1>0, <1>2, <2>2, <3>1, <4>1, <4>2, <4>4 DEF OneCarrier, Idle
        <4>. QED
          BY <4>3, <4>4
      <3>2. CASE t # u
        BY <1>0, <1>2, <1>4, <2>1, <2>2, <3>2 DEF OneCarrier, Idle
      <3>. QED
        BY <3>1, <3>2
    <2>. QED
      BY <1>4, <2>3, <2>4, <2>5 DEF TaskInv
  <1>. QED
    BY <1>3, <1>5 DEF Way

LEMMA CallMarkRowsWay ==
    ASSUME Way, BatchInv, WorkerTypeOK, RequestsApart, workload \in Workloads,
           CallMarkRows, UNCHANGED workload
    PROVE  Way'
  <1>0. /\ UNCHANGED <<redis, inbox, run, dispatch, workload>> /\ call.at = "sent"
        /\ call.op = "retry" /\ dispatch.at = "done" /\ "retry" \in workload
        /\ \A t \in Tasks : dbStatus'[t] = IF t \in call.failed /\ dbStatus[t] # "absent"
                                          THEN "failed" ELSE dbStatus[t]
    BY CallFacts DEF CallMarkRows, CallMarkRowsBut, CloseRows
  <1>1. \/ call' = NoCall
        \/ call' = [call EXCEPT !.at = "markHash", !.todo = call.failed]
    BY DEF CallMarkRows, CallMarkRowsBut
  <1>2. /\ call'.at \in {"idle", "markHash"} /\ call'.failed \subseteq call.failed
        /\ call'.todo \subseteq call.failed
        /\ call' # NoCall =>
              /\ call'.at = "markHash" /\ call'.op = "retry" /\ call'.chosen = call.chosen
              /\ call'.failed = call.failed /\ call'.todo = call.failed
              /\ call'.unwritten = {}
    <2>1. CASE call' = NoCall
      BY <2>1 DEF NoCall
    <2>2. CASE call' = [call EXCEPT !.at = "markHash", !.todo = call.failed]
      <3>1. /\ call'.at = "markHash" /\ call'.op = "retry" /\ call'.chosen = call.chosen
            /\ call'.failed = call.failed /\ call'.todo = call.failed
            /\ call'.unwritten = {}
        BY <1>0, <2>2, CallFacts
      <3>. QED
        BY <3>1
    <2>. QED
      BY <1>1, <2>1, <2>2
  <1>3. DispatchShape' /\ CallShape'
    <2>1. CASE call' = NoCall
      BY <1>0, <2>1, DispatchStays DEF Way, CallShape, NoCall
    <2>2. CASE call' # NoCall
      BY <1>0, <1>2, <2>2, CallFacts, DispatchStays DEF Way, CallShape
    <2>. QED
      BY <2>1, <2>2
  <1>4. Unsaved' = {} /\ ToSend' = {} /\ ToResend' = {}
    BY <1>0, <1>2, DispatchStays DEF ToResend
  <1>5. ASSUME NEW t \in Tasks PROVE TaskInv(t)'
    <2>1. TaskInv(t) /\ OneCarrier(t) /\ ~AwaitsSend(t) /\ ~AwaitsCancel(t)
      BY <1>0, DispatchStays DEF Way, TaskInv, AwaitsCancel
    <2>2. dbStatus'[t] = "pending" => dbStatus[t] = "pending" /\ ~AwaitsResend(t)
      BY <1>0 DEF AwaitsResend
    <2>3. Held(t)' /\ HashFollows(t)'
      BY <1>0, <2>1, <2>2 DEF TaskInv, Held, HashFollows
    <2>4. MarkedIsClosed(t)'
      BY <1>0, <1>2 DEF MarkedIsClosed
    <2>5. OneCarrier(t)'
      BY <1>0, <1>2, <1>4, <2>1 DEF OneCarrier, Idle
    <2>. QED
      BY <1>4, <2>3, <2>4, <2>5 DEF TaskInv
  <1>. QED
    BY <1>3, <1>5 DEF Way

LEMMA CallMarkHashWay ==
    ASSUME Way, BatchInv, WorkerTypeOK, RequestsApart, workload \in Workloads,
           CallMarkHash, UNCHANGED workload
    PROVE  Way'
  <1>0. /\ UNCHANGED <<dbStatus, inbox, run, dispatch, workload>> /\ call.at = "markHash"
        /\ call.op = "retry" /\ dispatch.at = "done" /\ "retry" \in workload
    BY CallFacts DEF CallMarkHash, dbVars
  <1>1. PICK u \in call.todo :
            /\ redis' = [redis EXCEPT ![u] = "failed"]
            /\ call' = NoCall \/ call' = [call EXCEPT !.todo = @ \ {u}]
    BY DEF CallMarkHash, SetRedis
  <1>2. /\ call'.at \in {"idle", "markHash"} /\ call'.failed \subseteq call.failed
        /\ call'.todo \subseteq call.todo
        /\ call' # NoCall =>
              /\ call'.at = "markHash" /\ call'.op = "retry" /\ call'.chosen = call.chosen
              /\ call'.unwritten = {}
    BY <1>0, <1>1, CallFacts DEF NoCall
  <1>3. DispatchShape' /\ CallShape'
    <2>1. CASE call' = NoCall
      BY <1>0, <2>1, DispatchStays DEF Way, CallShape, NoCall
    <2>2. CASE call' # NoCall
      BY <1>0, <1>2, <2>2, CallFacts, DispatchStays DEF Way, CallShape
    <2>. QED
      BY <2>1, <2>2
  <1>4. Unsaved' = {} /\ ToSend' = {} /\ ToResend' = {}
    BY <1>0, <1>2, DispatchStays DEF ToResend
  <1>5. ASSUME NEW t \in Tasks PROVE TaskInv(t)'
    <2>1. /\ TaskInv(t) /\ OneCarrier(t)
          /\ ~AwaitsSend(t) /\ ~AwaitsCancel(t) /\ ~AwaitsResend(t)
      BY <1>0, DispatchStays DEF Way, TaskInv, AwaitsCancel, AwaitsResend
    <2>2. /\ t # u => redis'[t] = redis[t]
          /\ t = u => dbStatus[t] # "pending"
      BY <1>0, <1>1, <2>1 DEF TaskInv, MarkedIsClosed, WorkerTypeOK
    <2>3. Held(t)' /\ HashFollows(t)' /\ MarkedIsClosed(t)'
      BY <1>0, <1>2, <2>1, <2>2 DEF TaskInv, Held, HashFollows, MarkedIsClosed
    <2>4. OneCarrier(t)'
      BY <1>0, <1>2, <1>4, <2>1 DEF OneCarrier, Idle
    <2>. QED
      BY <1>4, <2>3, <2>4 DEF TaskInv
  <1>. QED
    BY <1>3, <1>5 DEF Way

LEMMA InitWay ==
    ASSUME BatchInit
    PROVE  WayInv
  <1>1. BatchInv
    BY BatchInitInv
  <1>2. /\ dispatch = [at |-> "save", from |-> 1, task |-> 1, failed |-> {}] /\ call = NoCall
        /\ workload \in Workloads /\ Unsaved = 1 .. Total /\ ToResend = {}
        /\ \A t \in Tasks : /\ dbStatus[t] = "absent" /\ redis[t] = "absent"
                            /\ inbox[t] = 0 /\ run[t] = "idle"
    BY DEF BatchInit, StoresInit, DispatchAt, NoCall, Unsaved, ToResend
  <1>3. WorkerTypeOK
    BY DEF BatchInit, StoresInit, WorkerTypeOK, Status
  <1>4. DispatchShape /\ CallShape
    BY <1>2 DEF DispatchShape, CallShape, NoCall
  <1>5. ASSUME NEW t \in Tasks PROVE TaskInv(t)
    BY <1>2 DEF TaskInv, Unknown, Idle, Held, HashFollows, MarkedIsClosed, OneCarrier, NoCall,
                Skipped, Finished
  <1>. QED
    BY <1>1, <1>2, <1>3, <1>4, <1>5 DEF WayInv, Way

LEMMA StepWay ==
    ASSUME WayInv, RequestsApart, [BatchNext]_batchVars
    PROVE  WayInv'
  <1>1. BatchInv' /\ WorkerTypeOK'
    BY BatchStepInv, WayTypes DEF WayInv
  <1>2. workload' = workload /\ workload' \in Workloads
    BY DEF BatchNext, batchVars, WayInv
  <1>3. ASSUME ~troubled' PROVE Way'
    <2>1. CASE \/ DispatchRaises \/ CallRaises \/ MasterDies
               \/ MarkRowsUnwritten \/ CallMarkRowsUnwritten \/ CallUpdateFails
      BY <1>3, <2>1 DEF DispatchRaises, CallRaises, MasterDies, MarkRowsUnwritten,
                        CallMarkRowsUnwritten, CallUpdateFails
    <2>2. CASE UNCHANGED batchVars
      <3>1. /\ UNCHANGED <<dbStatus, redis, inbox, run, dispatch, call, workload>>
            /\ UNCHANGED <<dispatch, call, workload>> /\ Way
        BY <1>3, <2>2 DEF batchVars, storeVars, dbVars, WayInv
      <3>2. DispatchShape' /\ CallShape'
        BY <3>1, ShapesStay DEF Way
      <3>3. ASSUME NEW t \in Tasks PROVE TaskInv(t)'
        <4>1. /\ Unsaved' = Unsaved /\ ToSend' = ToSend /\ ToResend' = ToResend
              /\ AwaitsSend(t)' <=> AwaitsSend(t)
              /\ AwaitsCancel(t)' <=> AwaitsCancel(t)
              /\ AwaitsResend(t)' <=> AwaitsResend(t)
          BY <3>1, ShapesStay DEF AwaitsSend, AwaitsCancel, AwaitsResend
        <4>. QED
          BY <3>1, <4>1 DEF Way, TaskInv, Unknown, Held, HashFollows, MarkedIsClosed, OneCarrier,
                            Idle
      <3>. QED
        BY <3>2, <3>3 DEF Way
    <2>3. ASSUME UNCHANGED troubled,
                 DispatchStep \/ CancelBatch \/ RetryBatch \/ CallStep
                   \/ \E t \in Tasks : TaskStep(t)
          PROVE  Way'
      <3>1. Way /\ BatchInv /\ WorkerTypeOK /\ workload \in Workloads /\ UNCHANGED workload
        BY <1>2, <1>3, <2>3 DEF WayInv
      <3>2. CASE DispatchStep
        BY <3>1, <3>2, SaveBatchWay, SeedTaskWay, SendTaskWay, MarkRowsWay, MarkHashWay
           DEF DispatchStep
      <3>3. CASE CancelBatch \/ RetryBatch
        BY <3>1, <3>3, CancelBatchWay, RetryBatchWay
      <3>4. CASE CallStep
        BY <3>1, <3>4, CallLoopWay, CallCommitWay, CallSendWay, CallMarkRowsWay, CallMarkHashWay
           DEF CallStep
      <3>5. CASE \E t \in Tasks : TaskStep(t)
        BY <3>1, <3>5, TaskStepWay
      <3>. QED
        BY <2>3, <3>2, <3>3, <3>4, <3>5
    <2>. QED
      BY <2>1, <2>2, <2>3 DEF BatchNext
  <1>. QED
    BY <1>1, <1>2, <1>3 DEF WayInv

\* A task that somebody will send, run or close is on its way.
LEMMA HeldIsOnItsWay ==
    ASSUME Way, BatchInv
    PROVE  \A t \in Tasks : dbStatus[t] = "pending" => OnItsWay(t)
  <1>. SUFFICES ASSUME NEW t \in Tasks, dbStatus[t] = "pending" PROVE OnItsWay(t)
    OBVIOUS
  <1>1. inbox[t] > 0 \/ run[t] # "idle" \/ AwaitsSend(t) \/ AwaitsCancel(t) \/ AwaitsResend(t)
    BY DEF Way, TaskInv, Held
  <1>2. AwaitsSend(t) => /\ dispatch.at \in {"seed", "send", "sent"} /\ t \in Batch
    BY PartFacts DEF AwaitsSend, Way, DispatchShape, Batch
  <1>3. AwaitsCancel(t) \/ AwaitsResend(t) =>
            call # NoCall /\ t \in call.todo \cup call.chosen \cup call.failed
    BY DEF AwaitsCancel, AwaitsResend, NoCall
  <1>. QED
    BY <1>1, <1>2, <1>3 DEF OnItsWay

(***************************************************************************)
(* Whichever messages Kafka refuses, and wherever process_batch_tasks_     *)
(* async, cancel_batch_tasks, retry_batch_tasks and the workers stand, a   *)
(* task whose row is pending is still to be sent, run or closed by one of  *)
(* them: for batches of any length and part, provided that no retry comes  *)
(* before the dispatch is done and that no batch is both cancelled and     *)
(* retried (with either, TLC shows a task that stays pending for ever).    *)
(***************************************************************************)
THEOREM PendingIsSent == RequestsApart => (BatchSpec => []BatchPendingIsOnItsWay)
  <1>. SUFFICES ASSUME RequestsApart PROVE BatchSpec => []BatchPendingIsOnItsWay
    OBVIOUS
  <1>1. BatchInit => WayInv
    BY InitWay
  <1>2. WayInv /\ [BatchNext]_batchVars => WayInv'
    BY StepWay
  <1>3. WayInv => BatchPendingIsOnItsWay
    BY HeldIsOnItsWay DEF WayInv, BatchPendingIsOnItsWay
  <1>. QED
    BY <1>1, <1>2, <1>3, PTL DEF BatchSpec

=============================================================================
