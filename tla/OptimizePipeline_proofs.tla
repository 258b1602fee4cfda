----------------------- MODULE OptimizePipeline_proofs -----------------------
(* Theorems about OptimizePipeline, for every number of rows, requests,    *)
(* slots and attempts.                                                     *)
EXTENDS OptimizePipeline, JobQueue_proofs

(***************************************************************************)
(* Whatever the API and the worker do, they use the queue as a queue.      *)
(***************************************************************************)
LEMMA NextIsQueueStep == Next => QueueStep \/ UNCHANGED queueVars
<1> SUFFICES ASSUME Next PROVE QueueStep \/ UNCHANGED queueVars
  OBVIOUS
<1>1. ASSUME NEW q \in Job, Admit(q) \/ Handle(q) \/ Die(q)
      PROVE  QueueStep \/ UNCHANGED queueVars
  BY <1>1 DEF Admit, Handle, Die, CheckStatus, Claim, Charge, Enqueue, QueueStep
<1>2. ASSUME NEW r \in Row, DeleteJob(r) PROVE UNCHANGED queueVars
  BY <1>2 DEF DeleteJob
<1>3. ASSUME NEW s \in Slot, Take(s) \/ Process(s) PROVE QueueStep
  <2>1. CASE Take(s)
    BY <2>1 DEF Take, QueueStep
  <2>2. CASE Guard(s)
    BY <2>2 DEF Guard, QueueStep
  <2>3. CASE MarkOptimizing(s)
    BY <2>3 DEF MarkOptimizing, QueueStep
  <2>4. CASE WriteResult(s)
    BY <2>4 DEF WriteResult, QueueStep
  <2>5. CASE Return(s) \/ Fail(s)
    BY <2>5 DEF Return, Fail, QueueStep
  <2>6. QED
    BY <1>3, <2>1, <2>2, <2>3, <2>4, <2>5 DEF Process
<1>4. ASSUME NEW e \in Event, OnFailed(e) PROVE QueueStep
  BY <1>4 DEF OnFailed, QueueStep
<1>5. ASSUME NEW j \in Job, Requeue(j) PROVE QueueStep
  BY <1>5 DEF Requeue, QueueStep
<1>6. CASE WorkerFault
  BY <1>6 DEF WorkerFault, QueueStep
<1>7. QED
  BY <1>1, <1>2, <1>3, <1>4, <1>5, <1>6 DEF Next

(***************************************************************************)
(* The queue's invariant is kept by every step of the pipeline.            *)
(***************************************************************************)
LEMMA QueueInvStep == QueueInv /\ [Next]_vars => QueueInv'
<1>1. ASSUME QueueInv, UNCHANGED queueVars PROVE QueueInv'
  BY <1>1 DEF QueueInv, QueueTypeOK, LocksAreExclusive, queueVars
<1>2. QED
  BY <1>1, NextIsQueueStep, QueueStepInv DEF vars

(***************************************************************************)
(* An UPDATE of a row keeps the columns' types.                            *)
(***************************************************************************)
LEMMA UpdateRowType ==
  ASSUME TypeOK, NEW r \in Row, NEW st \in Status, NEW o \in Job \cup {NoJob},
         NEW f \in BOOLEAN, UpdateRow(r, st, o, f)
  PROVE  /\ status' \in [Row -> Status]
         /\ result' \in [Row -> Job \cup {NoJob}]
         /\ error' \in [Row -> BOOLEAN]
BY DEF TypeOK, UpdateRow, rowVars

(***************************************************************************)
(* Type correctness, with the queue's own invariant.                       *)
(***************************************************************************)
THEOREM TypeCorrect == Spec => [](TypeOK /\ QueueInv)
<1>1. Init => TypeOK /\ QueueInv
  BY QueueInitInv DEF Init, TypeOK, QueueInv, Status, RequestState
<1>2. TypeOK /\ QueueInv /\ [Next]_vars => TypeOK' /\ QueueInv'
  <2> SUFFICES ASSUME TypeOK, QueueInv, [Next]_vars
               PROVE  /\ status' \in [Row -> Status]
                      /\ result' \in [Row -> Job \cup {NoJob}]
                      /\ error' \in [Row -> BOOLEAN]
                      /\ usage' \subseteq Job
                      /\ request' \in [Job -> RequestState]
    BY QueueInvStep DEF TypeOK, QueueInv
  <2> USE OptimizeAssumption
  <2>1. ASSUME NEW q \in Job, Admit(q) \/ CheckStatus(q) \/ Charge(q) \/ Enqueue(q) \/ Die(q)
        PROVE  /\ UNCHANGED rowVars
               /\ usage' \subseteq Job
               /\ request' \in [Job -> RequestState]
    BY <2>1 DEF TypeOK, RequestState, Admit, CheckStatus, Charge, Enqueue, Die, InFlight
  <2>2. ASSUME NEW q \in Job, Claim(q)
        PROVE  /\ UNCHANGED usage
               /\ request' \in [Job -> RequestState]
               /\ UpdateRow(RowOf[q], "pending", result[RowOf[q]], error[RowOf[q]])
    BY <2>2 DEF TypeOK, RequestState, Claim
  <2>3. ASSUME NEW s \in Slot, slots[s].pc # "idle" PROVE WorkRow(s) \in Row
    BY <2>3 DEF WorkRow, TypeOK, QueueTypeOK, SlotRecord
  <2>4. ASSUME NEW q \in Job, Admit(q) \/ Handle(q) \/ Die(q)
        PROVE  /\ status' \in [Row -> Status]
               /\ result' \in [Row -> Job \cup {NoJob}]
               /\ error' \in [Row -> BOOLEAN]
               /\ usage' \subseteq Job
               /\ request' \in [Job -> RequestState]
    <3>1. CASE Claim(q)
      BY <2>2, <3>1, UpdateRowType DEF TypeOK, Status
    <3>2. QED
      BY <2>1, <2>4, <3>1 DEF Handle, TypeOK, rowVars
  <2>5. ASSUME NEW r \in Row, DeleteJob(r)
        PROVE  status' \in [Row -> Status] /\ UNCHANGED <<result, error, apiVars>>
    BY <2>5 DEF DeleteJob, TypeOK, Status
  <2>6. ASSUME NEW s \in Slot, Take(s) \/ Process(s)
        PROVE  /\ status' \in [Row -> Status]
               /\ result' \in [Row -> Job \cup {NoJob}]
               /\ error' \in [Row -> BOOLEAN]
               /\ UNCHANGED apiVars
    <3>1. CASE MarkOptimizing(s)
      <4>1. WorkRow(s) \in Row
        BY <2>3, <3>1 DEF MarkOptimizing, Advance
      <4>2. UpdateRow(WorkRow(s), "optimizing", result[WorkRow(s)], error[WorkRow(s)])
        BY <3>1 DEF MarkOptimizing
      <4>3. QED
        BY <3>1, <4>1, <4>2, UpdateRowType DEF MarkOptimizing, TypeOK, Status
    <3>2. CASE WriteResult(s)
      <4>1. WorkRow(s) \in Row /\ slots[s].job \in Job \cup {NoJob}
        BY <2>3, <3>2 DEF WriteResult, Advance, TypeOK, QueueTypeOK, SlotRecord
      <4>2. UpdateRow(WorkRow(s), "complete", slots[s].job, FALSE)
        BY <3>2 DEF WriteResult
      <4>3. QED
        BY <3>2, <4>1, <4>2, UpdateRowType DEF WriteResult, Status
    <3>3. CASE Take(s) \/ Guard(s) \/ Return(s) \/ Fail(s)
      BY <3>3 DEF Take, Guard, Return, Fail, TypeOK, rowVars
    <3>4. QED
      BY <2>6, <3>1, <3>2, <3>3 DEF Process
  <2>7. ASSUME NEW e \in Event, OnFailed(e)
        PROVE  /\ status' \in [Row -> Status]
               /\ result' \in [Row -> Job \cup {NoJob}]
               /\ error' \in [Row -> BOOLEAN]
               /\ UNCHANGED apiVars
    <3>1. RowOf[e[1]] \in Row
      BY DEF Event
    <3>2. UpdateRow(RowOf[e[1]], "failed", result[RowOf[e[1]]], TRUE)
      BY <2>7 DEF OnFailed
    <3>3. QED
      BY <2>7, <3>1, <3>2, UpdateRowType DEF OnFailed, TypeOK, Status
  <2>8. ASSUME (\E j \in Job : Requeue(j)) \/ WorkerFault \/ UNCHANGED vars
        PROVE  UNCHANGED <<rowVars, apiVars>>
    BY <2>8 DEF Requeue, WorkerFault, vars
  <2>9. QED
    BY <2>4, <2>5, <2>6, <2>7, <2>8 DEF Next, TypeOK, rowVars, apiVars
<1>3. QED
  BY <1>1, <1>2, PTL DEF Spec

(***************************************************************************)
(* What the columns of a row say agrees with its status, in any order of   *)
(* late listeners, redelivered jobs, crashes and new requests.             *)
(***************************************************************************)
THEOREM ColumnsCorrect == Spec => []StatusMatchesColumns
<1>1. Init => StatusMatchesColumns
  BY DEF Init, StatusMatchesColumns
<1>2. ASSUME TypeOK, StatusMatchesColumns, NEW r \in Row,
             UpdateRow(r, "pending", result[r], error[r])
             \/ UpdateRow(r, "optimizing", result[r], error[r])
             \/ UpdateRow(r, "failed", result[r], TRUE)
             \/ \E o \in Job : UpdateRow(r, "complete", o, FALSE)
      PROVE  StatusMatchesColumns'
  BY <1>2, JobQueueAssumption DEF UpdateRow, rowVars, StatusMatchesColumns, TypeOK
<1>3. ASSUME TypeOK, StatusMatchesColumns, [Next]_vars PROVE StatusMatchesColumns'
  <2>1. ASSUME NEW q \in Job, Admit(q) \/ Handle(q) \/ Die(q)
        PROVE  StatusMatchesColumns'
    <3>1. CASE Claim(q)
      BY <1>2, <1>3, <3>1, OptimizeAssumption DEF Claim
    <3>2. CASE UNCHANGED rowVars
      BY <1>3, <3>2 DEF StatusMatchesColumns, rowVars
    <3>3. QED
      BY <2>1, <3>1, <3>2 DEF Handle, Admit, CheckStatus, Charge, Enqueue, Die
  <2>2. ASSUME NEW r \in Row, DeleteJob(r) PROVE StatusMatchesColumns'
    BY <1>3, <2>2 DEF DeleteJob, StatusMatchesColumns, TypeOK
  <2>3. ASSUME NEW s \in Slot, Take(s) \/ Process(s) PROVE StatusMatchesColumns'
    <3>1. ASSUME slots[s].pc # "idle" PROVE slots[s].job \in Job /\ WorkRow(s) \in Row
      BY <1>3, <3>1, OptimizeAssumption DEF WorkRow, TypeOK, QueueTypeOK, SlotRecord
    <3>2. CASE MarkOptimizing(s)
      BY <1>2, <1>3, <3>1, <3>2 DEF MarkOptimizing, Advance
    <3>3. CASE WriteResult(s)
      BY <1>2, <1>3, <3>1, <3>3 DEF WriteResult, Advance
    <3>4. CASE UNCHANGED rowVars
      BY <1>3, <3>4 DEF StatusMatchesColumns, rowVars
    <3>5. QED
      BY <2>3, <3>2, <3>3, <3>4 DEF Process, Take, Guard, Return, Fail
  <2>4. ASSUME NEW e \in Event, OnFailed(e) PROVE StatusMatchesColumns'
    <3>1. RowOf[e[1]] \in Row
      BY OptimizeAssumption DEF Event
    <3>2. QED
      BY <1>2, <1>3, <2>4, <3>1 DEF OnFailed
  <2>5. CASE (\E j \in Job : Requeue(j)) \/ WorkerFault \/ UNCHANGED vars
    BY <1>3, <2>5 DEF Requeue, WorkerFault, vars, rowVars, StatusMatchesColumns
  <2>6. QED
    BY <1>3, <2>1, <2>2, <2>3, <2>4, <2>5 DEF Next
<1>4. QED
  BY <1>1, <1>3, TypeCorrect, PTL DEF Spec

(***************************************************************************)
(* No optimization is enqueued, run or delivered without a usage row of    *)
(* its own.                                                                *)
(***************************************************************************)
THEOREM PaidCorrect == Spec => []EveryJobIsPaidFor
<1>1. Init => Paid
  BY DEF Init, QueueInit, Idle, Paid, EveryJobIsPaidFor
<1>2. ASSUME TypeOK, Paid, [Next]_vars PROVE Paid'
  <2> USE DEF Paid, EveryJobIsPaidFor
  <2>1. ASSUME NEW q \in Job, Admit(q) \/ CheckStatus(q) \/ Charge(q) \/ Die(q)
        PROVE  Paid'
    BY <1>2, <2>1 DEF Admit, CheckStatus, Charge, Die, queueVars, rowVars, TypeOK
  <2>2. ASSUME NEW q \in Job, Claim(q) PROVE Paid'
    BY <1>2, <2>2, OptimizeAssumption DEF Claim, UpdateRow, queueVars, rowVars, TypeOK
  <2>3. ASSUME NEW q \in Job, Enqueue(q) PROVE Paid'
    BY <1>2, <2>3 DEF Enqueue, Add, rowVars, TypeOK, QueueTypeOK
  <2>4. ASSUME NEW r \in Row, DeleteJob(r) PROVE Paid'
    BY <1>2, <2>4 DEF DeleteJob, queueVars, apiVars
  <2>5. ASSUME NEW s \in Slot, Take(s) PROVE Paid'
    BY <1>2, <2>5 DEF Take, Pick, rowVars, apiVars, TypeOK, QueueTypeOK
  <2>6. ASSUME NEW s \in Slot, Guard(s) \/ MarkOptimizing(s) PROVE Paid'
    <3>1. slots[s].pc # "idle" /\ WorkRow(s) \in Row
      BY <1>2, <2>6, OptimizeAssumption
      DEF Guard, MarkOptimizing, Advance, WorkRow, TypeOK, QueueTypeOK, SlotRecord
    <3>2. /\ UNCHANGED <<jobs, usage, request, result>>
          /\ \A t \in Slot : slots'[t].job = slots[t].job
                           /\ (slots'[t].pc # "idle" => slots[t].pc # "idle")
      <4>1. CASE Guard(s)
        BY <1>2, <3>1, <4>1 DEF Guard, Advance, rowVars, apiVars, TypeOK, QueueTypeOK, SlotRecord
      <4>2. CASE MarkOptimizing(s)
        BY <1>2, <3>1, <4>2
        DEF MarkOptimizing, Advance, UpdateRow, rowVars, apiVars, TypeOK, QueueTypeOK, SlotRecord
      <4>3. QED
        BY <2>6, <4>1, <4>2
    <3>3. QED
      BY <1>2, <3>2
  <2>7. ASSUME NEW s \in Slot, WriteResult(s) PROVE Paid'
    BY <1>2, <2>7 DEF WriteResult, Advance, UpdateRow, rowVars, apiVars, TypeOK, QueueTypeOK
  <2>8. ASSUME NEW s \in Slot, Return(s) \/ Fail(s) PROVE Paid'
    <3>1. slots[s].job \in usage
      BY <1>2, <2>8 DEF Return, Fail, Ack, Throw
    <3>2. /\ UNCHANGED <<rowVars, apiVars>>
          /\ \A q \in Job : jobs'[q].state # "new" => jobs[q].state # "new" \/ q = slots[s].job
          /\ \A t \in Slot : slots'[t].pc # "idle" =>
               slots[t].pc # "idle" /\ slots'[t].job = slots[t].job
      BY <1>2, <2>8 DEF Return, Fail, Ack, Throw, Idle, TypeOK, QueueTypeOK
    <3>3. QED
      BY <1>2, <3>1, <3>2 DEF rowVars, apiVars
  <2>9. ASSUME NEW e \in Event, OnFailed(e) PROVE Paid'
    BY <1>2, <2>9, OptimizeAssumption
    DEF OnFailed, Handled, UpdateRow, rowVars, apiVars, TypeOK, Event
  <2>10. ASSUME NEW j \in Job, Requeue(j) PROVE Paid'
    BY <1>2, <2>10 DEF Requeue, RetryDue, Recover, rowVars, apiVars, TypeOK, QueueTypeOK
  <2>11. CASE WorkerFault
    <3>1. /\ UNCHANGED <<jobs, usage, request, result>>
          /\ \A t \in Slot : slots'[t].pc # "idle" =>
               slots[t].pc # "idle" /\ slots'[t].job = slots[t].job
      BY <1>2, <2>11
      DEF WorkerFault, Crash, LoseLock, Idle, rowVars, apiVars, TypeOK, QueueTypeOK, SlotRecord
    <3>2. QED
      BY <1>2, <3>1
  <2>12. CASE UNCHANGED vars
    BY <1>2, <2>12 DEF vars, queueVars, rowVars, apiVars
  <2> HIDE DEF Paid, EveryJobIsPaidFor
  <2>13. QED
    BY <1>2, <2>1, <2>2, <2>3, <2>4, <2>5, <2>6, <2>7, <2>8, <2>9, <2>10, <2>11, <2>12
    DEF Next, Handle, Process
<1>3. QED
  BY <1>1, <1>2, TypeCorrect, PTL DEF Spec, Paid

(***************************************************************************)
(* Until a process dies or a lock is lost, a row in progress is always in  *)
(* somebody's hands, however many requests, jobs and late listeners meet   *)
(* on it.                                                                  *)
(***************************************************************************)
THEOREM NobodyIsOrphaned == Spec => []NoOrphan
<1>1. Init => (Calm => Pursuit)
  BY DEF Init, QueueInit, Idle, Pursuit
<1>2. ASSUME TypeOK, QueueInv, Pursuit, [Next]_vars,
             ~Death, \A s \in Slot : ~LoseLock(s)
      PROVE  Pursuit'
  <2> USE DEF Pursuit
  <2>1. ~WorkerFault /\ \A q \in Job : ~Die(q)
    BY <1>2 DEF WorkerFault, Crash, Die
  <2>2. \A s \in Slot : slots[s].pc # "idle" => slots[s].job \in Job /\ WorkRow(s) \in Row
    BY <1>2, OptimizeAssumption DEF WorkRow, TypeOK, QueueTypeOK, SlotRecord
  <2>3. ASSUME NEW q \in Job, Admit(q) \/ CheckStatus(q) PROVE Pursuit'
    BY <1>2, <2>3 DEF Admit, CheckStatus, WorkRow, queueVars, rowVars, TypeOK
  <2>4. ASSUME NEW q \in Job, Claim(q) PROVE Pursuit'
    BY <1>2, <2>4, OptimizeAssumption DEF Claim, UpdateRow, WorkRow, queueVars, rowVars, TypeOK
  <2>5. ASSUME NEW q \in Job, Charge(q) PROVE Pursuit'
    BY <1>2, <2>5 DEF Charge, WorkRow, queueVars, rowVars, TypeOK
  <2>6. ASSUME NEW q \in Job, Enqueue(q) PROVE Pursuit'
    BY <1>2, <2>6 DEF Enqueue, Add, WorkRow, rowVars, TypeOK, QueueTypeOK, JobRecord
  <2>7. ASSUME NEW r \in Row, DeleteJob(r) PROVE Pursuit'
    BY <1>2, <2>7 DEF DeleteJob, WorkRow, queueVars, apiVars, TypeOK
  <2>8. ASSUME NEW s \in Slot, Take(s) PROVE Pursuit'
    <3>1. PICK j \in Job : Pick(s, j)
      BY <2>8 DEF Take
    <3>2. /\ slots[s].pc = "idle"
          /\ slots'[s] = [job |-> j, pc |-> "picked", locked |-> TRUE]
          /\ \A t \in Slot \ {s} : slots'[t] = slots[t]
          /\ \A k \in Job \ {j} : jobs'[k] = jobs[k]
          /\ UNCHANGED <<status, request, failedEvents>>
      BY <1>2, <2>8, <3>1 DEF Take, Pick, rowVars, apiVars, TypeOK, QueueTypeOK
    <3>3. QED
      BY <1>2, <3>2 DEF WorkRow
  <2>9. ASSUME NEW s \in Slot, Guard(s) PROVE Pursuit'
    <3>1. /\ slots[s].pc = "picked"
          /\ \A t \in Slot : slots'[t].job = slots[t].job /\ slots'[t].locked = slots[t].locked
          /\ \A t \in Slot \ {s} : slots'[t].pc = slots[t].pc
          /\ slots'[s].pc = IF status[WorkRow(s)] = "pending" THEN "guarded" ELSE "returned"
          /\ UNCHANGED <<status, request, failedEvents, jobs>>
      BY <1>2, <2>9 DEF Guard, Advance, rowVars, apiVars, TypeOK, QueueTypeOK, SlotRecord
    <3>2. QED
      BY <1>2, <3>1 DEF WorkRow
  <2>10. ASSUME NEW s \in Slot, MarkOptimizing(s) PROVE Pursuit'
    <3>1. /\ slots[s].pc = "guarded"
          /\ \A t \in Slot : slots'[t].job = slots[t].job /\ slots'[t].locked = slots[t].locked
          /\ \A t \in Slot \ {s} : slots'[t].pc = slots[t].pc
          /\ slots'[s].pc = "working"
          /\ UNCHANGED <<request, failedEvents, jobs>>
      BY <1>2, <2>10 DEF MarkOptimizing, Advance, apiVars, TypeOK, QueueTypeOK, SlotRecord
    <3>2. /\ \A r \in Row : r # WorkRow(s) => status'[r] = status[r]
          /\ status'[WorkRow(s)] \in {"optimizing", "gone"}
      BY <1>2, <2>2, <2>10, <3>1 DEF MarkOptimizing, UpdateRow, rowVars, TypeOK
    <3>3. QED
      BY <1>2, <3>1, <3>2 DEF WorkRow
  <2>11. ASSUME NEW s \in Slot, WriteResult(s) PROVE Pursuit'
    <3>1. /\ slots[s].pc = "working"
          /\ \A t \in Slot : slots'[t].job = slots[t].job /\ slots'[t].locked = slots[t].locked
          /\ \A t \in Slot \ {s} : slots'[t].pc = slots[t].pc
          /\ UNCHANGED <<request, failedEvents, jobs>>
      BY <1>2, <2>11 DEF WriteResult, Advance, apiVars, TypeOK, QueueTypeOK, SlotRecord
    <3>2. /\ \A r \in Row : r # WorkRow(s) => status'[r] = status[r]
          /\ status'[WorkRow(s)] \in {"complete", "gone"}
      BY <1>2, <2>2, <2>11, <3>1 DEF WriteResult, UpdateRow, rowVars, TypeOK
    <3>3. QED
      BY <1>2, <3>1, <3>2 DEF WorkRow
  <2>12. ASSUME NEW s \in Slot, Return(s) PROVE Pursuit'
    <3>1. /\ slots[s].pc = "returned"
          /\ slots'[s] = Idle
          /\ \A t \in Slot \ {s} : slots'[t] = slots[t]
          /\ \A k \in Job \ {slots[s].job} : jobs'[k] = jobs[k]
          /\ UNCHANGED <<status, request, failedEvents>>
      BY <1>2, <2>12 DEF Return, Ack, rowVars, apiVars, TypeOK, QueueTypeOK
    <3>2. jobs[slots[s].job].state = "active"
      BY <1>2, <3>1 DEF QueueInv, LocksAreExclusive
    <3>3. QED
      BY <1>2, <3>1, <3>2 DEF WorkRow, Idle
  <2>13. ASSUME NEW s \in Slot, Fail(s) PROVE Pursuit'
    <3> DEFINE k == slots[s].job
    <3>1. /\ slots[s].locked
          /\ k \in Job /\ jobs[k].state = "active"
          /\ jobs[k].made + 1 \in 0 .. Attempts
      BY <1>2, <2>2, <2>13, JobQueueAssumption
      DEF Fail, Throw, QueueInv, LocksAreExclusive, TypeOK, QueueTypeOK, JobRecord
    <3>2. /\ slots'[s] = Idle
          /\ \A t \in Slot \ {s} : slots'[t] = slots[t]
          /\ \A l \in Job \ {k} : jobs'[l] = jobs[l]
          /\ failedEvents' = failedEvents \cup {<<k, jobs[k].made + 1>>}
          /\ UNCHANGED <<status, request>>
      BY <1>2, <2>13, <3>1 DEF Fail, Throw, rowVars, apiVars, TypeOK, QueueTypeOK
    <3>3. \E e \in failedEvents' : RowOf[e[1]] = WorkRow(s)
      <4>1. <<k, jobs[k].made + 1>> \in failedEvents' /\ RowOf[k] = WorkRow(s)
        BY <3>2 DEF WorkRow
      <4>2. QED
        BY <4>1
    <3>4. QED
      BY <1>2, <3>1, <3>2, <3>3 DEF WorkRow, Idle
  <2>14. ASSUME NEW e \in Event, OnFailed(e) PROVE Pursuit'
    BY <1>2, <2>14, OptimizeAssumption
    DEF OnFailed, Handled, UpdateRow, WorkRow, rowVars, apiVars, TypeOK, Event
  <2>15. ASSUME NEW j \in Job, Requeue(j) PROVE Pursuit'
    <3>1. /\ \A k \in Job : jobs[k].state \in {"wait", "delayed"} =>
               jobs'[k].state \in {"wait", "delayed"}
          /\ failedEvents \subseteq failedEvents'
          /\ UNCHANGED <<slots, status, request>>
      BY <1>2, <2>15
      DEF Requeue, RetryDue, Recover, rowVars, apiVars, TypeOK, QueueTypeOK, JobRecord
    <3>2. QED
      BY <1>2, <3>1 DEF WorkRow
  <2>16. CASE UNCHANGED vars
    BY <1>2, <2>16 DEF vars, queueVars, rowVars, apiVars, WorkRow
  <2> HIDE DEF Pursuit
  <2>17. QED
    BY <1>2, <2>1, <2>3, <2>4, <2>5, <2>6, <2>7, <2>8, <2>9, <2>10, <2>11, <2>12,
       <2>13, <2>14, <2>15, <2>16
    DEF Next, Handle, Process
<1>3. TypeOK /\ QueueInv /\ (Calm => Pursuit) /\ [Next]_vars => (Calm => Pursuit)'
  <2> SUFFICES ASSUME TypeOK, QueueInv, Calm => Pursuit, [Next]_vars, Calm'
               PROVE  Pursuit'
    OBVIOUS
  <2>1. CASE QueueStep
    BY <1>2, <2>1, CalmStep DEF QueueInv
  <2>2. CASE UNCHANGED queueVars
    <3>1. Calm
      BY <2>2 DEF Calm, queueVars
    <3>2. ~Death /\ \A s \in Slot : ~LoseLock(s)
      BY <2>2, JobQueueAssumption DEF Death, LoseLock, queueVars, QueueInv, QueueTypeOK
    <3>3. QED
      BY <1>2, <3>1, <3>2
  <2>3. QED
    BY <2>1, <2>2, NextIsQueueStep DEF vars
<1>4. (Calm => Pursuit) => NoOrphan
  BY DEF Pursuit, NoOrphan, Pursued
<1>5. QED
  BY <1>1, <1>3, <1>4, TypeCorrect, PTL DEF Spec

(***************************************************************************)
(* What the pipeline keeps when every request has a row of its own,        *)
(* listeners are prompt and nothing dies: a job is in one place at a time, *)
(* and the status of its row says in which.                                *)
(***************************************************************************)
RowPerRequest ==
  /\ \A p, q \in Job : RowOf[p] = RowOf[q] => p = q
  /\ ListenerIsPrompt /\ MaxDeaths = 0 /\ MaxLostLocks = 0

\* The jobs whose last attempt failed and whose listener is not done.
FailedJobs == {e[1] : e \in failedEvents}

RequestInTurn(q) ==
  /\ request[q] \in {"new", "admitted", "checked"} =>
       status[RowOf[q]] \in {"none", "gone"} /\ jobs[q].state = "new"
  /\ request[q] \in {"claimed", "charged"} =>
       status[RowOf[q]] \in {"pending", "gone"} /\ jobs[q].state = "new"

JobInTurn(q) ==
  /\ jobs[q].state = "new" => q \notin FailedJobs
  /\ jobs[q].state \in {"wait", "delayed"} =>
       status[RowOf[q]] \in {"pending", "failed", "gone"} \/ q \in FailedJobs
  /\ jobs[q].state = "active" => \E s \in Slot : slots[s].job = q /\ slots[s].locked
  /\ q \in FailedJobs =>
       /\ status[RowOf[q]] \in {"pending", "optimizing", "failed", "gone"}
       /\ jobs[q].state # "active"

SlotInTurn(s) ==
  /\ slots[s].pc # "idle" => slots[s].locked
  /\ slots[s].pc = "picked" => status[WorkRow(s)] \in {"pending", "failed", "gone"}
  /\ slots[s].pc = "guarded" => status[WorkRow(s)] \in {"pending", "gone"}
  /\ slots[s].pc = "working" => status[WorkRow(s)] \in {"optimizing", "gone"}
  /\ slots[s].pc = "returned" => status[WorkRow(s)] \in {"complete", "failed", "gone"}

InTurn ==
  /\ \A q \in Job : RequestInTurn(q) /\ JobInTurn(q)
  /\ \A s \in Slot : SlotInTurn(s)

(***************************************************************************)
(* Where the job of a busy slot is: active, with no listener running for   *)
(* it, its row nobody else's.                                              *)
(***************************************************************************)
LEMMA BusySlots ==
  ASSUME TypeOK, QueueInv, RowPerRequest, InTurn
  PROVE  /\ \A s \in Slot : slots[s].pc # "idle" =>
              /\ slots[s].job \in Job /\ WorkRow(s) = RowOf[slots[s].job]
              /\ WorkRow(s) \in Row
              /\ jobs[slots[s].job].state = "active"
              /\ slots[s].job \notin FailedJobs
         /\ \A s, t \in Slot :
              slots[s].pc # "idle" /\ slots[t].pc # "idle" /\ WorkRow(s) = WorkRow(t) => s = t
<1>1. ASSUME NEW s \in Slot, slots[s].pc # "idle"
      PROVE  /\ slots[s].job \in Job /\ WorkRow(s) = RowOf[slots[s].job]
             /\ WorkRow(s) \in Row /\ slots[s].locked
             /\ jobs[slots[s].job].state = "active"
  BY <1>1, OptimizeAssumption
  DEF WorkRow, TypeOK, QueueTypeOK, SlotRecord, QueueInv, LocksAreExclusive, InTurn, SlotInTurn
<1>2. \A s \in Slot : slots[s].pc # "idle" => slots[s].job \notin FailedJobs
  BY <1>1 DEF InTurn, JobInTurn
<1>3. QED
  BY <1>1, <1>2 DEF RowPerRequest, QueueInv, LocksAreExclusive

(***************************************************************************)
(* The steps of the API and the deletion keep InTurn.                      *)
(***************************************************************************)
LEMMA RequestsInTurn ==
  ASSUME TypeOK, QueueInv, RowPerRequest, InTurn,
         \/ \E q \in Job : Admit(q) \/ Handle(q)
         \/ \E r \in Row : DeleteJob(r)
  PROVE  InTurn'
<1> USE DEF InTurn, RequestInTurn, JobInTurn, SlotInTurn
<1>1. ASSUME NEW q \in Job, Admit(q) \/ CheckStatus(q) \/ Charge(q)
      PROVE  InTurn'
  <2>1. /\ \A p \in Job : \/ request'[p] = request[p]
                          \/ request'[p] = "over"
                          \/ request[p] = "new" /\ request'[p] = "admitted"
                          \/ request[p] = "admitted" /\ request'[p] = "checked"
                          \/ request[p] = "claimed" /\ request'[p] = "charged"
        /\ UNCHANGED <<status, queueVars>>
    BY <1>1 DEF Admit, CheckStatus, Charge, TypeOK, rowVars, RequestState
  <2>2. FailedJobs' = FailedJobs
    BY <2>1 DEF FailedJobs, queueVars
  <2>3. QED
    BY <2>1, <2>2 DEF WorkRow, queueVars
<1>2. ASSUME NEW q \in Job, Claim(q) PROVE InTurn'
  <2>1. /\ request[q] = "checked" /\ request'[q] = "claimed"
        /\ \A p \in Job \ {q} : request'[p] = request[p]
        /\ status'[RowOf[q]] \in {"pending", "gone"}
        /\ \A r \in Row : r # RowOf[q] => status'[r] = status[r]
        /\ UNCHANGED queueVars
    BY <1>2, OptimizeAssumption DEF Claim, UpdateRow, TypeOK, rowVars
  <2>2. FailedJobs' = FailedJobs
    BY <2>1 DEF FailedJobs, queueVars
  <2>3. \A p \in Job : p # q => RowOf[p] \in Row /\ RowOf[p] # RowOf[q]
    BY OptimizeAssumption DEF RowPerRequest
  <2>4. \A s \in Slot : slots[s].pc # "idle" =>
          WorkRow(s) \in Row /\ WorkRow(s) # RowOf[q] /\ WorkRow(s)' = WorkRow(s)
    BY <2>1, <2>3, BusySlots DEF WorkRow, queueVars
  <2>5. \A s \in Slot : SlotInTurn(s)'
    BY <2>1, <2>4 DEF queueVars
  <2>6. ASSUME NEW p \in Job PROVE (RequestInTurn(p) /\ JobInTurn(p))'
    <3>1. CASE p = q
      BY <2>1, <2>2, <3>1 DEF queueVars
    <3>2. CASE p # q
      BY <2>1, <2>2, <2>3, <3>2 DEF queueVars
    <3>3. QED
      BY <3>1, <3>2
  <2>7. QED
    BY <2>5, <2>6
<1>3. ASSUME NEW q \in Job, Enqueue(q) PROVE InTurn'
  <2>1. /\ request[q] = "charged" /\ request'[q] = "over"
        /\ \A p \in Job \ {q} : request'[p] = request[p]
        /\ jobs'[q].state = "wait" /\ \A p \in Job \ {q} : jobs'[p] = jobs[p]
        /\ UNCHANGED <<slots, failedEvents, status>>
    BY <1>3 DEF Enqueue, Add, TypeOK, QueueTypeOK, JobRecord, rowVars
  <2>2. FailedJobs' = FailedJobs
    BY <2>1 DEF FailedJobs
  <2>3. QED
    BY <2>1, <2>2 DEF WorkRow
<1>4. ASSUME NEW r \in Row, DeleteJob(r) PROVE InTurn'
  <2>1. /\ status'[r] = "gone" /\ \A x \in Row \ {r} : status'[x] = status[x]
        /\ UNCHANGED <<queueVars, request>>
    BY <1>4 DEF DeleteJob, TypeOK, apiVars
  <2>2. FailedJobs' = FailedJobs
    BY <2>1 DEF FailedJobs, queueVars
  <2>3. /\ \A q \in Job : RowOf[q] \in Row
        /\ \A s \in Slot : slots[s].pc # "idle" =>
             WorkRow(s) \in Row /\ WorkRow(s)' = WorkRow(s)
    BY <2>1, OptimizeAssumption, BusySlots DEF WorkRow, queueVars
  <2>4. QED
    BY <2>1, <2>2, <2>3 DEF queueVars
<1> HIDE DEF InTurn
<1>5. QED
  BY <1>1, <1>2, <1>3, <1>4 DEF Handle

(***************************************************************************)
(* The steps of the worker and of the queue keep InTurn.                   *)
(***************************************************************************)
LEMMA WorkersInTurn ==
  ASSUME TypeOK, QueueInv, RowPerRequest, InTurn,
         \/ \E s \in Slot : Take(s) \/ Process(s)
         \/ \E e \in Event : OnFailed(e)
         \/ \E j \in Job : Requeue(j)
  PROVE  InTurn'
<1> USE DEF InTurn, RequestInTurn, JobInTurn, SlotInTurn
<1>1. ASSUME NEW s \in Slot, Take(s) PROVE InTurn'
  <2>1. PICK j \in Job : Pick(s, j)
    BY <1>1 DEF Take
  <2>2. /\ slots[s].pc = "idle" /\ slots[s].job = NoJob
        /\ slots'[s] = [job |-> j, pc |-> "picked", locked |-> TRUE]
        /\ \A t \in Slot \ {s} : slots'[t] = slots[t]
        /\ jobs[j].state = "wait" /\ jobs'[j].state = "active"
        /\ \A k \in Job \ {j} : jobs'[k] = jobs[k]
        /\ UNCHANGED <<status, request, failedEvents>>
    <3>1. /\ slots[s].pc = "idle" /\ jobs[j].state = "wait"
          /\ jobs' = [jobs EXCEPT ![j].state = "active"]
          /\ slots' = [slots EXCEPT ![s] = [job |-> j, pc |-> "picked", locked |-> TRUE]]
          /\ UNCHANGED <<status, request, failedEvents>>
      BY <1>1, <2>1, Zenon DEF Take, Pick, rowVars, apiVars
    <3>2. QED
      BY <3>1 DEF TypeOK, QueueTypeOK, JobRecord
  <2>3. FailedJobs = {} /\ FailedJobs' = {}
    <3>1. ListenerIsPrompt
      BY DEF RowPerRequest
    <3>2. failedEvents = {}
      BY <2>1, <3>1, Zenon DEF Pick
    <3>3. QED
      BY <2>2, <3>2 DEF FailedJobs
  <2>4. NoJob \notin Job
    BY JobQueueAssumption
  <2>5. \A t \in Slot : SlotInTurn(t)'
    BY <2>2, <2>3 DEF WorkRow
  <2>6. \A q \in Job : (RequestInTurn(q) /\ JobInTurn(q))'
    BY <2>2, <2>3, <2>4
  <2>7. QED
    BY <2>5, <2>6
<1>2. ASSUME NEW s \in Slot, Guard(s) PROVE InTurn'
  <2>1. /\ slots[s].pc = "picked" /\ status[WorkRow(s)] # "gone"
        /\ \A t \in Slot : slots'[t].job = slots[t].job /\ slots'[t].locked = slots[t].locked
        /\ \A t \in Slot \ {s} : slots'[t].pc = slots[t].pc
        /\ slots'[s].pc = IF status[WorkRow(s)] = "pending" THEN "guarded" ELSE "returned"
        /\ UNCHANGED <<status, request, failedEvents, jobs>>
    BY <1>2 DEF Guard, Advance, rowVars, apiVars, TypeOK, QueueTypeOK, SlotRecord
  <2>2. FailedJobs' = FailedJobs
    BY <2>1 DEF FailedJobs
  <2>3. QED
    BY <2>1, <2>2 DEF WorkRow
<1>3. ASSUME NEW s \in Slot, NEW to \in {"working", "returned"}, NEW st \in Status,
             Advance(s, IF to = "working" THEN "guarded" ELSE "working", to),
             st = (IF to = "working" THEN "optimizing" ELSE "complete"),
             \E o \in Job \cup {NoJob}, f \in BOOLEAN : UpdateRow(WorkRow(s), st, o, f),
             UNCHANGED apiVars
      PROVE  InTurn'
  <2> DEFINE k == slots[s].job
  <2>1. /\ slots[s].pc = IF to = "working" THEN "guarded" ELSE "working"
        /\ \A t \in Slot : slots'[t].job = slots[t].job /\ slots'[t].locked = slots[t].locked
        /\ \A t \in Slot \ {s} : slots'[t].pc = slots[t].pc
        /\ slots'[s].pc = to
        /\ UNCHANGED <<request, failedEvents, jobs>>
    BY <1>3 DEF Advance, apiVars, TypeOK, QueueTypeOK, SlotRecord
  <2>2. /\ k \in Job /\ WorkRow(s) = RowOf[k] /\ WorkRow(s) \in Row
        /\ jobs[k].state = "active" /\ k \notin FailedJobs
    BY <2>1, BusySlots
  <2>3. /\ status'[WorkRow(s)] \in {st, "gone"}
        /\ \A r \in Row : r # WorkRow(s) => status'[r] = status[r]
    BY <1>3, <2>2 DEF UpdateRow, rowVars, TypeOK
  <2>4. FailedJobs' = FailedJobs
    BY <2>1 DEF FailedJobs
  <2>5. ASSUME NEW t \in Slot PROVE SlotInTurn(t)'
    <3>1. CASE t = s
      BY <1>3, <2>1, <2>2, <2>3, <3>1 DEF WorkRow
    <3>2. CASE t # s
      <4>1. slots[t].pc # "idle" => WorkRow(t) \in Row /\ WorkRow(t) # WorkRow(s)
        BY <2>1, <3>2, BusySlots
      <4>2. WorkRow(t)' = WorkRow(t)
        BY <2>1 DEF WorkRow
      <4>3. QED
        BY <2>1, <2>3, <3>2, <4>1, <4>2
    <3>3. QED
      BY <3>1, <3>2
  <2>6. ASSUME NEW q \in Job PROVE (RequestInTurn(q) /\ JobInTurn(q))'
    <3>1. CASE q = k
      BY <2>1, <2>2, <2>4, <3>1
    <3>2. CASE q # k
      <4>1. RowOf[q] \in Row /\ RowOf[q] # WorkRow(s)
        BY <2>2, <3>2, OptimizeAssumption DEF RowPerRequest
      <4>2. QED
        BY <2>1, <2>3, <2>4, <4>1
    <3>3. QED
      BY <3>1, <3>2
  <2>7. QED
    BY <2>5, <2>6
<1>4. ASSUME NEW s \in Slot, MarkOptimizing(s) PROVE InTurn'
  <2>1. WorkRow(s) \in Row
    BY <1>4, BusySlots DEF MarkOptimizing, Advance
  <2>2. result[WorkRow(s)] \in Job \cup {NoJob} /\ error[WorkRow(s)] \in BOOLEAN
    BY <2>1 DEF TypeOK
  <2>3. QED
    BY <1>3, <1>4, <2>2 DEF MarkOptimizing, Status
<1>5. ASSUME NEW s \in Slot, WriteResult(s) PROVE InTurn'
  <2>1. slots[s].job \in Job
    BY <1>5, BusySlots DEF WriteResult, Advance
  <2>2. QED
    BY <1>3, <1>5, <2>1 DEF WriteResult, Status
<1>6. ASSUME NEW s \in Slot, Return(s) PROVE InTurn'
  <2> DEFINE k == slots[s].job
  <2>1. k \in Job /\ slots[s].locked /\ jobs[k].state = "active" /\ k \notin FailedJobs
    BY <1>6, BusySlots DEF Return, Ack
  <2>2. /\ slots'[s] = Idle
        /\ \A t \in Slot \ {s} : slots'[t] = slots[t]
        /\ jobs'[k].state = "done"
        /\ \A q \in Job \ {k} : jobs'[q] = jobs[q]
        /\ UNCHANGED <<status, request, failedEvents>>
    BY <1>6, <2>1 DEF Return, Ack, rowVars, apiVars, TypeOK, QueueTypeOK, JobRecord
  <2>3. FailedJobs' = FailedJobs
    BY <2>2 DEF FailedJobs
  <2>4. QED
    BY <2>1, <2>2, <2>3 DEF WorkRow, Idle
<1>7. ASSUME NEW s \in Slot, Fail(s) PROVE InTurn'
  <2> DEFINE k == slots[s].job
  <2>1. /\ slots[s].pc \in {"picked", "guarded", "working"} /\ slots[s].locked
        /\ k \in Job /\ WorkRow(s) = RowOf[k]
        /\ jobs[k].state = "active" /\ k \notin FailedJobs
    BY <1>7, BusySlots DEF Fail, Throw, InTurn, SlotInTurn
  <2>2. /\ slots'[s] = Idle
        /\ \A t \in Slot \ {s} : slots'[t] = slots[t]
        /\ jobs'[k].state \in {"delayed", "failed"}
        /\ \A q \in Job \ {k} : jobs'[q] = jobs[q]
        /\ failedEvents' = failedEvents \cup {<<k, jobs[k].made + 1>>}
        /\ UNCHANGED <<status, request>>
    BY <1>7, <2>1 DEF Fail, Throw, rowVars, apiVars, TypeOK, QueueTypeOK, JobRecord
  <2>3. FailedJobs' = FailedJobs \cup {k}
    <3>1. \A e \in failedEvents' : e \in failedEvents \/ e[1] = k
      BY <2>2
    <3>2. <<k, jobs[k].made + 1>> \in failedEvents' /\ <<k, jobs[k].made + 1>>[1] = k
      BY <2>2
    <3>3. \E e \in failedEvents' : e[1] = k
      BY <3>2
    <3>4. failedEvents \subseteq failedEvents'
      BY <2>2
    <3>5. QED
      BY <3>1, <3>3, <3>4 DEF FailedJobs
  <2>4. QED
    BY <2>1, <2>2, <2>3 DEF WorkRow, Idle
<1>8. ASSUME NEW e \in Event, OnFailed(e) PROVE InTurn'
  <2> DEFINE k == e[1]
  <2>1. k \in Job /\ RowOf[k] \in Row
    BY OptimizeAssumption DEF Event
  <2>2. /\ e \in failedEvents /\ failedEvents' = failedEvents \ {e}
        /\ UNCHANGED <<jobs, slots, request>>
        /\ status'[RowOf[k]] \in {"failed", "gone"}
        /\ \A r \in Row : r # RowOf[k] => status'[r] = status[r]
    BY <1>8, <2>1 DEF OnFailed, Handled, UpdateRow, rowVars, apiVars, TypeOK
  <2>3. /\ k \in FailedJobs
        /\ FailedJobs' \subseteq FailedJobs
        /\ \A q \in FailedJobs : q # k => q \in FailedJobs'
    BY <2>2 DEF FailedJobs
  <2>4. \A s \in Slot : slots[s].pc # "idle" =>
          WorkRow(s) \in Row /\ WorkRow(s) # RowOf[k] /\ WorkRow(s)' = WorkRow(s)
    BY <2>1, <2>2, <2>3, BusySlots DEF RowPerRequest, WorkRow
  <2>5. \A s \in Slot : SlotInTurn(s)'
    BY <2>2, <2>4
  <2>6. ASSUME NEW q \in Job PROVE (RequestInTurn(q) /\ JobInTurn(q))'
    <3>1. CASE q = k
      BY <2>2, <2>3, <3>1
    <3>2. CASE q # k
      <4>1. RowOf[q] \in Row /\ RowOf[q] # RowOf[k]
        BY <2>1, <3>2, OptimizeAssumption DEF RowPerRequest
      <4>2. QED
        BY <2>2, <2>3, <3>2, <4>1
    <3>3. QED
      BY <3>1, <3>2
  <2>7. QED
    BY <2>5, <2>6
<1>9. ASSUME NEW j \in Job, Requeue(j) PROVE InTurn'
  <2>1. RetryDue(j)
    BY <1>9 DEF Requeue, Recover
  <2>2. /\ jobs[j].state = "delayed" /\ jobs'[j].state = "wait"
        /\ \A q \in Job \ {j} : jobs'[q] = jobs[q]
        /\ UNCHANGED <<slots, failedEvents, status, request>>
    BY <1>9, <2>1 DEF Requeue, RetryDue, rowVars, apiVars, TypeOK, QueueTypeOK, JobRecord
  <2>3. FailedJobs' = FailedJobs
    BY <2>2 DEF FailedJobs
  <2>4. QED
    BY <2>2, <2>3 DEF WorkRow
<1> HIDE DEF InTurn
<1>10. QED
  BY <1>1, <1>2, <1>4, <1>5, <1>6, <1>7, <1>8, <1>9 DEF Process

\* How a step may move a row.
RowMove(r) ==
  \/ /\ \/ status[r] = "none" /\ status' = [status EXCEPT ![r] = "pending"]
        \/ status[r] = "pending" /\ status' = [status EXCEPT ![r] = "optimizing"]
        \/ /\ status[r] \in {"pending", "optimizing"}
           /\ status' = [status EXCEPT ![r] = "failed"]
        \/ status[r] # "gone" /\ status' = [status EXCEPT ![r] = "gone"]
     /\ UNCHANGED result
  \/ /\ status[r] = "optimizing" /\ status' = [status EXCEPT ![r] = "complete"]
     /\ \E o \in Job : result' = [result EXCEPT ![r] = o]

(***************************************************************************)
(* An UPDATE that writes a row's own output back leaves the outputs alone. *)
(***************************************************************************)
LEMMA UpdateKeepsOutput ==
  ASSUME TypeOK, NEW r \in Row, NEW st, NEW f, UpdateRow(r, st, result[r], f)
  PROVE  /\ UNCHANGED result
         /\ status[r] = "gone" => UNCHANGED status
         /\ status[r] # "gone" => status' = [status EXCEPT ![r] = st]
BY DEF TypeOK, UpdateRow, rowVars

(***************************************************************************)
(* Every step moves at most one row, and along the life cycle: a request   *)
(* finds a new row, the marking a pending one, the result an optimizing    *)
(* one, and a listener never a complete one.                               *)
(***************************************************************************)
LEMMA StepsMoveRows ==
  ASSUME TypeOK, QueueInv, RowPerRequest, InTurn, [Next]_vars
  PROVE  (\E r \in Row : RowMove(r)) \/ UNCHANGED <<status, result>>
<1> DEFINE Goal == (\E r \in Row : RowMove(r)) \/ UNCHANGED <<status, result>>
<1>1. ASSUME NEW q \in Job, Claim(q) PROVE Goal
  <2>1. RowOf[q] \in Row /\ status[RowOf[q]] \in {"none", "gone"}
    BY <1>1, OptimizeAssumption DEF Claim, InTurn, RequestInTurn
  <2>2. UpdateRow(RowOf[q], "pending", result[RowOf[q]], error[RowOf[q]])
    BY <1>1 DEF Claim
  <2>3. QED
    BY <2>1, <2>2, UpdateKeepsOutput DEF RowMove
<1>2. ASSUME NEW r \in Row, DeleteJob(r) PROVE Goal
  BY <1>2 DEF DeleteJob, RowMove
<1>3. ASSUME NEW s \in Slot, MarkOptimizing(s) PROVE Goal
  <2>1. WorkRow(s) \in Row /\ status[WorkRow(s)] \in {"pending", "gone"}
    BY <1>3, BusySlots DEF MarkOptimizing, Advance, InTurn, SlotInTurn
  <2>2. UpdateRow(WorkRow(s), "optimizing", result[WorkRow(s)], error[WorkRow(s)])
    BY <1>3 DEF MarkOptimizing
  <2>3. QED
    BY <2>1, <2>2, UpdateKeepsOutput DEF RowMove
<1>4. ASSUME NEW s \in Slot, WriteResult(s) PROVE Goal
  <2>1. WorkRow(s) \in Row /\ status[WorkRow(s)] \in {"optimizing", "gone"}
    BY <1>4, BusySlots DEF WriteResult, Advance, InTurn, SlotInTurn
  <2>2. slots[s].job \in Job
    BY <1>4, BusySlots DEF WriteResult, Advance
  <2>3. QED
    BY <1>4, <2>1, <2>2 DEF WriteResult, UpdateRow, rowVars, RowMove
<1>5. ASSUME NEW e \in Event, OnFailed(e) PROVE Goal
  <2>1. e[1] \in Job /\ RowOf[e[1]] \in Row
    BY OptimizeAssumption DEF Event
  <2>2. e[1] \in FailedJobs
    BY <1>5 DEF OnFailed, Handled, FailedJobs
  <2>3. status[RowOf[e[1]]] \in {"pending", "optimizing", "failed", "gone"}
    BY <2>1, <2>2 DEF InTurn, JobInTurn
  <2>4. UpdateRow(RowOf[e[1]], "failed", result[RowOf[e[1]]], TRUE)
    BY <1>5 DEF OnFailed
  <2>5. status[RowOf[e[1]]] = "failed" =>
          [status EXCEPT ![RowOf[e[1]]] = "failed"] = status
    BY <2>1 DEF TypeOK
  <2>6. QED
    BY <2>1, <2>3, <2>4, <2>5, UpdateKeepsOutput DEF RowMove
<1>6. ASSUME UNCHANGED rowVars PROVE Goal
  BY <1>6 DEF rowVars
<1> HIDE DEF Goal
<1>7. ASSUME NEW q \in Job, Admit(q) \/ Handle(q) \/ Die(q) PROVE Goal
  BY <1>1, <1>6, <1>7 DEF Admit, Handle, CheckStatus, Charge, Enqueue, Die
<1>8. ASSUME NEW s \in Slot, Take(s) \/ Process(s) PROVE Goal
  BY <1>3, <1>4, <1>6, <1>8 DEF Take, Process, Guard, Return, Fail
<1>9. ASSUME (\E j \in Job : Requeue(j)) \/ WorkerFault \/ UNCHANGED vars PROVE Goal
  BY <1>6, <1>9 DEF Requeue, WorkerFault, vars
<1>10. Goal
  BY <1>2, <1>5, <1>7, <1>8, <1>9 DEF Next
<1>11. QED
  BY <1>10 DEF Goal

(***************************************************************************)
(* The promise of TaskLifecycle, its liveness apart: when every request    *)
(* has a row of its own, listeners are prompt and nothing dies, each step  *)
(* of API, queue, worker and listener is a step of the life cycle or none. *)
(* A delivered optimization is never taken back or written over, and no    *)
(* retry overtakes the outcome of its row.                                 *)
(***************************************************************************)
THEOREM PromiseIsKept ==
  ASSUME RowPerRequest
  PROVE  Spec => Lifecycle!Spec
<1>1. Init => InTurn
  <2>1. ASSUME Init PROVE FailedJobs = {} /\ \A s \in Slot : slots[s] = Idle
    BY <2>1 DEF Init, QueueInit, FailedJobs
  <2>2. QED
    BY <2>1, OptimizeAssumption
    DEF Init, QueueInit, InTurn, RequestInTurn, JobInTurn, SlotInTurn, Idle
<1>2. TypeOK /\ QueueInv /\ InTurn /\ [Next]_vars => InTurn'
  <2> SUFFICES ASSUME TypeOK, QueueInv, InTurn, [Next]_vars PROVE InTurn'
    OBVIOUS
  <2>1. ~Death /\ \A s \in Slot : ~LoseLock(s)
    BY DEF Death, LoseLock, QueueInv, QueueTypeOK, RowPerRequest
  <2>2. ~WorkerFault /\ \A q \in Job : ~Die(q)
    BY <2>1 DEF WorkerFault, Crash, Die
  <2>3. CASE UNCHANGED vars
    <3>1. FailedJobs' = FailedJobs
      BY <2>3 DEF vars, queueVars, FailedJobs
    <3>2. QED
      BY <2>3, <3>1
      DEF vars, queueVars, rowVars, apiVars, WorkRow,
          InTurn, RequestInTurn, JobInTurn, SlotInTurn
  <2>4. QED
    BY <2>2, <2>3, RequestsInTurn, WorkersInTurn DEF Next
<1>3. Init => Lifecycle!Init
  BY DEF Init, Lifecycle!Init, PhaseOf
<1>4. TypeOK /\ QueueInv /\ InTurn /\ [Next]_vars => [Lifecycle!Next]_(Lifecycle!view)
  <2> SUFFICES ASSUME TypeOK, QueueInv, InTurn, [Next]_vars
               PROVE  Lifecycle!Next \/ UNCHANGED Lifecycle!view
    OBVIOUS
  <2> DEFINE phase == [r \in Row |-> PhaseOf[status[r]]]
  <2>1. ASSUME NEW r \in Row, RowMove(r) PROVE Lifecycle!Next
    <3>1. ASSUME NEW x \in Status, status' = [status EXCEPT ![r] = x]
          PROVE  phase' = [phase EXCEPT ![r] = PhaseOf[x]]
      BY <3>1 DEF TypeOK
    <3>2. phase[r] = PhaseOf[status[r]]
      OBVIOUS
    <3>3. Lifecycle!Request(r) \/ Lifecycle!Start(r) \/ Lifecycle!Deliver(r)
          \/ Lifecycle!GiveUp(r) \/ Lifecycle!Discard(r)
      BY <2>1, <3>1, <3>2
      DEF RowMove, Status, PhaseOf, TypeOK, Lifecycle!Request, Lifecycle!Start,
          Lifecycle!Deliver, Lifecycle!GiveUp, Lifecycle!Discard, Lifecycle!Move,
          Lifecycle!Phase
    <3>4. QED
      BY <3>3 DEF Lifecycle!Next
  <2>2. CASE UNCHANGED <<status, result>>
    BY <2>2 DEF Lifecycle!view
  <2>3. QED
    BY <2>1, <2>2, StepsMoveRows
<1>5. QED
  BY <1>1, <1>2, <1>3, <1>4, TypeCorrect, PTL DEF Spec, Lifecycle!Spec

=============================================================================
