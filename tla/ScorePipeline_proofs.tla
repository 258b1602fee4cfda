------------------------- MODULE ScorePipeline_proofs -------------------------
(* Theorems about ScorePipeline, for every number of requests, slots and   *)
(* attempts.                                                               *)
EXTENDS ScorePipeline, JobQueue_proofs

(***************************************************************************)
(* What no step of a request or of the worker does to the other's part.    *)
(***************************************************************************)
LEMMA ScoreUsesTheQueue == Next => QueueStep \/ UNCHANGED queueVars
<1> SUFFICES ASSUME Next PROVE QueueStep \/ UNCHANGED queueVars
  OBVIOUS
<1>1. ASSUME NEW q \in Job, Admit(q) \/ Handle(q) \/ Die(q) \/ DeleteJob(q)
      PROVE  QueueStep \/ UNCHANGED queueVars
  BY <1>1 DEF Admit, Handle, Die, DeleteJob, Insert, Charge, Enqueue, QueueStep
<1>2. ASSUME NEW s \in Slot, Take(s) \/ Return(s) \/ Fail(s) PROVE QueueStep
  BY <1>2 DEF Take, Return, Fail, QueueStep
<1>3. ASSUME NEW s \in Slot, Load(s) PROVE QueueStep
  BY <1>3 DEF Load, QueueStep
<1>4. ASSUME NEW s \in Slot, MarkScoring(s) PROVE QueueStep
  BY <1>4 DEF MarkScoring, QueueStep
<1>5. ASSUME NEW s \in Slot, WriteScore(s) PROVE QueueStep
  BY <1>5 DEF WriteScore, QueueStep
<1>6. ASSUME NEW e \in Event, OnFailed(e) PROVE QueueStep
  BY <1>6 DEF OnFailed, QueueStep
<1>7. ASSUME NEW j \in Job, Requeue(j) PROVE QueueStep
  BY <1>7 DEF Requeue, QueueStep
<1>8. CASE WorkerFault
  BY <1>8 DEF WorkerFault, QueueStep
<1>9. QED
  BY <1>1, <1>2, <1>3, <1>4, <1>5, <1>6, <1>7, <1>8 DEF Next, Process

\* The scorer keeps the queue's invariant.
LEMMA ScoreQueueInv == QueueInv /\ [Next]_vars => QueueInv'
<1>1. ASSUME QueueInv, UNCHANGED queueVars PROVE QueueInv'
  BY <1>1 DEF QueueInv, QueueTypeOK, LocksAreExclusive, queueVars
<1>2. QED
  BY <1>1, ScoreUsesTheQueue, QueueStepInv DEF vars

(***************************************************************************)
(* An UPDATE changes one row, and only one that is there.                  *)
(***************************************************************************)
LEMMA UpdateOneRow ==
  ASSUME TypeOK, NEW q \in Job, NEW st \in Status, NEW has \in BOOLEAN, NEW failed \in BOOLEAN,
         UpdateRow(q, st, has, failed)
  PROVE  /\ status' \in [Job -> Status] /\ scored' \in [Job -> BOOLEAN] /\ error' \in [Job -> BOOLEAN]
         /\ \A p \in Job \ {q} :
              status'[p] = status[p] /\ scored'[p] = scored[p] /\ error'[p] = error[p]
         /\ \/ /\ status[q] \in {"absent", "gone"} /\ status'[q] = status[q]
               /\ scored'[q] = scored[q] /\ error'[q] = error[q]
            \/ status'[q] = st /\ scored'[q] = has /\ error'[q] = failed
BY DEF TypeOK, UpdateRow, rowVars

(***************************************************************************)
(* The steps that change rows, as updates of the row of one job: what the  *)
(* rest of the proofs needs of the worker.                                 *)
(***************************************************************************)
RowUpdate(q, st, has, failed) ==
  q \in Job /\ has \in BOOLEAN /\ failed \in BOOLEAN /\ UpdateRow(q, st, has, failed)

LEMMA WorkerUpdates ==
  ASSUME TypeOK
  PROVE  /\ \A s \in Slot : MarkScoring(s) =>
              /\ RowUpdate(slots[s].job, "scoring", scored[slots[s].job], error[slots[s].job])
              /\ UNCHANGED apiVars
         /\ \A s \in Slot : WriteScore(s) =>
              RowUpdate(slots[s].job, "complete", TRUE, FALSE) /\ UNCHANGED apiVars
         /\ \A e \in Event : OnFailed(e) =>
              RowUpdate(e[1], "failed", scored[e[1]], TRUE) /\ UNCHANGED apiVars
         /\ \A s \in Slot : Take(s) \/ Load(s) \/ Return(s) \/ Fail(s) =>
              UNCHANGED <<rowVars, apiVars>>
         /\ (\E j \in Job : Requeue(j)) \/ WorkerFault => UNCHANGED <<rowVars, apiVars>>
<1>1. ASSUME NEW s \in Slot, slots[s].pc # "idle" PROVE slots[s].job \in Job
  BY <1>1 DEF TypeOK, QueueTypeOK, SlotRecord
<1>2. ASSUME NEW s \in Slot, MarkScoring(s)
      PROVE  RowUpdate(slots[s].job, "scoring", scored[slots[s].job], error[slots[s].job])
  BY <1>1, <1>2 DEF MarkScoring, Advance, RowUpdate, TypeOK
<1>3. ASSUME NEW s \in Slot, WriteScore(s)
      PROVE  RowUpdate(slots[s].job, "complete", TRUE, FALSE)
  BY <1>1, <1>3 DEF WriteScore, Advance, RowUpdate
<1>4. ASSUME NEW e \in Event, OnFailed(e) PROVE RowUpdate(e[1], "failed", scored[e[1]], TRUE)
  BY <1>4 DEF OnFailed, RowUpdate, TypeOK, Event
<1>5. ASSUME NEW s \in Slot, Take(s) \/ Load(s) \/ Return(s) \/ Fail(s)
      PROVE  UNCHANGED <<rowVars, apiVars>>
  BY <1>5 DEF Take, Load, Return, Fail
<1>6. ASSUME (\E j \in Job : Requeue(j)) \/ WorkerFault PROVE UNCHANGED <<rowVars, apiVars>>
  BY <1>6 DEF Requeue, WorkerFault
<1>7. QED
  BY <1>2, <1>3, <1>4, <1>5, <1>6 DEF MarkScoring, WriteScore, OnFailed

(***************************************************************************)
(* Type correctness, with the queue's own invariant.                       *)
(***************************************************************************)
THEOREM ScoreTypeCorrect == Spec => [](TypeOK /\ QueueInv)
<1>1. Init => TypeOK /\ QueueInv
  BY QueueInitInv DEF Init, TypeOK, QueueInv, Status, RequestState
<1>2. TypeOK /\ QueueInv /\ [Next]_vars => TypeOK' /\ QueueInv'
  <2> SUFFICES ASSUME TypeOK, QueueInv, [Next]_vars
               PROVE  /\ status' \in [Job -> Status]
                      /\ scored' \in [Job -> BOOLEAN]
                      /\ error' \in [Job -> BOOLEAN]
                      /\ usage' \subseteq Job
                      /\ request' \in [Job -> RequestState]
    BY ScoreQueueInv DEF TypeOK, QueueInv
  <2>1. ASSUME NEW q \in Job, Admit(q) \/ Handle(q) \/ Die(q) \/ DeleteJob(q)
        PROVE  /\ status' \in [Job -> Status] /\ UNCHANGED <<scored, error>>
               /\ usage' \subseteq Job /\ request' \in [Job -> RequestState]
    BY <2>1 DEF TypeOK, Status, RequestState, Admit, Handle, Insert, Charge, Enqueue, Die, DeleteJob,
                rowVars, apiVars, InFlight
  <2>2. ASSUME NEW q, NEW st \in {"scoring", "complete", "failed"}, NEW has, NEW failed,
               RowUpdate(q, st, has, failed)
        PROVE  /\ status' \in [Job -> Status]
               /\ scored' \in [Job -> BOOLEAN]
               /\ error' \in [Job -> BOOLEAN]
    BY <2>2, UpdateOneRow DEF RowUpdate, Status
  <2>3. ASSUME UNCHANGED <<rowVars, apiVars>>
        PROVE  /\ status' \in [Job -> Status]
               /\ scored' \in [Job -> BOOLEAN]
               /\ error' \in [Job -> BOOLEAN]
               /\ usage' \subseteq Job
               /\ request' \in [Job -> RequestState]
    BY <2>3 DEF TypeOK, rowVars, apiVars
  <2>4. ASSUME UNCHANGED apiVars PROVE usage' \subseteq Job /\ request' \in [Job -> RequestState]
    BY <2>4 DEF TypeOK, apiVars
  <2>5. QED
    BY <2>1, <2>2, <2>3, <2>4, WorkerUpdates DEF Next, Process, vars, TypeOK
<1>3. QED
  BY <1>1, <1>2, PTL DEF Spec

(***************************************************************************)
(* ats-score.ts:17-22: what the columns of a row say agrees with its       *)
(* status, in any order of retries, redelivered jobs and late listeners.   *)
(***************************************************************************)
THEOREM ScoreColumnsAgree == Spec => []StatusMatchesColumns
<1>1. Init => StatusMatchesColumns
  BY DEF Init, StatusMatchesColumns
<1>2. ASSUME TypeOK, StatusMatchesColumns, [Next]_vars PROVE StatusMatchesColumns'
  <2>1. ASSUME NEW q \in Job, Admit(q) \/ Handle(q) \/ Die(q) \/ DeleteJob(q)
        PROVE  StatusMatchesColumns'
    BY <1>2, <2>1 DEF StatusMatchesColumns, TypeOK, Admit, Handle, Insert, Charge, Enqueue, Die,
                      DeleteJob, rowVars, apiVars
  <2>2. ASSUME NEW q, NEW st \in {"scoring", "complete", "failed"}, NEW has, NEW failed,
               RowUpdate(q, st, has, failed), st = "complete" => has /\ ~failed,
               st = "failed" => failed
        PROVE  StatusMatchesColumns'
    BY <1>2, <2>2, UpdateOneRow DEF RowUpdate, Status, StatusMatchesColumns
  <2>3. ASSUME UNCHANGED rowVars PROVE StatusMatchesColumns'
    BY <1>2, <2>3 DEF StatusMatchesColumns, rowVars
  <2>4. QED
    BY <1>2, <2>1, <2>2, <2>3, WorkerUpdates DEF Next, Process, vars
<1>3. QED
  BY <1>1, <1>2, ScoreTypeCorrect, PTL DEF Spec

\* A step of the scorer gives no slot a job that was not added before.
LEMMA WorkerKeepsWork ==
  ASSUME QueueInv,
         \/ \E s \in Slot : Take(s) \/ Process(s)
         \/ \E e \in Event : OnFailed(e)
         \/ \E j \in Job : Requeue(j)
         \/ WorkerFault
  PROVE  SameWork
<1>1. WorkStep
  BY DEF WorkStep, Take, Process, Load, MarkScoring, WriteScore, Return, Fail, OnFailed, Requeue,
         WorkerFault
<1>2. QED
  BY <1>1, WorkStepKeepsWork

(***************************************************************************)
(* Entitlements: a user is charged only for a score that has a row, and    *)
(* nothing is queued or scored uncharged, whatever dies in between.        *)
(***************************************************************************)
THEOREM ScoresArePaidFor == Spec => [](Charged /\ ChargesMatchRows)
<1>1. Init => Charged
  BY DEF Init, QueueInit, Idle, Charged, ChargesMatchRows
<1>2. ASSUME TypeOK, QueueInv, Charged, [Next]_vars PROVE Charged'
  <2>1. ASSUME UNCHANGED <<rowVars, apiVars>>, SameWork PROVE Charged'
    BY <1>2, <2>1 DEF Charged, ChargesMatchRows, SameWork, rowVars, apiVars, TypeOK
  <2>2. ASSUME NEW q, NEW st \in {"scoring", "complete", "failed"}, NEW has, NEW failed,
               RowUpdate(q, st, has, failed), UNCHANGED apiVars, SameWork,
               q \in Job /\ has /\ ~scored[q] => q \in usage
        PROVE  Charged'
    <3>1. /\ q \in Job /\ st \in Status /\ has \in BOOLEAN /\ failed \in BOOLEAN
          /\ UpdateRow(q, st, has, failed)
      BY <2>2 DEF RowUpdate, Status
    <3>2. /\ \A p \in Job : status'[p] = "absent" => status[p] = "absent"
          /\ \A p \in Job : scored'[p] => scored[p] \/ p \in usage
      BY <1>2, <2>2, <3>1, UpdateOneRow
    <3>3. /\ \A p \in usage : p \in Job /\ status[p] # "absent"
          /\ \A p \in Job : jobs[p].state # "new" \/ scored[p] => p \in usage
          /\ usage' = usage /\ request' = request
      BY <1>2, <2>2 DEF Charged, ChargesMatchRows, apiVars, TypeOK
    <3>4. ChargesMatchRows'
      BY <2>2, <3>2, <3>3 DEF ChargesMatchRows, SameWork
    <3>5. /\ \A p \in Job : request'[p] \in {"inserted", "charged"} => status'[p] # "absent"
          /\ \A p \in Job : request'[p] = "charged" => p \in usage'
      BY <1>2, <3>2, <3>3 DEF Charged
    <3>6. \A s \in Slot : slots'[s].pc # "idle" => slots'[s].job \in usage'
      BY <1>2, <2>2, <3>3 DEF Charged, SameWork
    <3>7. QED
      BY <3>4, <3>5, <3>6 DEF Charged
  <2>3. ASSUME NEW q \in Job, Admit(q) \/ Insert(q) \/ Charge(q) \/ Die(q) \/ DeleteJob(q)
        PROVE  Charged'
    <3>1. UNCHANGED <<jobs, slots, scored>>
      BY <2>3 DEF Admit, Insert, Charge, Die, DeleteJob, queueVars, rowVars
    <3>2. CASE Admit(q) \/ Die(q)
      BY <1>2, <3>1, <3>2 DEF Admit, Die, InFlight, Charged, ChargesMatchRows, rowVars, TypeOK
    <3>3. CASE Insert(q)
      BY <1>2, <3>1, <3>3 DEF Insert, Charged, ChargesMatchRows, TypeOK
    <3>4. CASE Charge(q)
      BY <1>2, <3>1, <3>4 DEF Charge, Charged, ChargesMatchRows, rowVars, TypeOK
    <3>5. CASE DeleteJob(q)
      BY <1>2, <3>1, <3>5 DEF DeleteJob, Charged, ChargesMatchRows, apiVars, TypeOK
    <3>6. QED
      BY <2>3, <3>2, <3>3, <3>4, <3>5
  <2>4. ASSUME NEW q \in Job, Enqueue(q) PROVE Charged'
    BY <1>2, <2>4 DEF Enqueue, Add, Charged, ChargesMatchRows, rowVars, TypeOK, QueueTypeOK
  <2>5. ASSUME NEW s \in Slot, MarkScoring(s) PROVE Charged'
    BY <1>2, <2>5, <2>2, WorkerUpdates, WorkerKeepsWork DEF Process
  <2>6. ASSUME NEW s \in Slot, WriteScore(s) PROVE Charged'
    <3>1. slots[s].job \in usage
      BY <1>2, <2>6 DEF WriteScore, Advance, Charged
    <3>2. QED
      BY <1>2, <2>6, <2>2, <3>1, WorkerUpdates, WorkerKeepsWork DEF Process
  <2>7. ASSUME NEW e \in Event, OnFailed(e) PROVE Charged'
    BY <1>2, <2>7, <2>2, WorkerUpdates, WorkerKeepsWork
  <2>8. ASSUME NEW s \in Slot, Take(s) \/ Load(s) \/ Return(s) \/ Fail(s) PROVE Charged'
    BY <1>2, <2>8, <2>1, WorkerUpdates, WorkerKeepsWork DEF Process
  <2>9. ASSUME (\E j \in Job : Requeue(j)) \/ WorkerFault PROVE Charged'
    BY <1>2, <2>9, <2>1, WorkerUpdates, WorkerKeepsWork
  <2>10. CASE UNCHANGED vars
    BY <1>2, <2>10 DEF vars, queueVars, rowVars, apiVars, Charged, ChargesMatchRows
  <2>11. QED
    BY <1>2, <2>3, <2>4, <2>5, <2>6, <2>7, <2>8, <2>9, <2>10 DEF Next, Process, Handle
<1>3. Charged => ChargesMatchRows
  BY DEF Charged
<1>4. QED
  BY <1>1, <1>2, <1>3, ScoreTypeCorrect, PTL DEF Spec

(***************************************************************************)
(* A job the queue has completed has left a row with an outcome, as long   *)
(* as no slot ran on without its lock, however often workers die.          *)
(***************************************************************************)
THEOREM DoneScoresAreSettled == Spec => []DoneIsSettled
<1>1. Init => Settling
  BY DEF Init, QueueInit, Idle, Settling
<1>2. ASSUME TypeOK, QueueInv, Charged, Settling, [Next]_vars PROVE Settling'
  <2>1. \A q \in Job : jobs'[q].state # "new" => request'[q] = "over"
    <3>1. ASSUME NEW q \in Job, Admit(q) \/ Insert(q) \/ Charge(q) \/ Die(q) \/ DeleteJob(q)
          PROVE  \A p \in Job : jobs'[p].state # "new" => request'[p] = "over"
      BY <1>2, <3>1 DEF Admit, Insert, Charge, Die, DeleteJob, InFlight, queueVars, apiVars, Settling,
                        TypeOK
    <3>2. ASSUME NEW q \in Job, Enqueue(q)
          PROVE  \A p \in Job : jobs'[p].state # "new" => request'[p] = "over"
      BY <1>2, <3>2 DEF Enqueue, Add, Settling, TypeOK, QueueTypeOK
    <3>3. ASSUME SameWork, UNCHANGED apiVars
          PROVE  \A p \in Job : jobs'[p].state # "new" => request'[p] = "over"
      BY <1>2, <3>3 DEF SameWork, apiVars, Settling
    <3>4. QED
      BY <1>2, <3>1, <3>2, <3>3, WorkerUpdates, WorkerKeepsWork
         DEF Next, Process, Handle, vars, queueVars, apiVars, Settling
  <2> SUFFICES ASSUME faults'.lost = 0
               PROVE  /\ \A q \in Job : jobs'[q].state = "done" => status'[q] \in Outcome
                      /\ \A s \in Slot : slots'[s].pc # "idle" => slots'[s].locked
                      /\ \A s \in Slot : slots'[s].pc = "returned" =>
                           status'[slots'[s].job] \in Outcome
    BY <2>1 DEF Settling
  <2> DEFINE Settled ==
        /\ \A q \in Job : jobs[q].state = "done" => status[q] \in Outcome
        /\ \A s \in Slot : slots[s].pc # "idle" => slots[s].locked
        /\ \A s \in Slot : slots[s].pc = "returned" => status[slots[s].job] \in Outcome
  <2>2. ASSUME faults.lost = 0
        PROVE  /\ Settled
               /\ \A s \in Slot : slots[s].pc # "idle" =>
                    /\ slots[s].job \in Job
                    /\ jobs[slots[s].job].state = "active"
                    /\ request[slots[s].job] = "over"
                    /\ status[slots[s].job] # "absent"
               /\ \A s, t \in Slot : slots[s].pc # "idle" /\ slots[t].pc # "idle"
                                      /\ slots[s].job = slots[t].job => s = t
    BY <1>2, <2>2 DEF Settling, QueueInv, QueueTypeOK, LocksAreExclusive, SlotRecord, Charged,
                      ChargesMatchRows
  <2>3. ASSUME UNCHANGED queueVars,
               \A q \in Job : status[q] \in Outcome => status'[q] \in Outcome
        PROVE  Settled'
    BY <1>2, <2>2, <2>3 DEF queueVars
  <2>4. ASSUME NEW q \in Job, Admit(q) \/ Charge(q) \/ DeleteJob(q) PROVE Settled'
    BY <2>3, <2>4, <1>2 DEF Admit, Charge, DeleteJob, rowVars, Outcome, TypeOK
  <2>5. ASSUME NEW q \in Job, Insert(q) PROVE Settled'
    <3>1. jobs[q].state # "done" /\ faults.lost = 0
      BY <1>2, <2>5 DEF Insert, Settling, queueVars
    <3>2. \A p \in Job \ {q} : status'[p] = status[p]
      BY <1>2, <2>5 DEF Insert, TypeOK
    <3>3. UNCHANGED queueVars /\ request[q] # "over"
      BY <2>5 DEF Insert
    <3>4. QED
      BY <2>2, <3>1, <3>2, <3>3 DEF queueVars
  <2>6. ASSUME NEW q \in Job, Enqueue(q) \/ Die(q) PROVE Settled'
    <3>1. faults.lost = 0 /\ status' = status /\ slots' = slots
      BY <1>2, <2>6 DEF Enqueue, Add, Die, Death, rowVars, QueueInv, QueueTypeOK
    <3>2. CASE Enqueue(q)
      <4>1. \A p \in Job : jobs'[p].state = "done" => jobs[p].state = "done"
        BY <1>2, <3>2 DEF Enqueue, Add, QueueInv, QueueTypeOK
      <4>2. QED
        BY <2>2, <3>1, <4>1
    <3>3. CASE Die(q)
      BY <2>2, <3>1, <3>3 DEF Die
    <3>4. QED
      BY <2>6, <3>2, <3>3
  <2>7. ASSUME NEW s \in Slot, Take(s) PROVE Settled'
    <3>1. PICK j \in Job : Pick(s, j)
      BY <2>7 DEF Take
    <3>2. faults.lost = 0 /\ status' = status
      BY <2>7, <3>1 DEF Take, Pick, rowVars
    <3>3. /\ \A p \in Job : jobs'[p].state = "done" => jobs[p].state = "done"
          /\ \A t \in Slot \ {s} : slots'[t] = slots[t]
          /\ slots'[s].pc = "picked" /\ slots'[s].locked
      BY <1>2, <3>1 DEF Pick, QueueInv, QueueTypeOK
    <3>4. QED
      BY <2>2, <3>2, <3>3
  <2>8. ASSUME NEW s \in Slot, Load(s) PROVE Settled'
    BY <1>2, <2>2, <2>8 DEF Load, Advance, rowVars, QueueInv, QueueTypeOK, SlotRecord
  <2>9. ASSUME NEW s \in Slot, NEW st \in {"scoring", "complete"}, NEW has, NEW failed,
               NEW from \in {"guarded", "working"}, NEW to \in {"working", "returned"},
               to = "returned" => st = "complete",
               Advance(s, from, to), RowUpdate(slots[s].job, st, has, failed)
        PROVE  Settled'
    <3> DEFINE q == slots[s].job
    <3>1. faults.lost = 0 /\ jobs' = jobs /\ slots[s].pc # "idle"
      BY <2>9 DEF Advance
    <3>2. /\ \A t \in Slot \ {s} : slots'[t] = slots[t]
          /\ slots'[s].job = q /\ slots'[s].locked = slots[s].locked /\ slots'[s].pc = to
      BY <1>2, <2>9 DEF Advance, QueueInv, QueueTypeOK, SlotRecord
    <3>3. q \in Job /\ status[q] # "absent" /\ jobs[q].state = "active"
      BY <2>2, <3>1
    <3>4. /\ st \in Status /\ has \in BOOLEAN /\ failed \in BOOLEAN
          /\ UpdateRow(q, st, has, failed)
      BY <2>9 DEF RowUpdate, Status
    <3>5. /\ \A p \in Job \ {q} : status'[p] = status[p]
          /\ st = "complete" => status'[q] \in Outcome
      BY <1>2, <3>3, <3>4, UpdateOneRow DEF Outcome
    <3>6. \A t \in Slot \ {s} : slots[t].pc # "idle" => slots[t].job \in Job \ {q}
      BY <2>2, <3>1
    <3>7. QED
      BY <2>2, <2>9, <3>1, <3>2, <3>3, <3>5, <3>6
  <2>10. ASSUME NEW s \in Slot, Return(s) \/ Fail(s) PROVE Settled'
    <3>1. faults.lost = 0 /\ status' = status
      BY <2>10 DEF Return, Fail, Ack, Throw, rowVars
    <3>2. /\ \A t \in Slot \ {s} : slots'[t] = slots[t]
          /\ slots'[s].pc = "idle"
      BY <1>2, <2>10 DEF Return, Fail, Ack, Throw, Idle, QueueInv, QueueTypeOK
    <3>3. ASSUME NEW p \in Job, jobs'[p].state = "done"
          PROVE  jobs[p].state = "done" \/ (slots[s].pc = "returned" /\ p = slots[s].job)
      <4> slots[s].pc # "idle" => slots[s].job \in Job
        BY <1>2 DEF QueueInv, QueueTypeOK, SlotRecord
      <4>1. CASE Return(s)
        BY <1>2, <3>3, <4>1 DEF Return, Ack, QueueInv, QueueTypeOK
      <4>2. CASE Fail(s)
        <5>1. slots[s].job \in Job
          BY <4>2 DEF Fail, Throw
        <5>2. CASE jobs' = jobs
          BY <3>3, <5>2
        <5>3. CASE jobs' # jobs
          BY <1>2, <3>3, <4>2, <5>1, <5>3 DEF Fail, Throw, QueueInv, QueueTypeOK, JobRecord
        <5>4. QED
          BY <5>2, <5>3
      <4>3. QED
        BY <2>10, <4>1, <4>2
    <3>4. QED
      BY <2>2, <3>1, <3>2, <3>3
  <2>11. ASSUME NEW e \in Event, OnFailed(e) PROVE Settled'
    <3>1. jobs' = jobs /\ slots' = slots /\ faults.lost = 0
      BY <2>11 DEF OnFailed, Handled
    <3>2. \A p \in Job : status[p] \in Outcome => status'[p] \in Outcome
      BY <1>2, <2>11 DEF OnFailed, UpdateRow, rowVars, Outcome, TypeOK, Event
    <3>3. \A t \in Slot : slots[t].pc # "idle" => slots[t].job \in Job
      BY <2>2, <3>1
    <3>4. QED
      BY <2>2, <3>1, <3>2, <3>3
  <2>12. ASSUME NEW j \in Job, Requeue(j) PROVE Settled'
    <3>1. faults.lost = 0 /\ status' = status /\ slots' = slots
      BY <2>12 DEF Requeue, RetryDue, Recover, rowVars
    <3>2. \A p \in Job : jobs'[p].state = "done" => jobs[p].state = "done"
      BY <1>2, <2>12 DEF Requeue, RetryDue, Recover, QueueInv, QueueTypeOK, JobRecord
    <3>3. QED
      BY <2>2, <3>1, <3>2
  <2>13. CASE WorkerFault
    <3>1. CASE Crash
      <4>1. faults.lost = 0 /\ status' = status /\ jobs' = jobs
        BY <1>2, <2>13, <3>1 DEF WorkerFault, Crash, Death, rowVars, QueueInv, QueueTypeOK
      <4>2. \A t \in Slot : slots'[t].pc = "idle"
        BY <3>1 DEF Crash, Idle
      <4>3. QED
        BY <2>2, <4>1, <4>2
    <3>2. ASSUME NEW s \in Slot, LoseLock(s) PROVE FALSE
      <4>1. faults.lost \in Nat /\ faults'.lost = faults.lost + 1
        BY <1>2, <3>2, JobQueueAssumption DEF LoseLock, QueueInv, QueueTypeOK
      <4>2. QED
        BY <4>1
    <3>3. QED
      BY <2>13, <3>1, <3>2 DEF WorkerFault
  <2>14. CASE UNCHANGED vars
    BY <2>3, <2>14 DEF vars, rowVars
  <2>15. ASSUME NEW s \in Slot, MarkScoring(s) \/ WriteScore(s) PROVE Settled'
    BY <1>2, <2>15, <2>9, WorkerUpdates DEF MarkScoring, WriteScore
  <2>16. QED
    BY <1>2, <2>4, <2>5, <2>6, <2>7, <2>8, <2>10, <2>11, <2>12, <2>13, <2>14, <2>15
       DEF Next, Process, Handle
<1>3. Settling => DoneIsSettled
  BY DEF Settling, DoneIsSettled, Outcome
<1>4. QED
  BY <1>1, <1>2, <1>3, ScoreTypeCorrect, ScoresArePaidFor, PTL DEF Spec
===============================================================================
