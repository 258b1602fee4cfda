------------------------- MODULE ParsePipeline_proofs -------------------------
(* Theorems about ParsePipeline, for every number of versions,             *)
(* confirmations, slots and attempts.                                      *)
EXTENDS ParsePipeline, JobQueue_proofs

(***************************************************************************)
(* What a step of the users and of the worker does to the queue.           *)
(***************************************************************************)
LEMMA ParseUsesTheQueue == Next => QueueStep \/ UNCHANGED queueVars
<1> SUFFICES ASSUME Next PROVE QueueStep \/ UNCHANGED queueVars
  OBVIOUS
<1>1. ASSUME NEW v \in Version, Upload(v) \/ SoftDelete(v) \/ Purge(v) PROVE UNCHANGED queueVars
  BY <1>1 DEF Upload, SoftDelete, Purge
<1>2. ASSUME NEW q \in Job, CheckStatus(q) \/ Handle(q) \/ Die(q)
      PROVE  QueueStep \/ UNCHANGED queueVars
  BY <1>2 DEF CheckStatus, Handle, CheckObject, MarkUploaded, Enqueue, Die, QueueStep
<1>3. ASSUME NEW s \in Slot, Take(s) \/ Return(s) \/ Fail(s) PROVE QueueStep
  BY <1>3 DEF Take, Return, Fail, QueueStep
<1>4. ASSUME NEW s \in Slot, MarkParsing(s) PROVE QueueStep
  BY <1>4 DEF MarkParsing, QueueStep
<1>5. ASSUME NEW s \in Slot, Download(s) PROVE QueueStep
  BY <1>5 DEF Download, QueueStep
<1>6. ASSUME NEW s \in Slot, WriteParsed(s) PROVE QueueStep
  BY <1>6 DEF WriteParsed, QueueStep
<1>7. ASSUME NEW e \in Event, OnFailed(e) PROVE QueueStep
  BY <1>7 DEF OnFailed, QueueStep
<1>8. ASSUME NEW j \in Job, Requeue(j) PROVE QueueStep
  BY <1>8 DEF Requeue, QueueStep
<1>9. CASE WorkerFault
  BY <1>9 DEF WorkerFault, QueueStep
<1>10. QED
  BY <1>1, <1>2, <1>3, <1>4, <1>5, <1>6, <1>7, <1>8, <1>9 DEF Next, Process

\* The parser keeps the queue's invariant.
LEMMA ParseQueueInv == QueueInv /\ [Next]_vars => QueueInv'
<1>1. ASSUME QueueInv, UNCHANGED queueVars PROVE QueueInv'
  BY <1>1 DEF QueueInv, QueueTypeOK, LocksAreExclusive, queueVars
<1>2. QED
  BY <1>1, ParseUsesTheQueue, QueueStepInv DEF vars

\* A step of the parser gives no slot a job that was not added before.
LEMMA ParserKeepsWork ==
  ASSUME QueueInv,
         \/ \E s \in Slot : Take(s) \/ Process(s)
         \/ \E e \in Event : OnFailed(e)
         \/ \E j \in Job : Requeue(j)
         \/ WorkerFault
  PROVE  SameWork
<1>1. WorkStep
  BY DEF WorkStep, Take, Process, MarkParsing, Download, WriteParsed, Return, Fail, OnFailed,
         Requeue, WorkerFault
<1>2. QED
  BY <1>1, WorkStepKeepsWork

(***************************************************************************)
(* An UPDATE changes one row.                                              *)
(***************************************************************************)
RowUpdate(v, st, has, failed) ==
  v \in Version /\ has \in BOOLEAN /\ failed \in BOOLEAN /\ UpdateRow(v, st, has, failed)

LEMMA UpdateOneVersion ==
  ASSUME TypeOK, NEW v, NEW st \in Status, NEW has, NEW failed, RowUpdate(v, st, has, failed)
  PROVE  /\ v \in Version
         /\ status' \in [Version -> Status] /\ parsed' \in [Version -> BOOLEAN]
         /\ error' \in [Version -> BOOLEAN]
         /\ \A w \in Version \ {v} :
              status'[w] = status[w] /\ parsed'[w] = parsed[w] /\ error'[w] = error[w]
         /\ status'[v] = st /\ parsed'[v] = has /\ error'[v] = failed
BY DEF TypeOK, UpdateRow, RowUpdate

\* The row of a job that runs is a row.
LEMMA WorkRowIsARow ==
  ASSUME TypeOK, NEW s \in Slot, slots[s].pc # "idle"
  PROVE  slots[s].job \in Job /\ WorkRow(s) \in Version
<1>1. slots[s].job \in Job
  BY DEF TypeOK, QueueTypeOK, SlotRecord
<1>2. QED
  BY <1>1, ParseAssumption DEF WorkRow

(***************************************************************************)
(* The steps that change rows, as updates of one row.                      *)
(***************************************************************************)
LEMMA ParserUpdates ==
  ASSUME TypeOK
  PROVE  /\ \A q \in Job : MarkUploaded(q) =>
              RowUpdate(VersionOf[q], "uploaded", parsed[VersionOf[q]], error[VersionOf[q]])
         /\ \A s \in Slot : MarkParsing(s) =>
              /\ RowUpdate(WorkRow(s), "parsing", parsed[WorkRow(s)], error[WorkRow(s)])
              /\ UNCHANGED userVars
         /\ \A s \in Slot : WriteParsed(s) =>
              RowUpdate(WorkRow(s), "complete", TRUE, FALSE) /\ UNCHANGED userVars
         /\ \A e \in Event : OnFailed(e) =>
              /\ RowUpdate(VersionOf[e[1]], "failed", parsed[VersionOf[e[1]]], TRUE)
              /\ UNCHANGED userVars
         /\ \A s \in Slot : Take(s) \/ Download(s) \/ Return(s) \/ Fail(s) =>
              UNCHANGED <<rowVars, userVars>>
         /\ (\E j \in Job : Requeue(j)) \/ WorkerFault => UNCHANGED <<rowVars, userVars>>
<1>1. ASSUME NEW q \in Job, MarkUploaded(q)
      PROVE  RowUpdate(VersionOf[q], "uploaded", parsed[VersionOf[q]], error[VersionOf[q]])
  BY <1>1, ParseAssumption DEF MarkUploaded, RowUpdate, TypeOK
<1>2. ASSUME NEW s \in Slot, MarkParsing(s)
      PROVE  RowUpdate(WorkRow(s), "parsing", parsed[WorkRow(s)], error[WorkRow(s)])
  BY <1>2, WorkRowIsARow DEF MarkParsing, Advance, RowUpdate, TypeOK
<1>3. ASSUME NEW s \in Slot, WriteParsed(s)
      PROVE  RowUpdate(WorkRow(s), "complete", TRUE, FALSE)
  BY <1>3, WorkRowIsARow DEF WriteParsed, Advance, RowUpdate
<1>4. ASSUME NEW e \in Event, OnFailed(e)
      PROVE  RowUpdate(VersionOf[e[1]], "failed", parsed[VersionOf[e[1]]], TRUE)
  BY <1>4, ParseAssumption DEF OnFailed, RowUpdate, TypeOK, Event
<1>5. ASSUME NEW s \in Slot, Take(s) \/ Download(s) \/ Return(s) \/ Fail(s)
      PROVE  UNCHANGED <<rowVars, userVars>>
  BY <1>5 DEF Take, Download, Return, Fail
<1>6. ASSUME (\E j \in Job : Requeue(j)) \/ WorkerFault PROVE UNCHANGED <<rowVars, userVars>>
  BY <1>6 DEF Requeue, WorkerFault
<1>7. QED
  BY <1>1, <1>2, <1>3, <1>4, <1>5, <1>6 DEF MarkParsing, WriteParsed, OnFailed

(***************************************************************************)
(* Type correctness, with the queue's own invariant.                       *)
(***************************************************************************)
THEOREM ParseTypeCorrect == Spec => [](TypeOK /\ QueueInv)
<1>1. Init => TypeOK /\ QueueInv
  BY QueueInitInv DEF Init, TypeOK, QueueInv, Status, ConfirmState
<1>2. TypeOK /\ QueueInv /\ [Next]_vars => TypeOK' /\ QueueInv'
  <2> SUFFICES ASSUME TypeOK, QueueInv, [Next]_vars
               PROVE  /\ status' \in [Version -> Status]
                      /\ parsed' \in [Version -> BOOLEAN]
                      /\ error' \in [Version -> BOOLEAN]
                      /\ deleted' \in [Version -> BOOLEAN]
                      /\ file' \in [Version -> BOOLEAN]
                      /\ purging' \subseteq Version
                      /\ confirm' \in [Job -> ConfirmState]
    BY ParseQueueInv DEF TypeOK, QueueInv
  <2> DEFINE RowsOK == /\ status' \in [Version -> Status]
                       /\ parsed' \in [Version -> BOOLEAN]
                       /\ error' \in [Version -> BOOLEAN]
             UserOK == /\ deleted' \in [Version -> BOOLEAN]
                       /\ file' \in [Version -> BOOLEAN]
                       /\ purging' \subseteq Version
                       /\ confirm' \in [Job -> ConfirmState]
  <2>1. ASSUME UNCHANGED rowVars PROVE RowsOK
    BY <2>1 DEF TypeOK, rowVars
  <2>2. ASSUME UNCHANGED userVars PROVE UserOK
    BY <2>2 DEF TypeOK, userVars
  <2>3. ASSUME NEW v, NEW st \in {"uploaded", "parsing", "complete", "failed"}, NEW has, NEW failed,
               RowUpdate(v, st, has, failed)
        PROVE  RowsOK
    BY <2>3, UpdateOneVersion DEF Status
  <2>4. ASSUME NEW v \in Version, Upload(v) \/ SoftDelete(v) \/ Purge(v) PROVE RowsOK /\ UserOK
    <3>1. RowsOK
      BY <2>1, <2>4 DEF Upload, SoftDelete, Purge
    <3>2. UserOK
      BY <2>4 DEF Upload, SoftDelete, Purge, TypeOK
    <3>3. QED
      BY <3>1, <3>2
  <2>5. ASSUME NEW q \in Job, CheckStatus(q) \/ CheckObject(q) \/ Enqueue(q) \/ Die(q)
        PROVE  RowsOK /\ UserOK
    <3>1. RowsOK
      BY <2>1, <2>5 DEF CheckStatus, CheckObject, Enqueue, Die
    <3>2. UserOK
      BY <2>5 DEF CheckStatus, CheckObject, Enqueue, Die, TypeOK, ConfirmState
    <3>3. QED
      BY <3>1, <3>2
  <2>6. ASSUME NEW q \in Job, MarkUploaded(q) PROVE RowsOK /\ UserOK
    <3>1. RowsOK
      BY <2>3, <2>6, ParserUpdates
    <3>2. UserOK
      BY <2>6 DEF MarkUploaded, TypeOK, ConfirmState
    <3>3. QED
      BY <3>1, <3>2
  <2> HIDE DEF RowsOK, UserOK
  <2>7. ASSUME NEW s \in Slot, Take(s) \/ Process(s) PROVE RowsOK /\ UserOK
    BY <2>1, <2>2, <2>3, <2>7, ParserUpdates DEF Process
  <2>8. ASSUME NEW e \in Event, OnFailed(e) PROVE RowsOK /\ UserOK
    BY <2>2, <2>3, <2>8, ParserUpdates
  <2>9. ASSUME (\E j \in Job : Requeue(j)) \/ WorkerFault PROVE RowsOK /\ UserOK
    BY <2>1, <2>2, <2>9, ParserUpdates
  <2>10. ASSUME UNCHANGED vars PROVE RowsOK /\ UserOK
    BY <2>1, <2>2, <2>10 DEF vars
  <2>11. RowsOK /\ UserOK
    BY <2>4, <2>5, <2>6, <2>7, <2>8, <2>9, <2>10 DEF Next, Handle
  <2>12. QED
    BY <2>11 DEF RowsOK, UserOK
<1>3. QED
  BY <1>1, <1>2, PTL DEF Spec

(***************************************************************************)
(* resume.ts:19-26: what the columns of a version say agrees with its      *)
(* status, in any order of confirmations, retries and late listeners.      *)
(***************************************************************************)
THEOREM ParseColumnsAgree == Spec => []StatusMatchesColumns
<1>1. Init => StatusMatchesColumns
  BY DEF Init, StatusMatchesColumns
<1>2. ASSUME TypeOK, StatusMatchesColumns, [Next]_vars PROVE StatusMatchesColumns'
  <2>1. ASSUME UNCHANGED rowVars PROVE StatusMatchesColumns'
    BY <1>2, <2>1 DEF StatusMatchesColumns, rowVars
  <2>2. ASSUME NEW v, NEW st \in {"uploaded", "parsing", "complete", "failed"}, NEW has, NEW failed,
               RowUpdate(v, st, has, failed), st = "complete" => has /\ ~failed,
               st = "failed" => failed
        PROVE  StatusMatchesColumns'
    <3>1. st \in Status
      BY DEF Status
    <3>2. /\ \A w \in Version \ {v} :
               status'[w] = status[w] /\ parsed'[w] = parsed[w] /\ error'[w] = error[w]
          /\ status'[v] = st /\ parsed'[v] = has /\ error'[v] = failed
      BY <1>2, <2>2, <3>1, UpdateOneVersion
    <3>3. QED
      BY <1>2, <2>2, <3>2 DEF StatusMatchesColumns
  <2>3. ASSUME NEW v \in Version, Upload(v) \/ SoftDelete(v) \/ Purge(v) PROVE UNCHANGED rowVars
    BY <2>3 DEF Upload, SoftDelete, Purge
  <2>4. ASSUME NEW q \in Job, CheckStatus(q) \/ CheckObject(q) \/ Enqueue(q) \/ Die(q)
        PROVE  UNCHANGED rowVars
    BY <2>4 DEF CheckStatus, CheckObject, Enqueue, Die
  <2>5. QED
    BY <1>2, <2>1, <2>2, <2>3, <2>4, ParserUpdates DEF Next, Handle, Process, vars
<1>3. QED
  BY <1>1, <1>2, ParseTypeCorrect, PTL DEF Spec

(***************************************************************************)
(* A version the user sees keeps its file: what the confirmation has found *)
(* stays found, for its job and the slot that runs it, because the row is  *)
(* deleted before the file.                                                *)
(***************************************************************************)
Kept(v) == deleted[v] \/ file[v]

FilesKept ==
  /\ \A v \in purging : deleted[v]
  /\ \A q \in Job : confirm[q] \in {"found", "marked"} => Kept(VersionOf[q])
  /\ \A q \in Job : jobs[q].state # "new" => Kept(VersionOf[q])
  /\ \A s \in Slot : slots[s].pc # "idle" => Kept(WorkRow(s))
  /\ \A v \in Version : status[v] \in {"uploaded", "parsing", "complete"} => Kept(v)

(***************************************************************************)
(* A version the user sees, once confirmed, has its file, however          *)
(* confirmations, a deletion and the worker interleave.                    *)
(***************************************************************************)
THEOREM ConfirmedFilesStay == Spec => []FileIsThere
<1>1. Init => FilesKept
  BY DEF Init, QueueInit, Idle, FilesKept
<1>2. ASSUME TypeOK, QueueInv, FilesKept, [Next]_vars PROVE FilesKept'
  <2> USE ParseAssumption
  <2>1. /\ \A v \in purging' : deleted'[v]
        /\ \A v \in Version : Kept(v) => Kept(v)'
    <3>1. ASSUME NEW v \in Version, Upload(v) \/ SoftDelete(v) \/ Purge(v)
          PROVE  /\ \A w \in purging' : deleted'[w]
                 /\ \A w \in Version : Kept(w) => Kept(w)'
      BY <1>2, <3>1 DEF Upload, SoftDelete, Purge, TypeOK, FilesKept, Kept
    <3>2. ASSUME UNCHANGED <<deleted, file, purging>>
          PROVE  /\ \A w \in purging' : deleted'[w]
                 /\ \A w \in Version : Kept(w) => Kept(w)'
      BY <1>2, <3>2 DEF FilesKept, Kept
    <3>3. ASSUME NEW q \in Job, CheckStatus(q) \/ Handle(q) \/ Die(q)
          PROVE  UNCHANGED <<deleted, file, purging>>
      BY <3>3 DEF CheckStatus, Handle, CheckObject, MarkUploaded, Enqueue, Die
    <3>4. QED
      BY <1>2, <3>1, <3>2, <3>3, ParserUpdates DEF Next, Process, vars, userVars
  <2>2. \A q \in Job : confirm'[q] \in {"found", "marked"} => Kept(VersionOf[q])
    <3>1. ASSUME NEW q \in Job, CheckStatus(q) \/ Handle(q) \/ Die(q)
          PROVE  \A p \in Job : confirm'[p] \in {"found", "marked"} => Kept(VersionOf[p])
      BY <1>2, <3>1 DEF CheckStatus, Handle, CheckObject, MarkUploaded, Enqueue, Die, TypeOK,
                        FilesKept, Kept
    <3>2. ASSUME NEW v \in Version, Upload(v) \/ SoftDelete(v) \/ Purge(v)
          PROVE  UNCHANGED confirm
      BY <3>2 DEF Upload, SoftDelete, Purge
    <3>3. QED
      BY <1>2, <3>1, <3>2, ParserUpdates DEF Next, Process, vars, userVars, FilesKept
  <2>3. /\ \A q \in Job : jobs'[q].state # "new" => Kept(VersionOf[q])
        /\ \A s \in Slot : slots'[s].pc # "idle" => Kept(VersionOf[slots'[s].job])
    <3> DEFINE Jobs == \A q \in Job : jobs'[q].state # "new" => Kept(VersionOf[q])
               Slots == \A s \in Slot : slots'[s].pc # "idle" => Kept(VersionOf[slots'[s].job])
    <3>1. CASE SameWork
      BY <1>2, <3>1 DEF SameWork, FilesKept, WorkRow
    <3>2. ASSUME UNCHANGED <<jobs, slots>> PROVE Jobs /\ Slots
      BY <1>2, <3>2 DEF FilesKept, WorkRow
    <3>3. ASSUME NEW q \in Job, Enqueue(q) PROVE Jobs /\ Slots
      BY <1>2, <3>3 DEF Enqueue, Add, FilesKept, WorkRow, QueueInv, QueueTypeOK
    <3>4. ASSUME NEW v \in Version, Upload(v) \/ SoftDelete(v) \/ Purge(v)
          PROVE  UNCHANGED <<jobs, slots>>
      BY <3>4 DEF Upload, SoftDelete, Purge, queueVars
    <3>5. ASSUME NEW q \in Job, CheckStatus(q) \/ CheckObject(q) \/ MarkUploaded(q) \/ Die(q)
          PROVE  UNCHANGED <<jobs, slots>>
      BY <3>5 DEF CheckStatus, CheckObject, MarkUploaded, Die, queueVars
    <3>6. QED
      BY <1>2, <3>1, <3>2, <3>3, <3>4, <3>5, ParserKeepsWork
         DEF Next, Handle, vars, queueVars
  <2>4. \A v \in Version : status'[v] \in {"uploaded", "parsing", "complete"} => Kept(v)
    <3>1. ASSUME UNCHANGED rowVars
          PROVE  \A v \in Version : status'[v] \in {"uploaded", "parsing", "complete"} => Kept(v)
      BY <1>2, <3>1 DEF FilesKept, rowVars
    <3>2. ASSUME NEW v, NEW st \in {"uploaded", "parsing", "complete", "failed"}, NEW has,
                 NEW failed, RowUpdate(v, st, has, failed), st = "failed" \/ Kept(v)
          PROVE  \A w \in Version : status'[w] \in {"uploaded", "parsing", "complete"} => Kept(w)
      <4>1. st \in Status
        BY DEF Status
      <4>2. status'[v] = st /\ \A w \in Version \ {v} : status'[w] = status[w]
        BY <1>2, <3>2, <4>1, UpdateOneVersion
      <4>3. QED
        BY <1>2, <3>2, <4>2 DEF FilesKept
    <3>3. ASSUME NEW v \in Version, Upload(v) \/ SoftDelete(v) \/ Purge(v) PROVE UNCHANGED rowVars
      BY <3>3 DEF Upload, SoftDelete, Purge
    <3>4. ASSUME NEW q \in Job, CheckStatus(q) \/ CheckObject(q) \/ Enqueue(q) \/ Die(q)
          PROVE  UNCHANGED rowVars
      BY <3>4 DEF CheckStatus, CheckObject, Enqueue, Die
    <3>5. ASSUME NEW q \in Job, MarkUploaded(q) PROVE Kept(VersionOf[q])
      BY <1>2, <3>5 DEF MarkUploaded, FilesKept
    <3>6. ASSUME NEW s \in Slot, MarkParsing(s) \/ WriteParsed(s) PROVE Kept(WorkRow(s))
      BY <1>2, <3>6 DEF MarkParsing, WriteParsed, Advance, FilesKept
    <3> HIDE DEF Kept
    <3>7. QED
      BY <1>2, <3>1, <3>2, <3>3, <3>4, <3>5, <3>6, ParserUpdates DEF Next, Handle, Process, vars
  <2>5. \A s \in Slot : slots'[s].pc # "idle" => VersionOf[slots'[s].job] \in Version
    BY <1>2, ParseQueueInv DEF QueueInv, QueueTypeOK, SlotRecord
  <2>6. QED
    BY <1>2, <2>1, <2>2, <2>3, <2>4, <2>5 DEF FilesKept, WorkRow
<1>3. FilesKept => FileIsThere
  BY DEF FilesKept, FileIsThere, Kept
<1>4. QED
  BY <1>1, <1>2, <1>3, ParseTypeCorrect, PTL DEF Spec

(***************************************************************************)
(* As long as nothing crashes and no lock is lost, an uploaded or parsing  *)
(* version has somebody who will still give it an outcome.                 *)
(***************************************************************************)
THEOREM NoVersionIsForgotten == Spec => []NoOrphan
<1>1. Init => NoOrphan /\ BusyIsLocked
  BY DEF Init, NoOrphan, QueueInit, Idle, BusyIsLocked
<1>2. ASSUME TypeOK, QueueInv, BusyIsLocked, NoOrphan, [Next]_vars PROVE NoOrphan'
  <2> SUFFICES ASSUME Calm', NEW v \in Version, status'[v] \in {"uploaded", "parsing"}
               PROVE  Pursued(v)'
    BY DEF NoOrphan
  <2> USE ParseAssumption
  <2>1. Calm /\ ~Death /\ \A s \in Slot : ~LoseLock(s)
    <3>1. CASE UNCHANGED vars
      <4>1. Calm
        BY <3>1 DEF Calm, vars, queueVars
      <4>2. faults.died \in Nat /\ faults.lost \in Nat
        BY <1>2, JobQueueAssumption DEF QueueInv, QueueTypeOK
      <4>3. QED
        BY <3>1, <4>1, <4>2, <1>2 DEF Death, LoseLock, vars, queueVars, QueueInv, QueueTypeOK
    <3>2. CASE QueueStep
      BY <1>2, <3>2, CalmStep DEF QueueInv
    <3>3. CASE UNCHANGED queueVars
      <4>1. Calm
        BY <3>3 DEF Calm, queueVars
      <4>2. faults.died \in Nat /\ faults.lost \in Nat
        BY <1>2, JobQueueAssumption DEF QueueInv, QueueTypeOK
      <4>3. QED
        BY <3>3, <4>1, <4>2, <1>2 DEF Death, LoseLock, queueVars, QueueInv, QueueTypeOK
    <3>4. QED
      BY <1>2, <3>1, <3>2, <3>3, ParseUsesTheQueue
  <2>2. /\ status[v] \in {"uploaded", "parsing"} => Pursued(v)
        /\ \A s \in Slot : slots[s].pc # "idle" =>
             slots[s].job \in Job /\ slots[s].locked /\ jobs[slots[s].job].state = "active"
    BY <1>2, <2>1 DEF NoOrphan, BusyIsLocked, Calm, QueueInv, QueueTypeOK, LocksAreExclusive,
                      SlotRecord
  <2>3. ASSUME UNCHANGED <<jobs, slots, failedEvents, status>>,
               \A q \in Job : confirm[q] = "marked" => confirm'[q] = "marked"
        PROVE  Pursued(v)'
    BY <2>2, <2>3 DEF Pursued, WorkRow
  <2>4. ASSUME NEW w \in Version, Upload(w) \/ SoftDelete(w) \/ Purge(w) PROVE Pursued(v)'
    BY <2>3, <2>4 DEF Upload, SoftDelete, Purge, queueVars, rowVars
  <2>5. ASSUME NEW q \in Job, CheckStatus(q) \/ CheckObject(q) PROVE Pursued(v)'
    BY <1>2, <2>3, <2>5 DEF CheckStatus, CheckObject, queueVars, rowVars, TypeOK
  <2>6. ASSUME NEW q \in Job, MarkUploaded(q) PROVE Pursued(v)'
    <3>1. CASE VersionOf[q] = v
      BY <1>2, <2>6, <3>1 DEF MarkUploaded, Pursued, TypeOK
    <3>2. CASE VersionOf[q] # v
      <4>1. status'[v] = status[v]
        BY <1>2, <2>6, <3>2 DEF MarkUploaded, UpdateRow, TypeOK
      <4>2. /\ \A p \in Job : confirm[p] = "marked" => confirm'[p] = "marked"
            /\ UNCHANGED <<jobs, slots, failedEvents>>
        BY <1>2, <2>6 DEF MarkUploaded, queueVars, TypeOK
      <4>3. QED
        BY <2>2, <4>1, <4>2 DEF Pursued, WorkRow
    <3>3. QED
      BY <3>1, <3>2
  <2>7. ASSUME NEW q \in Job, Enqueue(q) PROVE Pursued(v)'
    <3>1. /\ UNCHANGED <<slots, failedEvents, status>>
          /\ jobs'[q].state = "wait"
          /\ \A p \in Job \ {q} : jobs'[p] = jobs[p] /\ confirm'[p] = confirm[p]
      BY <1>2, <2>7 DEF Enqueue, Add, rowVars, TypeOK, QueueTypeOK, JobRecord
    <3>2. QED
      BY <2>2, <3>1 DEF Pursued, WorkRow
  <2>8. ASSUME NEW s \in Slot, Take(s) PROVE Pursued(v)'
    <3>1. PICK j \in Job : Pick(s, j)
      BY <2>8 DEF Take
    <3>2. /\ UNCHANGED <<confirm, failedEvents, status>>
          /\ \A p \in Job \ {j} : jobs'[p] = jobs[p]
          /\ \A t \in Slot \ {s} : slots'[t] = slots[t]
          /\ slots[s].pc = "idle" /\ slots'[s].job = j /\ slots'[s].pc = "picked"
      BY <1>2, <2>8, <3>1 DEF Take, Pick, rowVars, userVars, TypeOK, QueueTypeOK
    <3>3. QED
      BY <2>2, <3>2 DEF Pursued, WorkRow
  <2>9. ASSUME NEW s \in Slot, NEW to \in {"guarded", "working"},
               NEW from \in {"picked", "guarded", "working"}, Advance(s, from, to),
               status'[v] = status[v] \/ v = WorkRow(s), UNCHANGED userVars
        PROVE  Pursued(v)'
    <3>1. /\ UNCHANGED <<jobs, failedEvents, confirm>>
          /\ \A t \in Slot \ {s} : slots'[t] = slots[t]
          /\ slots'[s].job = slots[s].job /\ slots'[s].pc = to
      BY <1>2, <2>9 DEF Advance, userVars, TypeOK, QueueTypeOK, SlotRecord
    <3>2. QED
      BY <2>2, <2>9, <3>1 DEF Pursued, WorkRow
  <2>10. ASSUME NEW s \in Slot, MarkParsing(s) \/ Download(s) PROVE Pursued(v)'
    <3>1. status'[v] = status[v] \/ v = WorkRow(s)
      BY <1>2, <2>10 DEF MarkParsing, Download, UpdateRow, rowVars, TypeOK
    <3>2. QED
      BY <2>9, <2>10, <3>1 DEF MarkParsing, Download
  <2>11. ASSUME NEW s \in Slot, WriteParsed(s) PROVE Pursued(v)'
    <3>1. /\ UNCHANGED <<jobs, failedEvents, confirm>>
          /\ \A t \in Slot \ {s} : slots'[t] = slots[t]
          /\ slots[s].pc = "working"
      BY <1>2, <2>11 DEF WriteParsed, Advance, userVars, TypeOK, QueueTypeOK
    <3>2. v # WorkRow(s) /\ status'[v] = status[v]
      BY <1>2, <2>11 DEF WriteParsed, UpdateRow, TypeOK
    <3>3. QED
      BY <2>2, <3>1, <3>2 DEF Pursued, WorkRow
  <2>12. ASSUME NEW s \in Slot, Return(s) PROVE Pursued(v)'
    <3>1. /\ UNCHANGED <<failedEvents, confirm, status>>
          /\ \A t \in Slot \ {s} : slots'[t] = slots[t]
          /\ slots[s].pc = "returned"
      BY <1>2, <2>12 DEF Return, Ack, rowVars, userVars, TypeOK, QueueTypeOK
    <3>2. \A p \in Job : p # slots[s].job => jobs'[p] = jobs[p]
      BY <1>2, <2>12 DEF Return, Ack, TypeOK, QueueTypeOK
    <3>3. QED
      BY <2>2, <3>1, <3>2 DEF Pursued, WorkRow
  <2>13. ASSUME NEW s \in Slot, Fail(s) PROVE Pursued(v)'
    <3> DEFINE j == slots[s].job
    <3>1. /\ UNCHANGED <<confirm, status>>
          /\ slots[s].pc \in {"picked", "guarded", "working"}
          /\ \A t \in Slot \ {s} : slots'[t] = slots[t]
      BY <1>2, <2>13 DEF Fail, Throw, rowVars, userVars, TypeOK, QueueTypeOK
    <3>2. j \in Job /\ slots[s].locked /\ jobs[j].state = "active"
      BY <2>2, <3>1
    <3>3. /\ failedEvents' = failedEvents \cup {<<j, jobs[j].made + 1>>}
          /\ \A p \in Job \ {j} : jobs'[p] = jobs[p]
      BY <1>2, <2>13, <3>2 DEF Fail, Throw, TypeOK, QueueTypeOK
    <3>4. CASE WorkRow(s) = v
      <4> DEFINE e == <<j, jobs[j].made + 1>>
      <4>1. e \in failedEvents'
        BY <3>3
      <4>2. e[1] = j
        OBVIOUS
      <4>3. VersionOf[e[1]] = v
        BY <3>4, <4>2 DEF WorkRow
      <4> HIDE DEF e
      <4>4. QED
        BY <4>1, <4>3 DEF Pursued
    <3>5. CASE WorkRow(s) # v
      BY <2>2, <3>1, <3>2, <3>3, <3>5 DEF Pursued, WorkRow
    <3>6. QED
      BY <3>4, <3>5
  <2>14. ASSUME NEW e \in Event, OnFailed(e) PROVE Pursued(v)'
    <3>1. UNCHANGED <<jobs, slots, confirm>> /\ failedEvents' = failedEvents \ {e}
      BY <2>14 DEF OnFailed, Handled, userVars
    <3>2. v # VersionOf[e[1]] /\ status'[v] = status[v]
      BY <1>2, <2>14 DEF OnFailed, UpdateRow, TypeOK
    <3>3. QED
      BY <2>2, <3>1, <3>2 DEF Pursued, WorkRow
  <2>15. ASSUME NEW j \in Job, Requeue(j) PROVE Pursued(v)'
    <3>1. /\ UNCHANGED <<slots, confirm, status>> /\ failedEvents \subseteq failedEvents'
          /\ \A p \in Job \ {j} : jobs'[p] = jobs[p]
      BY <1>2, <2>15 DEF Requeue, RetryDue, Recover, rowVars, userVars, TypeOK, QueueTypeOK
    <3>2. \/ jobs[j].state = "delayed" /\ jobs'[j].state = "wait"
          \/ jobs[j].state = "active"
      <4>1. CASE RetryDue(j)
        BY <1>2, <4>1 DEF RetryDue, TypeOK, QueueTypeOK, JobRecord
      <4>2. CASE Recover(j)
        BY <4>2 DEF Recover
      <4>3. QED
        BY <2>15, <4>1, <4>2 DEF Requeue
    <3>3. QED
      BY <2>2, <3>1, <3>2 DEF Pursued, WorkRow
  <2>16. ~WorkerFault /\ \A q \in Job : ~Die(q)
    BY <2>1 DEF WorkerFault, Crash, Die
  <2>17. CASE UNCHANGED vars
    BY <2>3, <2>17 DEF vars, queueVars, rowVars, userVars
  <2>18. QED
    BY <1>2, <2>4, <2>5, <2>6, <2>7, <2>8, <2>10, <2>11, <2>12, <2>13, <2>14, <2>15, <2>16, <2>17
       DEF Next, Handle, Process
<1>3. QueueInv /\ BusyIsLocked /\ [Next]_vars => BusyIsLocked'
  BY ParseUsesTheQueue, BusyStaysLocked DEF vars
<1>4. QED
  BY <1>1, <1>2, <1>3, ParseTypeCorrect, PTL DEF Spec
===============================================================================
