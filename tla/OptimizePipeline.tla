-------------------------- MODULE OptimizePipeline --------------------------
(***************************************************************************)
(* POST /v1/jobs/:id/scores/:scoreId/optimize (OptimizeService), the queue *)
(* ai.resume-optimize and ResumeOptimizeProcessor, over the optimization   *)
(* columns of ats_scores.  One user owns every row.  Request q adds job q. *)
(* The `usage` rows are those of the current month.                        *)
(***************************************************************************)
EXTENDS JobQueue, FiniteSets

CONSTANTS
  Row,          \* ats_scores rows whose scoring is complete
  RowOf,        \* the row a request names in its path
  Limit,        \* FREE_LIMITS.optimization; large for a Premium user
  MaxInFlight   \* bound: requests of the user being handled at once

ASSUME OptimizeAssumption ==
  /\ RowOf \in [Job -> Row]
  /\ Limit \in Nat
  /\ MaxInFlight \in Nat

VARIABLES
  status,   \* optimizationStatus; "gone" once a cascade has deleted the row
  result,   \* the job whose output fills optimizedStructuredData etc.
  error,    \* optimizationError is not null
  usage,    \* the requests with a usage_events row
  request   \* how far the handler of a request has come

rowVars == <<status, result, error>>
apiVars == <<usage, request>>
vars == <<queueVars, rowVars, apiVars>>

Status == {"none", "pending", "optimizing", "complete", "failed", "gone"}
RequestState == {"new", "admitted", "checked", "claimed", "charged", "over"}

TypeOK ==
  /\ QueueTypeOK
  /\ status \in [Row -> Status]
  /\ result \in [Row -> Job \cup {NoJob}]
  /\ error \in [Row -> BOOLEAN]
  /\ usage \subseteq Job
  /\ request \in [Job -> RequestState]

Init ==
  /\ QueueInit
  /\ status = [r \in Row |-> "none"]
  /\ result = [r \in Row |-> NoJob]
  /\ error = [r \in Row |-> FALSE]
  /\ usage = {}
  /\ request = [q \in Job |-> "new"]

\* UPDATE ats_scores SET ... WHERE id: no row, no effect.
UpdateRow(r, s, output, failed) ==
  IF status[r] = "gone"
    THEN UNCHANGED rowVars
    ELSE /\ status' = [status EXCEPT ![r] = s]
         /\ result' = [result EXCEPT ![r] = output]
         /\ error' = [error EXCEPT ![r] = failed]

InFlight == {q \in Job : request[q] \in {"admitted", "checked", "claimed", "charged"}}

-----------------------------------------------------------------------------
(* The API: requestOptimization, one action per database or queue access.  *)

\* assertCanOptimize; a 402 ends the request without a trace.
Admit(q) ==
  /\ request[q] = "new"
  /\ Cardinality(InFlight) < MaxInFlight
  /\ request' = [request EXCEPT
       ![q] = IF Cardinality(usage) < Limit THEN "admitted" ELSE "over"]
  /\ UNCHANGED <<queueVars, rowVars, usage>>

\* findOwnedScore and the checks on the status it has read.
CheckStatus(q) ==
  /\ request[q] = "admitted"
  /\ request' = [request EXCEPT
       ![q] = IF status[RowOf[q]] \in {"none", "failed"} THEN "checked" ELSE "over"]
  /\ UNCHANGED <<queueVars, rowVars, usage>>

\* The UPDATE to 'pending', by id alone.
Claim(q) ==
  /\ request[q] = "checked"
  /\ UpdateRow(RowOf[q], "pending", result[RowOf[q]], error[RowOf[q]])
  /\ request' = [request EXCEPT ![q] = "claimed"]
  /\ UNCHANGED <<queueVars, usage>>

\* recordUsage.
Charge(q) ==
  /\ request[q] = "claimed"
  /\ usage' = usage \cup {q}
  /\ request' = [request EXCEPT ![q] = "charged"]
  /\ UNCHANGED <<queueVars, rowVars>>

\* Mutant: the job is added before the usage row is written.
EnqueueUncharged(q) ==
  /\ request[q] = "claimed"
  /\ Add(q)
  /\ request' = [request EXCEPT ![q] = "over"]
  /\ UNCHANGED <<rowVars, usage>>

\* queue.add, and the answer to the client.
Enqueue(q) ==
  /\ request[q] = "charged"
  /\ Add(q)
  /\ request' = [request EXCEPT ![q] = "over"]
  /\ UNCHANGED <<rowVars, usage>>

\* The API process dies, or the database or Redis call of a step throws.
Die(q) ==
  /\ Death
  /\ q \in InFlight
  /\ request' = [request EXCEPT ![q] = "over"]
  /\ UNCHANGED <<jobs, slots, failedEvents, rowVars, usage>>

\* DELETE /v1/jobs/:id: the foreign key cascades to the scores.
DeleteJob(r) ==
  /\ status[r] # "gone"
  /\ status' = [status EXCEPT ![r] = "gone"]
  /\ UNCHANGED <<queueVars, result, error, apiVars>>

-----------------------------------------------------------------------------
(* The worker: process() and the listener of 'failed'.                     *)

WorkRow(s) == RowOf[slots[s].job]

Take(s) ==
  /\ \E j \in Job : Pick(s, j)
  /\ UNCHANGED <<rowVars, apiVars>>

\* Mutant: no status guard.
GuardAdmitsAll(s) ==
  /\ slots[s].pc = "picked" /\ status[WorkRow(s)] # "gone"
  /\ Advance(s, "picked", "guarded")
  /\ UNCHANGED <<rowVars, apiVars>>

\* Mutant: the guard waits for the wrong status.
GuardOptimizing(s) ==
  /\ slots[s].pc = "picked" /\ status[WorkRow(s)] # "gone"
  /\ Advance(s, "picked",
       IF status[WorkRow(s)] = "optimizing" THEN "guarded" ELSE "returned")
  /\ UNCHANGED <<rowVars, apiVars>>

\* The guard: a row that is not pending is left alone and the job completes.
\* (A missing row throws instead: see Fail.)
Guard(s) ==
  /\ slots[s].pc = "picked"
  /\ status[WorkRow(s)] # "gone"
  /\ Advance(s, "picked",
       IF status[WorkRow(s)] = "pending" THEN "guarded" ELSE "returned")
  /\ UNCHANGED <<rowVars, apiVars>>

MarkOptimizing(s) ==
  /\ Advance(s, "guarded", "working")
  /\ UpdateRow(WorkRow(s), "optimizing", result[WorkRow(s)], error[WorkRow(s)])
  /\ UNCHANGED apiVars

\* Mutant: the error of an earlier attempt is left behind.
WriteResultKeepError(s) ==
  /\ Advance(s, "working", "returned")
  /\ UpdateRow(WorkRow(s), "complete", slots[s].job, error[WorkRow(s)])
  /\ UNCHANGED apiVars

\* Optimizer and re-score have answered: the single UPDATE of the results.
WriteResult(s) ==
  /\ Advance(s, "working", "returned")
  /\ UpdateRow(WorkRow(s), "complete", slots[s].job, FALSE)
  /\ UNCHANGED apiVars

Return(s) ==
  /\ Ack(s)
  /\ UNCHANGED <<rowVars, apiVars>>

\* A missing row, missing resume data or description, an AI or database error.
Fail(s) ==
  /\ Throw(s)
  /\ UNCHANGED <<rowVars, apiVars>>

\* Mutant: only the failure of the last attempt is written to the row.
OnFailedLastAttempt(e) ==
  /\ Handled(e)
  /\ IF e[2] = Attempts
       THEN UpdateRow(RowOf[e[1]], "failed", result[RowOf[e[1]]], TRUE)
       ELSE UNCHANGED rowVars
  /\ UNCHANGED apiVars

\* onFailed, on every failed attempt: UPDATE by id alone.
OnFailed(e) ==
  /\ Handled(e)
  /\ UpdateRow(RowOf[e[1]], "failed", result[RowOf[e[1]]], TRUE)
  /\ UNCHANGED apiVars

Requeue(j) ==
  /\ RetryDue(j) \/ Recover(j)
  /\ UNCHANGED <<rowVars, apiVars>>

WorkerFault ==
  /\ Crash \/ \E s \in Slot : LoseLock(s)
  /\ UNCHANGED <<rowVars, apiVars>>

-----------------------------------------------------------------------------
Handle(q) == CheckStatus(q) \/ Claim(q) \/ Charge(q) \/ Enqueue(q)
Process(s) == Guard(s) \/ MarkOptimizing(s) \/ WriteResult(s) \/ Return(s) \/ Fail(s)

Next ==
  \/ \E q \in Job : Admit(q) \/ Handle(q) \/ Die(q)
  \/ \E r \in Row : DeleteJob(r)
  \/ \E s \in Slot : Take(s) \/ Process(s)
  \/ \E e \in Event : OnFailed(e)
  \/ \E j \in Job : Requeue(j)
  \/ WorkerFault

Spec == Init /\ [][Next]_vars

\* A handler that is running goes on; a worker that is up takes waiting jobs,
\* ends what it started, one way or the other, and runs its listeners; Redis
\* wakes delayed and stalled jobs.  Nobody has to send or delete anything.
Fairness ==
  /\ \A q \in Job : WF_vars(Handle(q)) /\ WF_vars(Requeue(q))
  /\ \A s \in Slot : WF_vars(Take(s)) /\ WF_vars(Process(s))
  /\ \A e \in Event : WF_vars(OnFailed(e))

FairSpec == Spec /\ Fairness

-----------------------------------------------------------------------------
(* Correctness.                                                            *)

(***************************************************************************)
(* The statuses mean what ats-score.ts:26-32 says of the columns: a        *)
(* complete row has its output and no error, a failed one has an error,    *)
(* whatever order late listeners, redelivered jobs and new requests write  *)
(* the row in.                                                             *)
(***************************************************************************)
StatusMatchesColumns ==
  \A r \in Row :
    /\ status[r] = "complete" => result[r] # NoJob /\ ~error[r]
    /\ status[r] = "failed" => error[r]

(***************************************************************************)
(* No optimization runs that was not charged to the user's quota first:    *)
(* whatever the queue holds or has run, and whatever output a row shows,   *)
(* belongs to a request with a usage row.                                  *)
(***************************************************************************)
EveryJobIsPaidFor ==
  /\ \A q \in Job : jobs[q].state # "new" => q \in usage
  /\ \A r \in Row : result[r] # NoJob => result[r] \in usage

\* The inductive strengthening: a handler pays before it adds its job, and a
\* slot only runs what was added.
Paid ==
  /\ EveryJobIsPaidFor
  /\ \A q \in Job : request[q] = "charged" => q \in usage
  /\ \A s \in Slot : slots[s].pc # "idle" => slots[s].job \in usage

\* Somebody will still turn row r from pending or optimizing into an outcome.
Pursued(r) ==
  \/ \E q \in Job : RowOf[q] = r /\ request[q] \in {"claimed", "charged"}
  \/ \E q \in Job : RowOf[q] = r /\ jobs[q].state \in {"wait", "delayed"}
  \/ \E s \in Slot : slots[s].pc \in {"picked", "guarded", "working"} /\ WorkRow(s) = r
  \/ \E e \in failedEvents : RowOf[e[1]] = r

(***************************************************************************)
(* As long as nothing has crashed or lost its lock, a row the API reports  *)
(* as in progress (and for which it refuses a new request) is still being  *)
(* pursued: by the handler about to enqueue, by a job, by a slot or by a   *)
(* 'failed' listener.  The status guard skips jobs, so this needs every    *)
(* skipped job to leave the row to somebody else.                          *)
(***************************************************************************)
NoOrphan ==
  Calm => \A r \in Row : status[r] \in {"pending", "optimizing"} => Pursued(r)

\* The inductive strengthening of NoOrphan: an optimizing row is in the hands
\* of a working slot or of a listener; nobody else will take it up, because the
\* guard only admits pending rows.
Pursuit ==
  /\ \A s \in Slot : slots[s].pc # "idle" => slots[s].locked
  /\ \A r \in Row :
       /\ status[r] = "optimizing" =>
            \/ \E s \in Slot : slots[s].pc = "working" /\ WorkRow(s) = r
            \/ \E e \in failedEvents : RowOf[e[1]] = r
       /\ status[r] = "pending" =>
            \/ \E q \in Job : RowOf[q] = r /\ request[q] \in {"claimed", "charged"}
            \/ \E q \in Job : RowOf[q] = r /\ jobs[q].state \in {"wait", "delayed"}
            \/ \E s \in Slot : slots[s].pc \in {"picked", "guarded"} /\ WorkRow(s) = r
            \/ \E e \in failedEvents : RowOf[e[1]] = r

(***************************************************************************)
(* When every score row is optimized at most once (all a Free user's quota *)
(* of one per month allows) the pipeline keeps the promise of              *)
(* TaskLifecycle, whatever the slots and handlers of different rows do at  *)
(* once: a delivered optimization is final, its output never replaced, no  *)
(* retry of the queue overtakes the row's outcome, and every accepted      *)
(* request settles.  Not so with a late 'failed' listener                  *)
(* (resume-optimize.processor.ts:207): the run excludes it with            *)
(* ListenerIsPrompt.                                                       *)
(***************************************************************************)
PhaseOf == [none |-> "idle", pending |-> "requested", optimizing |-> "running",
            complete |-> "delivered", failed |-> "failed", gone |-> "gone"]

Lifecycle == INSTANCE TaskLifecycle WITH
  Task <- Row, Output <- Job, NoOutput <- NoJob,
  phase <- [r \in Row |-> PhaseOf[status[r]]], output <- result

ImplementsLifecycle == Lifecycle!FairSpec

(***************************************************************************)
(* Polling until the status is complete or failed ends: every request that *)
(* was accepted settles, unless something crashes or loses its lock.       *)
(***************************************************************************)
Settled(r) == status[r] \in {"complete", "failed", "gone"}
RequestsSettle ==
  \A r \in Row : (status[r] \in {"pending", "optimizing"}) ~> (Settled(r) \/ ~Calm)

-----------------------------------------------------------------------------
(* What the repository says of the program and the code does not do.       *)

(***************************************************************************)
(* resume.optimizer.ts:179 "Retries are handled by the BullMQ job queue":  *)
(* a job the queue has completed has delivered an optimization.            *)
(***************************************************************************)
CompletedJobHasDelivered ==
  \A q \in Job : jobs[q].state = "done" =>
    status[RowOf[q]] = "gone" \/ result[RowOf[q]] # NoJob

=============================================================================
