---------------------------- MODULE ScorePipeline ----------------------------
(***************************************************************************)
(* POST /v1/jobs/:id/scores (AtsScoreService.createScore), the queue       *)
(* ai.ats-score and AtsScoreProcessor, over the scoring columns of         *)
(* ats_scores.  Request q inserts row q and adds job q; one user sends     *)
(* them all, each for a job description of its own.                        *)
(***************************************************************************)
EXTENDS JobQueue, FiniteSets

CONSTANTS
  Limit,        \* FREE_LIMITS.ats_score; large for a Premium user
  MaxInFlight   \* bound: requests of the user being handled at once

ASSUME ScoreAssumption == Limit \in Nat /\ MaxInFlight \in Nat

VARIABLES
  status,   \* scoringStatus; "absent" before the INSERT, "gone" after a cascade
  scored,   \* overallScore, sectionScores and the rest are not null
  error,    \* scoreError is not null
  usage,    \* the requests with a usage_events row of this month
  request   \* how far the handler of a request has come

rowVars == <<status, scored, error>>
apiVars == <<usage, request>>
vars == <<queueVars, rowVars, apiVars>>

Status == {"absent", "pending", "scoring", "complete", "failed", "gone"}
RequestState == {"new", "admitted", "inserted", "charged", "over"}

TypeOK ==
  /\ QueueTypeOK
  /\ status \in [Job -> Status]
  /\ scored \in [Job -> BOOLEAN]
  /\ error \in [Job -> BOOLEAN]
  /\ usage \subseteq Job
  /\ request \in [Job -> RequestState]

Init ==
  /\ QueueInit
  /\ status = [q \in Job |-> "absent"]
  /\ scored = [q \in Job |-> FALSE]
  /\ error = [q \in Job |-> FALSE]
  /\ usage = {}
  /\ request = [q \in Job |-> "new"]

\* UPDATE ats_scores SET ... WHERE id: no row, no effect.
UpdateRow(q, s, hasScores, failed) ==
  IF status[q] \in {"absent", "gone"}
    THEN UNCHANGED rowVars
    ELSE /\ status' = [status EXCEPT ![q] = s]
         /\ scored' = [scored EXCEPT ![q] = hasScores]
         /\ error' = [error EXCEPT ![q] = failed]

InFlight == {q \in Job : request[q] \in {"admitted", "inserted", "charged"}}

-----------------------------------------------------------------------------
(* The API: createScore.                                                   *)

\* assertCanScore; a 402 ends the request without a trace.
Admit(q) ==
  /\ request[q] = "new"
  /\ Cardinality(InFlight) < MaxInFlight
  /\ request' = [request EXCEPT
       ![q] = IF Cardinality(usage) < Limit THEN "admitted" ELSE "over"]
  /\ UNCHANGED <<queueVars, rowVars, usage>>

\* The job description and a parsed resume are there: the INSERT.  Otherwise
\* the request ends with a 404 or 422.
Insert(q) ==
  /\ request[q] = "admitted"
  /\ \/ /\ status' = [status EXCEPT ![q] = "pending"]
        /\ request' = [request EXCEPT ![q] = "inserted"]
     \/ /\ request' = [request EXCEPT ![q] = "over"]
        /\ UNCHANGED status
  /\ UNCHANGED <<queueVars, scored, error, usage>>

\* recordUsage.
Charge(q) ==
  /\ request[q] = "inserted"
  /\ usage' = usage \cup {q}
  /\ request' = [request EXCEPT ![q] = "charged"]
  /\ UNCHANGED <<queueVars, rowVars>>

\* Mutant: the job is added before the usage row is written.
EnqueueUncharged(q) ==
  /\ request[q] = "inserted"
  /\ Add(q)
  /\ request' = [request EXCEPT ![q] = "over"]
  /\ UNCHANGED <<rowVars, usage>>

\* queue.add, and the answer to the client.
Enqueue(q) ==
  /\ request[q] = "charged"
  /\ Add(q)
  /\ request' = [request EXCEPT ![q] = "over"]
  /\ UNCHANGED <<rowVars, usage>>

\* The API process dies, or the database or Redis call of a step throws.
Die(q) ==
  /\ Death
  /\ q \in InFlight
  /\ request' = [request EXCEPT ![q] = "over"]
  /\ UNCHANGED <<jobs, slots, failedEvents, rowVars, usage>>

\* DELETE /v1/jobs/:id: the foreign key cascades to the scores.
DeleteJob(q) ==
  /\ status[q] \notin {"absent", "gone"}
  /\ status' = [status EXCEPT ![q] = "gone"]
  /\ UNCHANGED <<queueVars, scored, error, apiVars>>

-----------------------------------------------------------------------------
(* The worker: process() and the listener of 'failed'.                     *)

Take(s) ==
  /\ \E j \in Job : Pick(s, j)
  /\ UNCHANGED <<rowVars, apiVars>>

\* Mutant: the status guard of the optimizer, skipping a row in progress.
LoadPending(s) ==
  /\ slots[s].pc = "picked"
  /\ status[slots[s].job] # "gone"
  /\ Advance(s, "picked",
       IF status[slots[s].job] = "pending" THEN "guarded" ELSE "returned")
  /\ UNCHANGED <<rowVars, apiVars>>

\* The three SELECTs; the status of the row is not looked at.
Load(s) ==
  /\ slots[s].pc = "picked"
  /\ status[slots[s].job] # "gone"
  /\ Advance(s, "picked", "guarded")
  /\ UNCHANGED <<rowVars, apiVars>>

MarkScoring(s) ==
  LET q == slots[s].job
  IN /\ Advance(s, "guarded", "working")
     /\ UpdateRow(q, "scoring", scored[q], error[q])
     /\ UNCHANGED apiVars

\* Mutant: the error of an earlier attempt is left behind.
WriteScoreKeepError(s) ==
  /\ Advance(s, "working", "returned")
  /\ UpdateRow(slots[s].job, "complete", TRUE, error[slots[s].job])
  /\ UNCHANGED apiVars

\* The scorer has answered: the single UPDATE of the results.
WriteScore(s) ==
  /\ Advance(s, "working", "returned")
  /\ UpdateRow(slots[s].job, "complete", TRUE, FALSE)
  /\ UNCHANGED apiVars

Return(s) ==
  /\ Ack(s)
  /\ UNCHANGED <<rowVars, apiVars>>

\* A missing row, missing resume data or description, an AI or database error.
Fail(s) ==
  /\ Throw(s)
  /\ UNCHANGED <<rowVars, apiVars>>

\* onFailed, on every failed attempt: UPDATE by id alone.
OnFailed(e) ==
  /\ Handled(e)
  /\ UpdateRow(e[1], "failed", scored[e[1]], TRUE)
  /\ UNCHANGED apiVars

Requeue(j) ==
  /\ RetryDue(j) \/ Recover(j)
  /\ UNCHANGED <<rowVars, apiVars>>

WorkerFault ==
  /\ Crash \/ \E s \in Slot : LoseLock(s)
  /\ UNCHANGED <<rowVars, apiVars>>

-----------------------------------------------------------------------------
Handle(q) == Insert(q) \/ Charge(q) \/ Enqueue(q)
Process(s) == Load(s) \/ MarkScoring(s) \/ WriteScore(s) \/ Return(s) \/ Fail(s)

Next ==
  \/ \E q \in Job : Admit(q) \/ Handle(q) \/ Die(q) \/ DeleteJob(q)
  \/ \E s \in Slot : Take(s) \/ Process(s)
  \/ \E e \in Event : OnFailed(e)
  \/ \E j \in Job : Requeue(j)
  \/ WorkerFault

Spec == Init /\ [][Next]_vars

-----------------------------------------------------------------------------
(* Correctness.                                                            *)

(***************************************************************************)
(* The statuses mean what ats-score.ts:17-22 says of the columns: scores   *)
(* without an error when complete, an error when failed, in any order of   *)
(* retries, redeliveries and late listeners.                               *)
(***************************************************************************)
StatusMatchesColumns ==
  \A q \in Job :
    /\ status[q] = "complete" => scored[q] /\ ~error[q]
    /\ status[q] = "failed" => error[q]

(***************************************************************************)
(* A job the queue has completed leaves a row with an outcome, even when   *)
(* workers crashed in any of their steps: the processor has no status      *)
(* guard, so a redelivered job runs again instead of being skipped.  Only  *)
(* a slot that runs on without its lock can undo this.                     *)
(***************************************************************************)
DoneIsSettled ==
  faults.lost = 0 =>
    \A q \in Job : jobs[q].state = "done" => status[q] \in {"complete", "failed", "gone"}

(***************************************************************************)
(* A user is charged only for a score that has a row, and nothing is       *)
(* scored uncharged.                                                       *)
(***************************************************************************)
ChargesMatchRows ==
  /\ \A q \in usage : status[q] # "absent"
  /\ \A q \in Job : jobs[q].state # "new" \/ scored[q] => q \in usage

\* The inductive strengthenings: a handler pays for a row before it adds its job, and a
\* slot runs what was added; without a lost lock a slot that runs holds its lock.
Charged ==
  /\ ChargesMatchRows
  /\ \A q \in Job : request[q] \in {"inserted", "charged"} => status[q] # "absent"
  /\ \A q \in Job : request[q] = "charged" => q \in usage
  /\ \A s \in Slot : slots[s].pc # "idle" => slots[s].job \in usage

Outcome == {"complete", "failed", "gone"}

Settling ==
  /\ \A q \in Job : jobs[q].state # "new" => request[q] = "over"
  /\ faults.lost = 0 =>
       /\ \A q \in Job : jobs[q].state = "done" => status[q] \in Outcome
       /\ \A s \in Slot : slots[s].pc # "idle" => slots[s].locked
       /\ \A s \in Slot : slots[s].pc = "returned" => status[slots[s].job] \in Outcome

=============================================================================
