------------------------------ MODULE JobQueue ------------------------------
(***************************************************************************)
(* The BullMQ queue and the worker runtime that the pipelines of worker-ai *)
(* run on, as far as src/apps/api (queue.add) and src/apps/worker-ai       *)
(* (new Worker, worker.on('failed')) use it.  BullMQ itself is not in the  *)
(* repository: everything here is external.                                *)
(*                                                                         *)
(* A job is added once, waits, is taken up by a slot (one unit of a        *)
(* worker's `concurrency`) that holds its lock, and is then completed or,  *)
(* when the processor throws, delayed for its next attempt until the       *)
(* attempts are used up.  Every throw also raises a 'failed' event, whose  *)
(* listener is asynchronous: the queue goes on while it runs.  A job whose *)
(* lock is no longer renewed is stalled: another worker puts it back, at   *)
(* most MaxStalls times.                                                   *)
(***************************************************************************)
EXTENDS Naturals

CONSTANTS
  Job,              \* the jobs that can be added, one per accepted request
  Slot,             \* the concurrency slots of the running workers
  Attempts,         \* the `attempts` option of queue.add
  MaxStalls,        \* BullMQ's maxStalledCount
  MaxDeaths,        \* bound: crashes of the worker and dying requests in a run
  MaxLostLocks,     \* bound: slots that fail to renew their lock in time
  NoJob,            \* what an idle slot works on
  ListenerIsPrompt  \* the 'failed' listener ends before a slot takes a job

ASSUME JobQueueAssumption ==
  /\ Attempts \in Nat \ {0}
  /\ MaxStalls \in Nat
  /\ MaxDeaths \in Nat
  /\ MaxLostLocks \in Nat
  /\ NoJob \notin Job
  /\ ListenerIsPrompt \in BOOLEAN

VARIABLES
  jobs,          \* what Redis holds of each job
  slots,         \* what each slot is doing
  failedEvents,  \* 'failed' events whose listener has not ended its UPDATE
  faults         \* deaths and lost locks so far

queueVars == <<jobs, slots, failedEvents, faults>>

JobRecord == [state  : {"new", "wait", "active", "delayed", "done", "failed"},
              made   : 0 .. Attempts,
              stalls : 0 .. MaxStalls]

\* Where a slot is in the processor: process() called ("picked"), two points of
\* its body that each pipeline chooses ("guarded", "working"), returned but not
\* acknowledged.
SlotRecord == [job    : Job \cup {NoJob},
               pc     : {"idle", "picked", "guarded", "working", "returned"},
               locked : BOOLEAN]

Event == Job \X (0 .. Attempts)

Idle == [job |-> NoJob, pc |-> "idle", locked |-> FALSE]

QueueTypeOK ==
  /\ jobs \in [Job -> JobRecord]
  /\ slots \in [Slot -> SlotRecord]
  /\ \A s \in Slot : (slots[s].pc = "idle") <=> (slots[s].job = NoJob)
  /\ failedEvents \subseteq Event
  /\ faults \in [died : 0 .. MaxDeaths, lost : 0 .. MaxLostLocks]

QueueInit ==
  /\ jobs = [j \in Job |-> [state |-> "new", made |-> 0, stalls |-> 0]]
  /\ slots = [s \in Slot |-> Idle]
  /\ failedEvents = {}
  /\ faults = [died |-> 0, lost |-> 0]

\* Producer: queue.add.
Add(j) ==
  /\ jobs[j].state = "new"
  /\ jobs' = [jobs EXCEPT ![j].state = "wait"]
  /\ UNCHANGED <<slots, failedEvents, faults>>

\* A free slot takes a waiting job, in any order (over-approximates FIFO).
Pick(s, j) ==
  /\ slots[s].pc = "idle"
  /\ jobs[j].state = "wait"
  /\ ListenerIsPrompt => failedEvents = {}
  /\ jobs' = [jobs EXCEPT ![j].state = "active"]
  /\ slots' = [slots EXCEPT
       ![s] = [job |-> j, pc |-> "picked", locked |-> TRUE]]
  /\ UNCHANGED <<failedEvents, faults>>

\* The processor goes from one of its steps to the next.
Advance(s, from, to) ==
  /\ slots[s].pc = from
  /\ slots' = [slots EXCEPT ![s].pc = to]
  /\ UNCHANGED <<jobs, failedEvents, faults>>

\* The processor has returned; the job completes if its lock is still held.
Ack(s) ==
  /\ slots[s].pc = "returned"
  /\ jobs' = IF slots[s].locked
               THEN [jobs EXCEPT ![slots[s].job].state = "done"]
               ELSE jobs
  /\ slots' = [slots EXCEPT ![s] = Idle]
  /\ UNCHANGED <<failedEvents, faults>>

\* Mutant: one attempt more than the job was given.
ThrowOneMoreAttempt(s) ==
  LET j == slots[s].job
      n == jobs[j].made + 1
  IN /\ slots[s].pc \in {"picked", "guarded", "working"} /\ slots[s].locked
     /\ slots' = [slots EXCEPT ![s] = Idle]
     /\ jobs' = [jobs EXCEPT
          ![j].state = IF n <= Attempts THEN "delayed" ELSE "failed",
          ![j].made  = n]
     /\ failedEvents' = failedEvents \cup {<<j, n>>}
     /\ UNCHANGED faults

\* The processor has thrown: next attempt or the end, and a 'failed' event;
\* a slot that lost the lock can do neither.
Throw(s) ==
  LET j == slots[s].job
      n == jobs[j].made + 1
  IN /\ slots[s].pc \in {"picked", "guarded", "working"}
     /\ slots' = [slots EXCEPT ![s] = Idle]
     /\ IF slots[s].locked
          THEN /\ jobs' = [jobs EXCEPT
                    ![j].state = IF n < Attempts THEN "delayed" ELSE "failed",
                    ![j].made  = n]
               /\ failedEvents' = failedEvents \cup {<<j, n>>}
          ELSE UNCHANGED <<jobs, failedEvents>>
     /\ UNCHANGED faults

\* The back-off of a delayed job is over.
RetryDue(j) ==
  /\ jobs[j].state = "delayed"
  /\ jobs' = [jobs EXCEPT ![j].state = "wait"]
  /\ UNCHANGED <<slots, failedEvents, faults>>

\* The stalled check finds an active job that no slot holds the lock of.
Recover(j) ==
  /\ jobs[j].state = "active"
  /\ \A s \in Slot : slots[s].job = j => ~slots[s].locked
  /\ IF jobs[j].stalls < MaxStalls
       THEN /\ jobs' = [jobs EXCEPT ![j].state = "wait", ![j].stalls = @ + 1]
            /\ UNCHANGED failedEvents
       ELSE /\ jobs' = [jobs EXCEPT ![j].state = "failed"]
            /\ failedEvents' = failedEvents \cup {<<j, 0>>}
  /\ UNCHANGED <<slots, faults>>

\* The listener of a 'failed' event ends.
Handled(e) ==
  /\ e \in failedEvents
  /\ failedEvents' = failedEvents \ {e}
  /\ UNCHANGED <<jobs, slots, faults>>

Death ==
  /\ faults.died < MaxDeaths
  /\ faults' = [faults EXCEPT !.died = @ + 1]

\* Nothing has failed so far that the code does not handle itself.
Calm == faults.died = 0 /\ faults.lost = 0

\* The worker process dies (a deploy kills it too: no code calls
\* worker.close()), with every step and every listener it was running.
Crash ==
  /\ Death
  /\ \/ failedEvents # {}
     \/ \E s \in Slot : slots[s].pc # "idle"
  /\ slots' = [s \in Slot |-> Idle]
  /\ failedEvents' = {}
  /\ UNCHANGED jobs

\* A slot fails to renew its lock in time and keeps running.
LoseLock(s) ==
  /\ slots[s].locked
  /\ faults.lost < MaxLostLocks
  /\ faults' = [faults EXCEPT !.lost = @ + 1]
  /\ slots' = [slots EXCEPT ![s].locked = FALSE]
  /\ UNCHANGED <<jobs, failedEvents>>

\* A job the queue still means to run.
Live(j) == jobs[j].state \in {"wait", "active", "delayed"}

-----------------------------------------------------------------------------
\* Any change a pipeline may make to the queue.
QueueStep ==
  \/ \E j \in Job : Add(j) \/ RetryDue(j) \/ Recover(j)
  \/ \E s \in Slot :
       \/ \E j \in Job : Pick(s, j)
       \/ \E from, to \in {"picked", "guarded", "working", "returned"} :
            Advance(s, from, to)
       \/ Ack(s) \/ Throw(s) \/ LoseLock(s)
  \/ \E e \in Event : Handled(e)
  \/ Crash
  \/ Death /\ UNCHANGED <<jobs, slots, failedEvents>>

\* A job that is not over has attempts left; a lock is held by one slot, on an
\* active job.
LocksAreExclusive ==
  /\ \A j \in Job : jobs[j].state \notin {"done", "failed"} => jobs[j].made < Attempts
  /\ \A s \in Slot : slots[s].locked =>
       slots[s].pc # "idle" /\ jobs[slots[s].job].state = "active"
  /\ \A s, t \in Slot :
       slots[s].locked /\ slots[t].locked /\ slots[s].job = slots[t].job => s = t

QueueInv == QueueTypeOK /\ LocksAreExclusive

=============================================================================
