--------------------------- MODULE JobQueue_proofs ---------------------------
(* The queue's own invariant, for every pipeline built on it.              *)
EXTENDS JobQueue, TLAPS

(***************************************************************************)
(* The queue starts with every job new and every slot idle.                *)
(***************************************************************************)
LEMMA QueueInitInv == QueueInit => QueueInv
BY JobQueueAssumption
DEF QueueInit, QueueInv, QueueTypeOK, LocksAreExclusive, JobRecord, SlotRecord,
    Event, Idle

(***************************************************************************)
(* No step of the queue gives a job's lock to two slots or a job more than *)
(* Attempts attempts.                                                      *)
(***************************************************************************)
LEMMA QueueStepInv == QueueInv /\ QueueStep => QueueInv'
<1> SUFFICES ASSUME QueueInv, QueueStep PROVE QueueInv'
  OBVIOUS
<1> USE JobQueueAssumption
    DEF QueueInv, QueueTypeOK, LocksAreExclusive, JobRecord, SlotRecord, Event
<1>1. ASSUME NEW j \in Job, Add(j) PROVE QueueInv'
  BY <1>1 DEF Add
<1>2. ASSUME NEW j \in Job, RetryDue(j) PROVE QueueInv'
  BY <1>2 DEF RetryDue
<1>3. ASSUME NEW j \in Job, Recover(j) PROVE QueueInv'
  BY <1>3 DEF Recover
<1>4. ASSUME NEW s \in Slot, NEW j \in Job, Pick(s, j) PROVE QueueInv'
  BY <1>4 DEF Pick
<1>5. ASSUME NEW s \in Slot,
             NEW from \in {"picked", "guarded", "working", "returned"},
             NEW to \in {"picked", "guarded", "working", "returned"},
             Advance(s, from, to)
      PROVE  QueueInv'
  BY <1>5 DEF Advance
<1>6. ASSUME NEW s \in Slot, Ack(s) PROVE QueueInv'
  BY <1>6 DEF Ack, Idle
<1>7. ASSUME NEW s \in Slot, Throw(s) PROVE QueueInv'
  <2> DEFINE j == slots[s].job
             n == jobs[j].made + 1
  <2>1. CASE ~slots[s].locked
    BY <1>7, <2>1 DEF Throw, Idle
  <2>2. CASE slots[s].locked
    <3>1. j \in Job /\ jobs[j].state = "active" /\ n \in 1 .. Attempts
      BY <1>7, <2>2 DEF Throw
    <3>2. /\ slots' = [slots EXCEPT ![s] = Idle]
          /\ jobs' = [jobs EXCEPT
               ![j].state = IF n < Attempts THEN "delayed" ELSE "failed",
               ![j].made  = n]
          /\ failedEvents' = failedEvents \cup {<<j, n>>}
          /\ faults' = faults
      BY <1>7, <2>2 DEF Throw
    <3>3. <<j, n>> \in Event
      BY <3>1
    <3>4. QueueTypeOK'
      BY <3>1, <3>2, <3>3 DEF Idle
    <3>5. LocksAreExclusive'
      BY <3>1, <3>2 DEF Idle
    <3>6. QED
      BY <3>4, <3>5
  <2>3. QED
    BY <2>1, <2>2
<1>8. ASSUME NEW s \in Slot, LoseLock(s) PROVE QueueInv'
  <2>1. /\ slots' \in [Slot -> SlotRecord]
        /\ \A t \in Slot : /\ slots'[t].job = slots[t].job
                           /\ slots'[t].pc = slots[t].pc
                           /\ slots'[t].locked => slots[t].locked
    BY <1>8 DEF LoseLock
  <2>2. /\ UNCHANGED <<jobs, failedEvents>>
        /\ faults' \in [died : 0 .. MaxDeaths, lost : 0 .. MaxLostLocks]
    BY <1>8 DEF LoseLock
  <2>3. QED
    BY <2>1, <2>2
<1>9. ASSUME NEW e \in Event, Handled(e) PROVE QueueInv'
  BY <1>9 DEF Handled
<1>10. CASE Crash
  BY <1>10 DEF Crash, Death, Idle
<1>11. CASE Death /\ UNCHANGED <<jobs, slots, failedEvents>>
  BY <1>11 DEF Death
<1> HIDE DEF QueueInv, QueueTypeOK, LocksAreExclusive, JobRecord, SlotRecord, Event
<1>12. QED
  BY <1>1, <1>2, <1>3, <1>4, <1>5, <1>6, <1>7, <1>8, <1>9, <1>10, <1>11 DEF QueueStep

(***************************************************************************)
(* Where nothing has failed after a step, nothing had before, and the step *)
(* is none of a dying process or of a lock that is lost.                   *)
(***************************************************************************)
LEMMA CalmStep ==
  QueueTypeOK /\ QueueStep /\ Calm' => Calm /\ ~Death /\ \A s \in Slot : ~LoseLock(s)
<1> SUFFICES ASSUME QueueTypeOK, QueueStep, Calm'
             PROVE  Calm /\ ~Death /\ \A s \in Slot : ~LoseLock(s)
  OBVIOUS
<1>1. faults.died \in Nat /\ faults.lost \in Nat
  BY JobQueueAssumption DEF QueueTypeOK
<1>2. ~Death
  BY <1>1 DEF Death, Calm, QueueTypeOK
<1>3. ASSUME NEW s \in Slot PROVE ~LoseLock(s)
  BY <1>1 DEF LoseLock, Calm, QueueTypeOK
<1>4. UNCHANGED faults
  BY <1>2, <1>3 DEF QueueStep, Add, RetryDue, Recover, Pick, Advance, Ack, Throw, Handled, Crash
<1>5. QED
  BY <1>2, <1>3, <1>4 DEF Calm

(***************************************************************************)
(* What a pipeline needs to know of the work in progress: without an Add,  *)
(* no job comes in, and a busy slot goes on with its job or has taken one  *)
(* that was added.                                                         *)
(***************************************************************************)
WorkStep ==
  \/ \E j \in Job : RetryDue(j) \/ Recover(j)
  \/ \E s \in Slot :
       \/ \E j \in Job : Pick(s, j)
       \/ \E from, to \in {"picked", "guarded", "working", "returned"} : Advance(s, from, to)
       \/ Ack(s) \/ Throw(s) \/ LoseLock(s)
  \/ \E e \in Event : Handled(e)
  \/ Crash

SameWork ==
  /\ \A q \in Job : jobs'[q].state # "new" => jobs[q].state # "new"
  /\ \A t \in Slot : slots'[t].pc # "idle" =>
       \/ slots[t].pc # "idle" /\ slots'[t].job = slots[t].job
       \/ slots'[t].job \in Job /\ jobs[slots'[t].job].state # "new"

\* A step of a worker gives a slot no other job than it had, or one that was added before.
LEMMA WorkStepKeepsWork == QueueInv /\ WorkStep => SameWork
<1> SUFFICES ASSUME QueueInv, WorkStep PROVE SameWork
  OBVIOUS
<1> USE DEF SameWork, QueueInv, QueueTypeOK, LocksAreExclusive, JobRecord, SlotRecord
<1>1. ASSUME NEW j \in Job, RetryDue(j) \/ Recover(j) PROVE SameWork
  BY <1>1 DEF RetryDue, Recover
<1>2. ASSUME NEW s \in Slot, NEW j \in Job, Pick(s, j) PROVE SameWork
  BY <1>2 DEF Pick
<1>3. ASSUME NEW s \in Slot, NEW from \in {"picked", "guarded", "working", "returned"}, NEW to,
             Advance(s, from, to)
      PROVE  SameWork
  BY <1>3 DEF Advance
<1>4. ASSUME NEW s \in Slot, Ack(s) PROVE SameWork
  BY <1>4 DEF Ack, Idle
<1>5. ASSUME NEW s \in Slot, Throw(s) PROVE SameWork
  BY <1>5 DEF Throw, Idle
<1>6. ASSUME NEW s \in Slot, LoseLock(s) PROVE SameWork
  BY <1>6 DEF LoseLock
<1>7. CASE Crash
  BY <1>7 DEF Crash, Idle
<1>8. ASSUME NEW e \in Event, Handled(e) PROVE SameWork
  BY <1>8 DEF Handled
<1>9. QED
  BY <1>1, <1>2, <1>3, <1>4, <1>5, <1>6, <1>7, <1>8 DEF WorkStep

(***************************************************************************)
(* Until a slot has lost its lock, every busy slot holds the lock of an    *)
(* active job of its own.                                                  *)
(***************************************************************************)
BusyIsLocked == faults.lost = 0 => \A s \in Slot : slots[s].pc # "idle" => slots[s].locked

\* No step of the queue but the loss of a lock leaves a busy slot without its own.
LEMMA BusyStaysLocked ==
  QueueInv /\ BusyIsLocked /\ (QueueStep \/ UNCHANGED queueVars) => BusyIsLocked'
<1> SUFFICES ASSUME QueueInv, BusyIsLocked, QueueStep \/ UNCHANGED queueVars, faults'.lost = 0
             PROVE  \A t \in Slot : slots'[t].pc # "idle" => slots'[t].locked
  BY DEF BusyIsLocked
<1> USE DEF BusyIsLocked, QueueInv, QueueTypeOK, SlotRecord
<1>1. CASE UNCHANGED <<slots, faults>>
  BY <1>1
<1>2. ASSUME NEW s \in Slot, NEW j \in Job, Pick(s, j)
      PROVE  \A t \in Slot : slots'[t].pc # "idle" => slots'[t].locked
  BY <1>2 DEF Pick
<1>3. ASSUME NEW s \in Slot, NEW from \in {"picked", "guarded", "working", "returned"}, NEW to,
             Advance(s, from, to)
      PROVE  \A t \in Slot : slots'[t].pc # "idle" => slots'[t].locked
  BY <1>3 DEF Advance
<1>4. ASSUME NEW s \in Slot, Ack(s) \/ Throw(s)
      PROVE  \A t \in Slot : slots'[t].pc # "idle" => slots'[t].locked
  <2>1. faults' = faults /\ slots' = [slots EXCEPT ![s] = Idle]
    BY <1>4 DEF Ack, Throw
  <2>2. QED
    BY <2>1 DEF Idle
<1>5. ASSUME NEW s \in Slot, LoseLock(s) PROVE FALSE
  <2>1. faults.lost \in Nat /\ faults'.lost = faults.lost + 1
    BY <1>5, JobQueueAssumption DEF LoseLock
  <2>2. QED
    BY <2>1
<1>6. CASE Crash
  BY <1>6 DEF Crash, Idle
<1>7. CASE Death /\ UNCHANGED <<jobs, slots, failedEvents>>
  <2>1. faults'.lost = faults.lost
    BY <1>7 DEF Death
  <2>2. QED
    BY <1>7, <2>1
<1>8. ASSUME NEW j \in Job, Add(j) \/ RetryDue(j) \/ Recover(j) PROVE UNCHANGED <<slots, faults>>
  BY <1>8 DEF Add, RetryDue, Recover
<1>9. ASSUME NEW e \in Event, Handled(e) PROVE UNCHANGED <<slots, faults>>
  BY <1>9 DEF Handled
<1>10. QED
  BY <1>1, <1>2, <1>3, <1>4, <1>5, <1>6, <1>7, <1>8, <1>9 DEF QueueStep, queueVars

===============================================================================
