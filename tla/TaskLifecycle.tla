---------------------------- MODULE TaskLifecycle ----------------------------
(***************************************************************************)
(* What a polling client is promised of a background task: it is requested,*)
(* started, and ends in exactly one outcome.  A delivered output is final; *)
(* a failed task runs again only when it is asked for again.               *)
(***************************************************************************)
CONSTANTS
  Task,    \* the database rows that carry a task
  Output,  \* what a run can deliver
  NoOutput

VARIABLES phase, output

view == <<phase, output>>

Phase == {"idle", "requested", "running", "delivered", "failed", "gone"}

Init ==
  /\ phase = [t \in Task |-> "idle"]
  /\ output = [t \in Task |-> NoOutput]

Move(t, from, to) ==
  /\ phase[t] \in from
  /\ phase' = [phase EXCEPT ![t] = to]

Request(t) == Move(t, {"idle", "failed"}, "requested") /\ UNCHANGED output

Start(t) == Move(t, {"requested"}, "running") /\ UNCHANGED output

Deliver(t) ==
  /\ Move(t, {"running"}, "delivered")
  /\ \E o \in Output : output' = [output EXCEPT ![t] = o]

GiveUp(t) == Move(t, {"requested", "running"}, "failed") /\ UNCHANGED output

Discard(t) == Move(t, Phase \ {"gone"}, "gone") /\ UNCHANGED output

Next ==
  \E t \in Task : Request(t) \/ Start(t) \/ Deliver(t) \/ GiveUp(t) \/ Discard(t)

Spec == Init /\ [][Next]_view

\* A task that is asked for does not stay in progress for ever.
Progress(t) ==
  /\ phase[t] \in {"requested", "running"}
  /\ Start(t) \/ Deliver(t) \/ GiveUp(t)

FairSpec == Spec /\ \A t \in Task : WF_view(Progress(t))

=============================================================================
