----------------------------- MODULE Entitlements -----------------------------
(***************************************************************************)
(* The monthly quota of one user for one usage_event_type: assertQuota and *)
(* recordUsage of SubscriptionService, as the metered handlers call them   *)
(* around what they sell (createScore, requestOptimization, createJob and  *)
(* the extension's score): check, act, record, answer, with no lock and no *)
(* transaction around the four.  Web and extension share the quota.        *)
(***************************************************************************)
EXTENDS Integers, FiniteSets

CONSTANTS
  Request,       \* the metered requests of the user
  Limit,         \* FREE_LIMITS of the event type
  MaxInFlight,   \* bound: requests of the user being handled at once
  MaxMonth,      \* bound: months
  MaxDeaths      \* bound: handlers that die

ASSUME EntitlementsAssumption ==
  /\ IsFiniteSet(Request)
  /\ Limit \in Nat \ {0}
  /\ MaxInFlight \in Nat \ {0}
  /\ MaxMonth \in Nat \ {0}
  /\ MaxDeaths \in Nat

VARIABLES
  plan,       \* subscriptions.plan
  month,      \* date_trunc('month', now())
  quotaStep,  \* how far the handler of a request has come
  free,       \* the requests that read the plan as 'free'
  worked,     \* the requests whose work is there: a row inserted, a score computed
  charged,    \* the month of a request's usage_events row; 0 without one
  deaths      \* handlers that died so far

quotaVars == <<plan, month, quotaStep, free, worked, charged, deaths>>

QuotaStep == {"new", "begun", "free", "admitted", "acted", "charged", "over"}

QuotaTypeOK ==
  /\ plan \in {"free", "premium"}
  /\ month \in 1 .. MaxMonth
  /\ quotaStep \in [Request -> QuotaStep]
  /\ free \subseteq Request
  /\ worked \subseteq Request
  /\ charged \in [Request -> 0 .. MaxMonth]
  /\ deaths \in 0 .. MaxDeaths

QuotaInit ==
  /\ plan = "free"
  /\ month = 1
  /\ quotaStep = [q \in Request |-> "new"]
  /\ free = {}
  /\ worked = {}
  /\ charged = [q \in Request |-> 0]
  /\ deaths = 0

InFlight == {q \in Request : quotaStep[q] \notin {"new", "over"}}

\* countThisMonth.
Counted == {q \in Request : charged[q] = month}

Goto(q, to) == quotaStep' = [quotaStep EXCEPT ![q] = to]

-----------------------------------------------------------------------------
Begin(q) ==
  /\ quotaStep[q] = "new"
  /\ Cardinality(InFlight) < MaxInFlight
  /\ Goto(q, "begun")
  /\ UNCHANGED <<plan, month, free, worked, charged, deaths>>

\* getOrCreateSubscription; Premium users have no limits.
ReadPlan(q) ==
  /\ quotaStep[q] = "begun"
  /\ IF plan = "premium"
       THEN Goto(q, "admitted") /\ UNCHANGED free
       ELSE Goto(q, "free") /\ free' = free \cup {q}
  /\ UNCHANGED <<plan, month, worked, charged, deaths>>

\* Mutant: off by one.
CountAtMost(q) ==
  /\ quotaStep[q] = "free"
  /\ Goto(q, IF Cardinality(Counted) <= Limit THEN "admitted" ELSE "over")
  /\ UNCHANGED <<plan, month, free, worked, charged, deaths>>

\* The count, and the 402 when it has reached the limit.
Count(q) ==
  /\ quotaStep[q] = "free"
  /\ Goto(q, IF Cardinality(Counted) < Limit THEN "admitted" ELSE "over")
  /\ UNCHANGED <<plan, month, free, worked, charged, deaths>>

\* Mutant: a failure is caught and the handler goes on.
ActOrNot(q) ==
  /\ quotaStep[q] = "admitted"
  /\ worked' = worked \cup {q} \/ UNCHANGED worked
  /\ Goto(q, "acted")
  /\ UNCHANGED <<plan, month, free, charged, deaths>>

\* The INSERT or UPDATE of the row, or the extension's call of the scorer; an
\* error, or a precondition that does not hold, ends the request.
Act(q) ==
  /\ quotaStep[q] = "admitted"
  /\ \/ Goto(q, "acted") /\ worked' = worked \cup {q}
     \/ Goto(q, "over") /\ UNCHANGED worked
  /\ UNCHANGED <<plan, month, free, charged, deaths>>

\* Mutant: the row is dated in the month after.
RecordLate(q) ==
  /\ quotaStep[q] = "acted"
  /\ charged' = [charged EXCEPT ![q] = month + 1]
  /\ Goto(q, "charged")
  /\ UNCHANGED <<plan, month, free, worked, deaths>>

\* recordUsage: one more row, dated now.
Record(q) ==
  /\ quotaStep[q] = "acted"
  /\ charged' = [charged EXCEPT ![q] = month]
  /\ Goto(q, "charged")
  /\ UNCHANGED <<plan, month, free, worked, deaths>>

\* queue.add where there is a queue, and the answer to the client.
Reply(q) ==
  /\ quotaStep[q] = "charged"
  /\ Goto(q, "over")
  /\ UNCHANGED <<plan, month, free, worked, charged, deaths>>

\* The process dies, or a database call throws.
Die(q) ==
  /\ q \in InFlight
  /\ deaths < MaxDeaths
  /\ deaths' = deaths + 1
  /\ Goto(q, "over")
  /\ UNCHANGED <<plan, month, free, worked, charged>>

\* A Stripe webhook upgrades or downgrades the user: see Billing.
ChangePlan ==
  /\ plan' = IF plan = "free" THEN "premium" ELSE "free"
  /\ UNCHANGED <<month, quotaStep, free, worked, charged, deaths>>

NewMonth ==
  /\ month < MaxMonth
  /\ month' = month + 1
  /\ UNCHANGED <<plan, quotaStep, free, worked, charged, deaths>>

QuotaNext ==
  \/ \E q \in Request :
       \/ Begin(q) \/ ReadPlan(q) \/ Count(q)
       \/ Act(q) \/ Record(q) \/ Reply(q) \/ Die(q)
  \/ ChangePlan
  \/ NewMonth

QuotaSpec == QuotaInit /\ [][QuotaNext]_quotaVars

-----------------------------------------------------------------------------
(* Correctness.                                                            *)

\* A request admitted by the quota that has no usage row yet.
Unrecorded == {q \in free : quotaStep[q] \in {"admitted", "acted"}}
FreeUse == (free \cap Counted) \cup Unrecorded

(***************************************************************************)
(* The overrun of the unlocked quota is bounded: what a user gets as a     *)
(* Free user in a month, through any mix of surfaces and through any       *)
(* upgrades, downgrades and changes of month in between, exceeds the limit *)
(* by less than the number of requests that were in flight together.       *)
(***************************************************************************)
FreeUseIsBounded == Cardinality(FreeUse) <= Limit + MaxInFlight - 1

(***************************************************************************)
(* extension-score.service.ts:91-94 "the user is not charged a score for   *)
(* work they did not receive": a usage row always belongs to work done.    *)
(***************************************************************************)
NoChargeWithoutWork ==
  \A q \in Request : charged[q] # 0 => q \in worked

\* The inductive strengthening of both: the guard of Begin holds ever after; a
\* request reads the plan once and is charged once, after its work, and never in
\* a month to come.
ChargedOnce ==
  \A q \in Request :
    /\ charged[q] <= month
    /\ quotaStep[q] \in {"new", "begun"} => q \notin free
    /\ quotaStep[q] \in {"new", "begun", "free", "admitted", "acted"} => charged[q] = 0
    /\ quotaStep[q] \in {"acted", "charged"} => q \in worked

QuotaInv ==
  /\ Cardinality(InFlight) <= MaxInFlight
  /\ ChargedOnce
  /\ FreeUseIsBounded
  /\ NoChargeWithoutWork

=============================================================================
