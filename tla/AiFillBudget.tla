----------------------------- MODULE AiFillBudget -----------------------------
(***************************************************************************)
(* The daily ceiling of one user's AI fills, ExtensionAiFillService.fill:  *)
(* a Redis counter for each UTC day, which fails open; then the resume and *)
(* the call of the model.  Requests of a day are not told apart.           *)
(***************************************************************************)
EXTENDS Naturals

CONSTANTS
  DailyLimit,   \* AI_FILL_DAILY_LIMIT
  MaxDays,      \* bound: days
  MaxFills,     \* bound: requests
  MaxOutages,   \* bound: Redis calls that fail or are sent again
  MaxAborts     \* bound: requests whose process dies on the way to the model

ASSUME AiFillAssumption ==
  /\ DailyLimit \in Nat \ {0}
  /\ MaxDays \in Nat \ {0} /\ MaxFills \in Nat
  /\ MaxOutages \in Nat /\ MaxAborts \in Nat

VARIABLES
  today,           \* the UTC day
  starting,        \* requests that have read the date and not yet counted, by day
  firsts,          \* requests that were the first of their day and set the expiry
  counter,         \* aifill:<user>:<day>
  counterExpires,  \* the key has an expiry
  working,         \* requests past the ceiling, by day
  fills,           \* requests so far
  outages,         \* Redis errors and lost connections so far
  aborts,          \* requests so far whose process died
  admitted,        \* history: requests let past the ceiling, by day
  uncounted,       \* history: those of them that met a Redis error
  wasted,          \* history: counts of a day that no request was let past for
  turnedAway       \* history: requests answered 402

fillBudgetVars == <<today, starting, firsts, counter, counterExpires, working, fills, outages,
                    aborts, admitted, uncounted, wasted, turnedAway>>

Day == 1 .. MaxDays
Tally == [Day -> 0 .. MaxFills]
Zero == [d \in Day |-> 0]
More(f, d) == [f EXCEPT ![d] = @ + 1]
Less(f, d) == [f EXCEPT ![d] = @ - 1]

AiFillBudgetTypeOK ==
  /\ today \in Day
  /\ starting \in Tally /\ firsts \in Tally /\ working \in Tally
  /\ admitted \in Tally /\ uncounted \in Tally /\ turnedAway \in Tally
  /\ counter \in [Day -> 0 .. MaxFills + MaxOutages]
  /\ wasted \in [Day -> 0 .. MaxFills + MaxOutages]
  /\ counterExpires \in [Day -> BOOLEAN]
  /\ fills \in 0 .. MaxFills /\ outages \in 0 .. MaxOutages /\ aborts \in 0 .. MaxAborts

AiFillBudgetInit ==
  /\ today = 1
  /\ starting = Zero /\ firsts = Zero /\ counter = Zero /\ working = Zero
  /\ admitted = Zero /\ uncounted = Zero /\ wasted = Zero /\ turnedAway = Zero
  /\ counterExpires = [d \in Day |-> FALSE]
  /\ fills = 0 /\ outages = 0 /\ aborts = 0

-----------------------------------------------------------------------------
\* The date is read before the INCR.
BeginFill ==
  /\ fills < MaxFills
  /\ fills' = fills + 1
  /\ starting' = More(starting, today)
  /\ UNCHANGED <<today, firsts, counter, counterExpires, working, outages, aborts, admitted,
                 uncounted, wasted, turnedAway>>

\* Mutant: the last request of the limit is turned away.
CompareAtLimit(d, total) ==
  IF total >= DailyLimit
    THEN turnedAway' = More(turnedAway, d) /\ UNCHANGED <<firsts, working, admitted>>
    ELSE /\ admitted' = More(admitted, d)
         /\ firsts' = IF total = 1 THEN More(firsts, d) ELSE firsts
         /\ working' = IF total = 1 THEN working ELSE More(working, d)
         /\ UNCHANGED turnedAway

\* What INCR has returned is compared with the limit.
Compare(d, total) ==
  IF total > DailyLimit
    THEN turnedAway' = More(turnedAway, d) /\ UNCHANGED <<firsts, working, admitted>>
    ELSE /\ admitted' = More(admitted, d)
         /\ firsts' = IF total = 1 THEN More(firsts, d) ELSE firsts
         /\ working' = IF total = 1 THEN working ELSE More(working, d)
         /\ UNCHANGED turnedAway

\* Mutant: the counter is that of the day it is by then.
IncrToday(d) ==
  /\ starting[d] > 0
  /\ starting' = Less(starting, d)
  /\ counter' = More(counter, today)
  /\ Compare(d, counter'[today])
  /\ UNCHANGED <<today, counterExpires, fills, outages, aborts, uncounted, wasted>>

\* INCR, and the 402 over the limit; the first one goes on to the expiry.
Incr(d) ==
  /\ starting[d] > 0
  /\ starting' = Less(starting, d)
  /\ counter' = More(counter, d)
  /\ Compare(d, counter'[d])
  /\ UNCHANGED <<today, counterExpires, fills, outages, aborts, uncounted, wasted>>

\* Mutant: a failed INCR is sent again.
IncrFailsAgain(d, applied) ==
  /\ starting[d] > 0
  /\ outages < MaxOutages
  /\ outages' = outages + 1
  /\ starting' = Less(starting, d)
  /\ counter' = IF applied THEN More(More(counter, d), d) ELSE More(counter, d)
  /\ admitted' = More(admitted, d) /\ uncounted' = More(uncounted, d)
  /\ working' = More(working, d)
  /\ UNCHANGED <<today, firsts, counterExpires, fills, aborts, wasted, turnedAway>>

\* INCR throws, before Redis has counted or after: the request is allowed.
IncrFails(d, applied) ==
  /\ starting[d] > 0
  /\ outages < MaxOutages
  /\ outages' = outages + 1
  /\ starting' = Less(starting, d)
  /\ counter' = IF applied THEN More(counter, d) ELSE counter
  /\ admitted' = More(admitted, d) /\ uncounted' = More(uncounted, d)
  /\ working' = More(working, d)
  /\ UNCHANGED <<today, firsts, counterExpires, fills, aborts, wasted, turnedAway>>

\* The connection is lost when Redis has counted and has not answered: the client sends
\* the INCR again, and what answers is the second count.
IncrIsResent(d) ==
  /\ starting[d] > 0
  /\ outages < MaxOutages
  /\ outages' = outages + 1
  /\ counter' = More(counter, d) /\ wasted' = More(wasted, d)
  /\ UNCHANGED <<today, starting, firsts, counterExpires, working, fills, aborts, admitted,
                 uncounted, turnedAway>>

\* The process dies between the date and the answer of the INCR, which Redis may have
\* counted.
DieAtIncr(d, counted) ==
  /\ starting[d] > 0
  /\ aborts < MaxAborts
  /\ aborts' = aborts + 1
  /\ starting' = Less(starting, d)
  /\ counter' = IF counted THEN More(counter, d) ELSE counter
  /\ wasted' = IF counted THEN More(wasted, d) ELSE wasted
  /\ UNCHANGED <<today, firsts, counterExpires, working, fills, outages, admitted, uncounted,
                 turnedAway>>

\* The process dies between the first count of a day and its EXPIRE: the request is not
\* let past, and the key stays for good.
DieAtExpire(d) ==
  /\ firsts[d] > 0
  /\ aborts < MaxAborts
  /\ aborts' = aborts + 1
  /\ firsts' = Less(firsts, d) /\ admitted' = Less(admitted, d) /\ wasted' = More(wasted, d)
  /\ UNCHANGED <<today, starting, counter, counterExpires, working, fills, outages, uncounted,
                 turnedAway>>

\* EXPIRE of 48 hours; an error is caught as well.
Expire(d, fails) ==
  /\ firsts[d] > 0
  /\ fails => outages < MaxOutages
  /\ outages' = IF fails THEN outages + 1 ELSE outages
  /\ counterExpires' = [counterExpires EXCEPT ![d] = @ \/ ~fails]
  /\ firsts' = Less(firsts, d) /\ working' = More(working, d)
  /\ UNCHANGED <<today, starting, counter, fills, aborts, admitted, uncounted, wasted,
                 turnedAway>>

\* No resume, no API key, an error of the model, the death of the process, or answers:
\* what was spent of the ceiling is spent.
FinishFill(d) ==
  /\ working[d] > 0
  /\ working' = Less(working, d)
  /\ UNCHANGED <<today, starting, firsts, counter, counterExpires, fills, outages, aborts,
                 admitted, uncounted, wasted, turnedAway>>

\* The key of a day goes with its expiry, two days later at the earliest; no request
\* takes that long from the date to the INCR.
Forget(d) ==
  /\ counterExpires[d] /\ starting[d] = 0
  /\ today > d + 1
  /\ counter' = [counter EXCEPT ![d] = 0]
  /\ counterExpires' = [counterExpires EXCEPT ![d] = FALSE]
  /\ UNCHANGED <<today, starting, firsts, working, fills, outages, aborts, admitted, uncounted,
                 wasted, turnedAway>>

Midnight ==
  /\ today < MaxDays
  /\ today' = today + 1
  /\ UNCHANGED <<starting, firsts, counter, counterExpires, working, fills, outages, aborts,
                 admitted, uncounted, wasted, turnedAway>>

AiFillBudgetNext ==
  \/ BeginFill \/ Midnight
  \/ \E d \in Day :
       \/ Incr(d) \/ IncrIsResent(d) \/ DieAtExpire(d) \/ FinishFill(d) \/ Forget(d)
       \/ \E sure \in BOOLEAN : IncrFails(d, sure) \/ DieAtIncr(d, sure) \/ Expire(d, sure)

AiFillBudgetSpec == AiFillBudgetInit /\ [][AiFillBudgetNext]_fillBudgetVars

-----------------------------------------------------------------------------
(* Correctness.                                                            *)

(***************************************************************************)
(* extension-ai-fill.service.ts:302-315 "concurrent requests cannot all    *)
(* read the same count": of the requests begun on one UTC day no more than *)
(* the limit reach the model, besides those that met a Redis error.        *)
(***************************************************************************)
CeilingHolds == \A d \in Day : admitted[d] <= DailyLimit + uncounted[d]

(***************************************************************************)
(* extension-ai-fill.service.ts:338-349 "You have reached the daily limit":*)
(* who is told so has had the whole limit of that day, but for the counts  *)
(* that were spent on nobody: those of a request whose process died, and   *)
(* the first of two when the client sent an INCR again.                    *)
(***************************************************************************)
NobodyIsTurnedAwayEarly ==
  \A d \in Day : turnedAway[d] > 0 => admitted[d] + wasted[d] >= DailyLimit

(***************************************************************************)
(* extension-ai-fill.service.ts:302-349: the ceiling is missed by no more  *)
(* than the Redis errors, and met early by no more than the counts wasted. *)
(***************************************************************************)
CeilingIsExact == CeilingHolds /\ NobodyIsTurnedAwayEarly

=============================================================================
