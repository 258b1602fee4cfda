------------------------------- MODULE BillingPage -------------------------------
(***************************************************************************)
(* The billing page in one or more tabs, Stripe's pages it sends the user  *)
(* to, and the user's row, which only webhooks change.  A tab asks once    *)
(* for the plan and the month's usage, and does not ask again: what it     *)
(* offers is what it was told then.  One of the three meters stands for    *)
(* all.                                                                    *)
(***************************************************************************)
EXTENDS Naturals, FiniteSets

CONSTANTS
  Tab,          \* tabs that show the page, or one of Stripe's after it
  Purchase,     \* subscriptions that a checkout may lead to
  FreeLimit,    \* FREE_LIMITS of the meter
  MaxSnags      \* bound: requests that fail

ASSUME BillingPageAssumption ==
  FreeLimit \in Nat \ {0} /\ MaxSnags \in Nat /\ Tab \cap Purchase = {}

VARIABLES
  planRow,      \* subscriptions.plan
  used,         \* usage_events of this month
  purchases,    \* the subscriptions at Stripe, and what the webhooks made of them
  tabs,         \* where each tab is, and the page's state in it
  snags,        \* requests that failed
  blindly       \* history: somebody paid while a tab had been told "free", or was
                \* about to be, and did not hear of it

billingPageVars == <<planRow, used, purchases, tabs, snags, blindly>>

Plan   == {"free", "premium"}
Answers == [plan : Plan, used : 0 .. FreeLimit]
NoAnswer == [plan |-> "none", used |-> 0]

\* `read` is what the answer on its way holds, `sub` what the page was told; `stale`
\* is history: the row or the usage changed after it was read.
Closed ==
  [at |-> "closed", banner |-> "none", load |-> "none", read |-> NoAnswer, sub |-> NoAnswer,
   error |-> FALSE, acting |-> FALSE, request |-> "none", actionError |-> FALSE, stale |-> FALSE]

BillingPageTypeOK ==
  /\ planRow \in Plan /\ used \in 0 .. FreeLimit
  /\ purchases \in [Purchase -> {"none", "paid", "recorded", "ending", "over"}]
  /\ tabs \in [Tab -> [at : {"closed", "here", "checkout", "portal"},
                       banner : {"none", "success", "canceled"},
                       load : {"none", "asked", "half", "read"},
                       read : Answers \cup {NoAnswer}, sub : Answers \cup {NoAnswer},
                       error : BOOLEAN, acting : BOOLEAN,
                       request : {"none", "checkout", "portal"},
                       actionError : BOOLEAN, stale : BOOLEAN]]
  /\ snags \in 0 .. MaxSnags /\ blindly \in BOOLEAN

BillingPageInit ==
  /\ planRow = "free" /\ used \in 0 .. FreeLimit
  /\ purchases = [p \in Purchase |-> "none"]
  /\ tabs = [t \in Tab |-> Closed]
  /\ snags = 0 /\ blindly = FALSE

Here(t) == tabs[t].at = "here"
Snag == snags < MaxSnags /\ snags' = snags + 1
Set(t, page) == tabs' = [tabs EXCEPT ![t] = page]

\* What has been read, in any tab, is no longer so.
Outdated == [t \in Tab |-> [tabs[t] EXCEPT !.stale = @ \/ tabs[t].load \in {"half", "read"}
                                                     \/ tabs[t].sub # NoAnswer]]

-----------------------------------------------------------------------------
(* The page.                                                               *)

\* UsageMeter, by its colour; no limit for Premium.
Meter(answer) ==
  IF answer.plan = "premium" THEN "unlimited"
  ELSE CASE answer.used >= FreeLimit -> "full"
         [] answer.used < FreeLimit /\ 5 * answer.used >= 4 * FreeLimit -> "warning"
         [] OTHER -> "normal"

\* Mutant: the upgrade is offered to everybody.
ButtonsAlways(answer) == {"upgrade"} \cup (IF answer.plan = "premium" THEN {"manage"} ELSE {})

\* The plan's card.
Buttons(answer) == IF answer.plan = "premium" THEN {"manage"} ELSE {"upgrade"}

\* What the page shows when it has loaded.
Offers(t) ==
  IF tabs[t].load # "none" \/ tabs[t].sub = NoAnswer THEN {}
  ELSE {Meter(tabs[t].sub)} \cup Buttons(tabs[t].sub)
       \cup (IF tabs[t].sub.plan = "premium" THEN {} ELSE {"features"})

\* What it shows above the plan; actionError is shown with the buttons.
Notices(t) ==
  IF ~Here(t) THEN {}
  ELSE ({tabs[t].banner} \ {"none"}) \cup (IF tabs[t].load # "none" THEN {"loading"} ELSE {})
       \cup (IF tabs[t].error THEN {"error"} ELSE {})

\* The page is opened: from a link, or by Stripe with ?success=1 or ?canceled=1.
Opened(banner) == [Closed EXCEPT !.at = "here", !.banner = banner, !.load = "asked"]

OpenBilling(t) ==
  /\ tabs[t].at # "here"
  /\ Set(t, Opened("none"))
  /\ UNCHANGED <<planRow, used, purchases, snags, blindly>>

CloseTab(t) ==
  /\ tabs[t].at # "closed"
  /\ Set(t, Closed)
  /\ UNCHANGED <<planRow, used, purchases, snags, blindly>>

\* getSubscriptionStatus reads the row, and after it the counts.
ReadPlan(t) ==
  /\ Here(t) /\ tabs[t].load = "asked"
  /\ Set(t, [tabs[t] EXCEPT !.load = "half", !.read = [plan |-> planRow, used |-> 0]])
  /\ blindly' = (blindly \/ \E p \in Purchase : purchases[p] = "paid")
  /\ UNCHANGED <<planRow, used, purchases, snags>>

ReadUsage(t) ==
  /\ Here(t) /\ tabs[t].load = "half"
  /\ Set(t, [tabs[t] EXCEPT !.load = "read", !.read.used = used])
  /\ UNCHANGED <<planRow, used, purchases, snags, blindly>>

\* load: setSub, or setError.
LoadArrives(t) ==
  /\ Here(t) /\ tabs[t].load = "read"
  /\ Set(t, [tabs[t] EXCEPT !.load = "none", !.sub = tabs[t].read, !.read = NoAnswer])
  /\ UNCHANGED <<planRow, used, purchases, snags, blindly>>

LoadFails(t) ==
  /\ Here(t) /\ tabs[t].load # "none" /\ Snag
  /\ Set(t, [tabs[t] EXCEPT !.load = "none", !.error = TRUE, !.read = NoAnswer])
  /\ UNCHANGED <<planRow, used, purchases, blindly>>

HandleUpgrade(t) ==
  /\ Here(t) /\ "upgrade" \in Offers(t) /\ ~tabs[t].acting
  /\ Set(t, [tabs[t] EXCEPT !.acting = TRUE, !.actionError = FALSE, !.request = "checkout"])
  /\ UNCHANGED <<planRow, used, purchases, snags, blindly>>

HandleManage(t) ==
  /\ Here(t) /\ "manage" \in Offers(t) /\ ~tabs[t].acting
  /\ Set(t, [tabs[t] EXCEPT !.acting = TRUE, !.actionError = FALSE, !.request = "portal"])
  /\ UNCHANGED <<planRow, used, purchases, snags, blindly>>

\* window.location.href: the tab leaves, with the button still disabled.
GoToStripe(t) ==
  /\ Here(t) /\ tabs[t].request # "none"
  /\ Set(t, [Closed EXCEPT !.at = tabs[t].request])
  /\ UNCHANGED <<planRow, used, purchases, snags, blindly>>

\* Mutant: the button stays disabled.
ActionFailsLocked(t) ==
  /\ Here(t) /\ tabs[t].request # "none" /\ Snag
  /\ Set(t, [tabs[t] EXCEPT !.actionError = TRUE, !.request = "none"])
  /\ UNCHANGED <<planRow, used, purchases, blindly>>

ActionFails(t) ==
  /\ Here(t) /\ tabs[t].request # "none" /\ Snag
  /\ Set(t, [tabs[t] EXCEPT !.acting = FALSE, !.actionError = TRUE, !.request = "none"])
  /\ UNCHANGED <<planRow, used, purchases, blindly>>

-----------------------------------------------------------------------------
(* Stripe's pages, the webhooks, and other use of the account.             *)

Live == {p \in Purchase : purchases[p] \notin {"none", "over"}}
Told(t) == tabs[t].sub.plan = "free" \/ tabs[t].read.plan = "free"

Pay(t, p) ==
  /\ tabs[t].at = "checkout" /\ purchases[p] = "none"
  /\ purchases' = [purchases EXCEPT ![p] = "paid"]
  /\ Set(t, Opened("success"))
  /\ blindly' = (blindly \/ \E u \in Tab \ {t} : tabs[u].at = "checkout" \/ Told(u))
  /\ UNCHANGED <<planRow, used, snags>>

CancelCheckout(t) ==
  /\ tabs[t].at = "checkout"
  /\ Set(t, Opened("canceled"))
  /\ UNCHANGED <<planRow, used, purchases, snags, blindly>>

\* In the portal a subscription is cancelled; its return link has no query.
CancelSubscription(t, p) ==
  /\ tabs[t].at = "portal" /\ purchases[p] = "recorded"
  /\ purchases' = [purchases EXCEPT ![p] = "ending"]
  /\ Set(t, Opened("none"))
  /\ UNCHANGED <<planRow, used, snags, blindly>>

\* The webhooks: the row becomes Premium, or Free again.
Webhook(p) ==
  /\ purchases[p] \in {"paid", "ending"}
  /\ purchases' = [purchases EXCEPT ![p] = IF @ = "paid" THEN "recorded" ELSE "over"]
  /\ planRow' = IF purchases[p] = "paid" THEN "premium" ELSE "free"
  /\ tabs' = Outdated
  /\ UNCHANGED <<used, snags, blindly>>

\* A metered action anywhere, which assertQuota lets through.
Refused == planRow = "free" /\ used >= FreeLimit
UseQuota ==
  /\ ~Refused /\ used < FreeLimit
  /\ used' = used + 1 /\ tabs' = Outdated
  /\ UNCHANGED <<planRow, purchases, snags, blindly>>

BillingPageNext ==
  \/ \E t \in Tab :
       \/ OpenBilling(t) \/ CloseTab(t)
       \/ ReadPlan(t) \/ ReadUsage(t) \/ LoadArrives(t) \/ LoadFails(t)
       \/ HandleUpgrade(t) \/ HandleManage(t) \/ GoToStripe(t) \/ ActionFails(t)
       \/ CancelCheckout(t)
       \/ \E p \in Purchase : Pay(t, p) \/ CancelSubscription(t, p)
  \/ \E p \in Purchase : Webhook(p)
  \/ UseQuota

BillingPageSpec == BillingPageInit /\ [][BillingPageNext]_billingPageVars

-----------------------------------------------------------------------------
(* Correctness.                                                            *)

(***************************************************************************)
(* settings/billing/page.tsx:376 and 555: nobody is led to pay twice: a    *)
(* user has two subscriptions at once only after one of them was paid      *)
(* while another tab had been told "free", or between the payment and its  *)
(* webhook a page was loaded; the reload after the webhook offers nothing. *)
(***************************************************************************)
PaysOnce == Cardinality(Live) > 1 => blindly

(***************************************************************************)
(* settings/billing/page.tsx:51-53 and subscription.service.ts:391: the    *)
(* meter of a page is full exactly when the API would refuse, as long as   *)
(* nothing has changed since its answer was read, in two reads.            *)
(***************************************************************************)
MeterIsHonest ==
  \A t \in Tab : Offers(t) # {} /\ ~tabs[t].stale => ("full" \in Offers(t) <=> Refused)

(***************************************************************************)
(* settings/billing/page.tsx:129-169: the page waits for somebody while it *)
(* turns or says "Redirecting", and shows an error or the plan otherwise.  *)
(***************************************************************************)
BillingWaitsForSomebody ==
  \A t \in Tab : Here(t) =>
    /\ tabs[t].acting <=> tabs[t].request # "none"
    /\ Offers(t) = {} <=> Notices(t) \cap {"loading", "error"} # {}

(***************************************************************************)
(* settings/billing/page.tsx: what the page offers is what the row allows. *)
(***************************************************************************)
BillingPageAgrees == PaysOnce /\ MeterIsHonest /\ BillingWaitsForSomebody
===================================================================================
