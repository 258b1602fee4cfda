------------------------------- MODULE Billing -------------------------------
(***************************************************************************)
(* The billing half of SubscriptionService and StripeWebhookController:    *)
(* checkout sessions, and the three webhook handlers that write the rows   *)
(* of `subscriptions`, against a Stripe that delivers its events in any    *)
(* order and more than once.  Rows exist before a checkout starts          *)
(* (getOrCreateSubscription).  Subscription s is the one that checkout     *)
(* session s creates, or one that support attaches in the Stripe Dashboard.*)
(***************************************************************************)
EXTENDS Naturals, Sequences, FiniteSets

CONSTANTS
  User, Customer, Sub,
  Handler,           \* webhook requests handled at once
  NoOne,             \* null
  Outcome,           \* the statuses a Stripe subscription may change to
  DashboardIsUsed,   \* support attaches subscriptions, at prices not sold here
  MaxEvents,         \* bound: events sent
  MaxRedeliveries,   \* bound: second deliveries
  MaxFaults          \* bound: handlers that fail

\* subscriptionStatusEnum; Stripe has more (paused, unpaid, ...): "unlisted".
Listed == {"active", "canceled", "past_due", "trialing", "incomplete"}
StripeStatus == Listed \cup {"unlisted"}
Active == {"active", "trialing"}

ASSUME BillingAssumption ==
  /\ NoOne \notin User \cup Customer \cup Sub
  /\ Outcome \subseteq StripeStatus
  /\ DashboardIsUsed \in BOOLEAN
  /\ MaxEvents \in Nat /\ MaxRedeliveries \in Nat /\ MaxFaults \in Nat

VARIABLES
  rows,          \* the subscriptions table, by user
  checkout,      \* createCheckoutSession, by the subscription it leads to
  owner,         \* metadata.userId of a Stripe customer
  stripe,        \* Stripe's subscriptions
  sent,          \* the events Stripe has sent
  answered,      \* the events a handler has started on
  handler,       \* the webhook requests in progress
  redeliveries, billingFaults,
  orderly        \* every event came once, in order, and no handler failed

billedVars == <<rows, checkout>>
stripeVars == <<owner, stripe, sent>>
deliveryVars == <<answered, handler, redeliveries, billingFaults, orderly>>
billingVars == <<billedVars, stripeVars, deliveryVars>>

SubscriptionRow == [plan : {"free", "premium"}, customer : Customer \cup {NoOne},
        sub : Sub \cup {NoOne}, status : Listed \cup {"null"}, sold : BOOLEAN]
StripeSub == [status : StripeStatus \cup {"none"}, sold : BOOLEAN,
              customer : Customer \cup {NoOne}]
StripeEvent == [type : {"completed", "updated", "deleted"}, sub : Sub, now : StripeSub]
Session == [user : User \cup {NoOne}, step : {"none", "create", "stamp", "open", "paid"},
            customer : Customer \cup {NoOne}]

NoSub == [status |-> "none", sold |-> FALSE, customer |-> NoOne]
IdleHandler == [event |-> 0, pc |-> "idle", again |-> FALSE, now |-> NoSub]
Pc == {"idle", "received", "fetched", "missed"}

BillingTypeOK ==
  /\ rows \in [User -> SubscriptionRow]
  /\ checkout \in [Sub -> Session]
  /\ owner \in [Customer -> User \cup {NoOne}]
  /\ stripe \in [Sub -> StripeSub]
  /\ sent \in Seq(StripeEvent) /\ Len(sent) <= MaxEvents
  /\ answered \subseteq 1 .. Len(sent)
  /\ handler \in [Handler ->
       [event : 0 .. Len(sent), pc : Pc, again : BOOLEAN, now : StripeSub]]
  /\ redeliveries \in 0 .. MaxRedeliveries
  /\ billingFaults \in 0 .. MaxFaults
  /\ orderly \in BOOLEAN

BillingInit ==
  /\ rows = [u \in User |-> [plan |-> "free", customer |-> NoOne, sub |-> NoOne,
                             status |-> "null", sold |-> FALSE]]
  /\ checkout = [s \in Sub |-> [user |-> NoOne, step |-> "none", customer |-> NoOne]]
  /\ owner = [c \in Customer |-> NoOne]
  /\ stripe = [s \in Sub |-> NoSub]
  /\ sent = <<>>
  /\ answered = {}
  /\ handler = [h \in Handler |-> IdleHandler]
  /\ redeliveries = 0
  /\ billingFaults = 0
  /\ orderly = TRUE

-----------------------------------------------------------------------------
(* createCheckoutSession: getOrCreateStripeCustomer, then the session.     *)

StartCheckout(s, u) ==
  /\ checkout[s].step = "none" /\ stripe[s] = NoSub
  /\ checkout' = [checkout EXCEPT ![s] =
       [user |-> u, customer |-> rows[u].customer,
        step |-> IF rows[u].customer = NoOne THEN "create" ELSE "open"]]
  /\ UNCHANGED <<rows, stripeVars, deliveryVars>>

CreateCustomer(s, c) ==
  /\ checkout[s].step = "create"
  /\ owner[c] = NoOne
  /\ owner' = [owner EXCEPT ![c] = checkout[s].user]
  /\ checkout' = [checkout EXCEPT ![s].step = "stamp", ![s].customer = c]
  /\ UNCHANGED <<rows, stripe, sent, deliveryVars>>

\* A second checkout of the user overwrites the customer of the first.
StampCustomer(s) ==
  /\ checkout[s].step = "stamp"
  /\ rows' = [rows EXCEPT ![checkout[s].user].customer = checkout[s].customer]
  /\ checkout' = [checkout EXCEPT ![s].step = "open"]
  /\ UNCHANGED <<stripeVars, deliveryVars>>

-----------------------------------------------------------------------------
(* Stripe.                                                                 *)

Send(type, s) ==
  /\ Len(sent) < MaxEvents
  /\ sent' = Append(sent, [type |-> type, sub |-> s, now |-> stripe'[s]])

\* The user pays: the session's only price is one of PRICE_ID_ENV.
Pay(s) ==
  /\ checkout[s].step = "open"
  /\ checkout' = [checkout EXCEPT ![s].step = "paid"]
  /\ stripe' = [stripe EXCEPT ![s] =
       [status |-> "active", sold |-> TRUE, customer |-> checkout[s].customer]]
  /\ Send("completed", s)
  /\ UNCHANGED <<rows, owner, deliveryVars>>

\* Support creates a subscription at another price; the event of a creation is
\* not one the controller routes.
Attach(s, c) ==
  /\ DashboardIsUsed
  /\ checkout[s].step = "none" /\ stripe[s] = NoSub /\ owner[c] # NoOne
  /\ stripe' = [stripe EXCEPT
       ![s] = [status |-> "active", sold |-> FALSE, customer |-> c]]
  /\ UNCHANGED <<billedVars, owner, sent, deliveryVars>>

Change(s, to) ==
  /\ stripe[s].status \notin {"none", "canceled"} /\ to # "canceled"
  /\ stripe' = [stripe EXCEPT ![s].status = to]
  /\ Send("updated", s)
  /\ UNCHANGED <<billedVars, owner, deliveryVars>>

Cancel(s) ==
  /\ "canceled" \in Outcome
  /\ stripe[s].status \notin {"none", "canceled"}
  /\ stripe' = [stripe EXCEPT ![s].status = "canceled"]
  /\ Send("deleted", s)
  /\ UNCHANGED <<billedVars, owner, deliveryVars>>

\* The first delivery of an event, or another one.
Deliver(h, i) ==
  /\ handler[h].pc = "idle"
  /\ orderly' = (/\ orderly
                 /\ \A g \in Handler : handler[g].pc = "idle"
                 /\ i = Cardinality(answered) + 1)
  /\ IF i \in answered
       THEN redeliveries < MaxRedeliveries /\ redeliveries' = redeliveries + 1
       ELSE UNCHANGED redeliveries
  /\ answered' = answered \cup {i}
  /\ handler' = [handler EXCEPT ![h] =
       [event |-> i, pc |-> "received", again |-> i \in answered, now |-> sent[i].now]]
  /\ UNCHANGED <<billedVars, stripeVars, billingFaults>>

-----------------------------------------------------------------------------
(* The webhook handlers; every one ends with the answer 200.               *)

At(h, pc, type) == handler[h].pc = pc /\ sent[handler[h].event].type = type
SubOf(h) == sent[handler[h].event].sub
Finish(h) == handler' = [handler EXCEPT ![h] = IdleHandler]
ToPc(h, pc) == handler' = [handler EXCEPT ![h].pc = pc]

\* handleCheckoutCompleted: stripe.subscriptions.retrieve ...
Retrieve(h) ==
  /\ At(h, "received", "completed")
  /\ handler' = [handler EXCEPT ![h].pc = "fetched", ![h].now = stripe[SubOf(h)]]
  /\ UNCHANGED <<billedVars, stripeVars, answered, redeliveries, billingFaults, orderly>>

\* Mutant: a row that already has a customer is left alone.
RecordCheckoutOnce(h) ==
  LET s == SubOf(h)
      now == handler[h].now
      u == checkout[s].user
  IN /\ At(h, "fetched", "completed")
     /\ IF now.status \in Listed /\ rows[u].customer = NoOne
          THEN rows' = [rows EXCEPT ![u] =
                 [plan |-> IF now.sold THEN "premium" ELSE "free",
                  customer |-> now.customer, sub |-> s,
                  status |-> now.status, sold |-> now.sold]]
          ELSE UNCHANGED rows
     /\ orderly' = (orderly /\ now.status \in Listed)
     /\ Finish(h)
     /\ UNCHANGED <<checkout, stripeVars, answered, redeliveries, billingFaults>>

\* ... and the UPDATE by the session's user.  A status the enum does not list
\* makes the statement fail, which the controller logs.
RecordCheckout(h) ==
  LET s == SubOf(h)
      now == handler[h].now
      u == checkout[s].user
  IN /\ At(h, "fetched", "completed")
     /\ IF now.status \in Listed
          THEN rows' = [rows EXCEPT ![u] =
                 [plan |-> IF now.sold THEN "premium" ELSE "free",
                  customer |-> now.customer, sub |-> s,
                  status |-> now.status, sold |-> now.sold]]
          ELSE UNCHANGED rows
     /\ orderly' = (orderly /\ now.status \in Listed)
     /\ Finish(h)
     /\ UNCHANGED <<checkout, stripeVars, answered, redeliveries, billingFaults>>

Patch(row, s, now) ==
  [row EXCEPT !.plan = IF now.status \in Active THEN "premium" ELSE "free",
              !.sub = s, !.status = now.status, !.sold = now.sold]

PatchRows(matched, h) ==
  rows' = [u \in User |->
    IF u \in matched THEN Patch(rows[u], SubOf(h), handler[h].now) ELSE rows[u]]

\* Mutant: the database takes every status Stripe knows.
UpdateBySubAnyStatus(h) ==
  LET matched == {u \in User : rows[u].sub = SubOf(h)}
  IN /\ At(h, "received", "updated")
     /\ PatchRows(matched, h)
     /\ IF matched = {} THEN ToPc(h, "missed") ELSE Finish(h)
     /\ UNCHANGED <<checkout, stripeVars, answered, redeliveries, billingFaults, orderly>>

\* handleSubscriptionUpdated, primary path.
UpdateBySub(h) ==
  LET matched == {u \in User : rows[u].sub = SubOf(h)}
  IN /\ At(h, "received", "updated")
     /\ IF handler[h].now.status \notin Listed
          THEN Finish(h) /\ orderly' = FALSE /\ UNCHANGED rows
          ELSE /\ PatchRows(matched, h)
               /\ IF matched = {} THEN ToPc(h, "missed") ELSE Finish(h)
               /\ UNCHANGED orderly
     /\ UNCHANGED <<checkout, stripeVars, answered, redeliveries, billingFaults>>

\* Mutant: rows that have no customer yet match as well.
UpdateByCustomerOrNone(h) ==
  /\ At(h, "missed", "updated")
  /\ PatchRows({u \in User : rows[u].customer \in {handler[h].now.customer, NoOne}}, h)
  /\ Finish(h)
  /\ UNCHANGED <<checkout, stripeVars, answered, redeliveries, billingFaults, orderly>>

\* Fallback path; an event that matches no row is dropped.
UpdateByCustomer(h) ==
  /\ At(h, "missed", "updated")
  /\ PatchRows({u \in User : rows[u].customer = handler[h].now.customer}, h)
  /\ Finish(h)
  /\ UNCHANGED <<checkout, stripeVars, answered, redeliveries, billingFaults, orderly>>

\* Mutant: only the status is written, the plan is left alone.
DeleteStatusOnly(h) ==
  /\ At(h, "received", "deleted")
  /\ rows' = [u \in User |->
       IF rows[u].sub = SubOf(h) THEN [rows[u] EXCEPT !.status = "canceled"] ELSE rows[u]]
  /\ Finish(h)
  /\ UNCHANGED <<checkout, stripeVars, answered, redeliveries, billingFaults, orderly>>

\* handleSubscriptionDeleted.
Delete(h) ==
  /\ At(h, "received", "deleted")
  /\ rows' = [u \in User |->
       IF rows[u].sub = SubOf(h)
         THEN [rows[u] EXCEPT !.plan = "free", !.status = "canceled"]
         ELSE rows[u]]
  /\ Finish(h)
  /\ UNCHANGED <<checkout, stripeVars, answered, redeliveries, billingFaults, orderly>>

\* A database or Stripe call throws: logged, 200, the event is lost.
Lose(h) ==
  /\ handler[h].pc # "idle"
  /\ billingFaults < MaxFaults
  /\ billingFaults' = billingFaults + 1
  /\ orderly' = FALSE
  /\ Finish(h)
  /\ UNCHANGED <<billedVars, stripeVars, answered, redeliveries>>

-----------------------------------------------------------------------------
HandleEvent(h) ==
  Retrieve(h) \/ RecordCheckout(h) \/ UpdateBySub(h) \/ UpdateByCustomer(h) \/ Delete(h)

BillingNext ==
  \/ \E s \in Sub :
       \/ \E u \in User : StartCheckout(s, u)
       \/ \E c \in Customer : CreateCustomer(s, c) \/ Attach(s, c)
       \/ StampCustomer(s) \/ Pay(s) \/ Cancel(s)
       \/ \E to \in Outcome : Change(s, to)
  \/ \E h \in Handler :
       \/ \E i \in 1 .. Len(sent) : Deliver(h, i)
       \/ HandleEvent(h)
       \/ Lose(h)

BillingSpec == BillingInit /\ [][BillingNext]_billingVars

\* Stripe delivers every event, and a handler that runs comes to its end.
BillingFairness ==
  /\ WF_billingVars(\E h \in Handler, i \in (1 .. Len(sent)) \ answered : Deliver(h, i))
  /\ \A h \in Handler : WF_billingVars(HandleEvent(h))

FairBillingSpec == BillingSpec /\ BillingFairness

-----------------------------------------------------------------------------
(* Correctness.                                                            *)

\* The user whom Stripe bills for a subscription.
Payer(s) == IF stripe[s].customer = NoOne THEN NoOne ELSE owner[stripe[s].customer]

(***************************************************************************)
(* Whatever the order, the repetition or the loss of events, and however   *)
(* they fall between the steps of checkouts: a row only ever carries its   *)
(* own user's customer and a subscription its own user pays for, and no    *)
(* user is Premium without one.                                            *)
(***************************************************************************)
RowsDoNotMix ==
  \A u \in User :
    /\ rows[u].customer # NoOne => owner[rows[u].customer] = u
    /\ rows[u].sub # NoOne => Payer(rows[u].sub) = u
    /\ rows[u].plan = "premium" => rows[u].sub # NoOne

Quiet ==
  /\ answered = 1 .. Len(sent)
  /\ \A h \in Handler : handler[h].pc = "idle"

(***************************************************************************)
(* If Stripe delivers in order and no handler fails, then once nothing is  *)
(* left to deliver a user of one subscription, bought here, is Premium     *)
(* exactly when it is active, although handleCheckoutCompleted reads a     *)
(* newer state than its event's.                                           *)
(***************************************************************************)
PlanFollowsStripe ==
  orderly /\ Quiet => \A s \in Sub, u \in User :
    /\ {t \in Sub : Payer(t) = u} = {s}
    /\ stripe[s].sold
    => (rows[u].plan = "premium" <=> stripe[s].status \in Active)

(***************************************************************************)
(* subscription.service.ts:243-255: an update that overtakes the checkout  *)
(* event is no harm.  A user who pays becomes Premium, in any order of     *)
(* the events of a subscription that stays active.                         *)
(***************************************************************************)
PayingUserBecomesPremium ==
  \A s \in Sub, u \in User :
    (checkout[s].step = "paid" /\ checkout[s].user = u) ~> (rows[u].plan = "premium")

-----------------------------------------------------------------------------
(* What the repository says of the program and the code does not do.       *)

(***************************************************************************)
(* subscription.service.ts:447-448 "an unrecognised price never silently   *)
(* confers Premium".                                                       *)
(***************************************************************************)
UnknownPriceIsNotPremium ==
  \A u \in User : rows[u].plan = "premium" => rows[u].sold

(***************************************************************************)
(* stripe-webhook.controller.ts:26 "All event handlers are idempotent": a  *)
(* second delivery of an event of a subscription that is canceled by now   *)
(* makes nobody Premium.                                                   *)
(***************************************************************************)
RedeliveryIsHarmless ==
  [][\A h \in Handler, u \in User :
       /\ handler[h].again /\ handler'[h].pc = "idle"
       /\ stripe[SubOf(h)].status = "canceled"
       /\ rows[u].plan = "free"
       => rows'[u].plan = "free"]_billingVars

=============================================================================
