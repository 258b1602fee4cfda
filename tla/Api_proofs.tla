------------------------------ MODULE Api_proofs ------------------------------
(* Theorems about the money and the limits of the API, for every value of   *)
(* the constants: billing, the monthly quotas, the numbers of a resume's     *)
(* versions, the daily budget of the AI fill, the rate limits and exports.   *)
EXTENDS MCApi, Pages_proofs, FiniteSetTheorems, SequenceTheorems, WellFoundedInduction, TLAPS

-------------------------------------------------------------------------------
(* Billing: Stripe's subscriptions and the table that follows them.          *)

(***************************************************************************)
(* The inductive invariant.  Customers are created for the user of the     *)
(* checkout and keep their owner; a subscription keeps its customer; what  *)
(* an event or a handler carries is the customer of its subscription, and  *)
(* a completed checkout stands behind every event that says so.            *)
(***************************************************************************)
CheckoutsAreOwned ==
  \A s \in Sub :
    /\ checkout[s].step # "none" => checkout[s].user \in User
    /\ checkout[s].step \in {"stamp", "open", "paid"} =>
         /\ checkout[s].customer \in Customer
         /\ owner[checkout[s].customer] = checkout[s].user
    /\ checkout[s].step \in {"create", "stamp", "open"} => stripe[s] = NoSub
    /\ checkout[s].step = "paid" => stripe[s].customer = checkout[s].customer
    /\ stripe[s] = NoSub \/ stripe[s].customer \in Customer

EventsAreTrue ==
  \A i \in 1 .. Len(sent) :
    /\ stripe[sent[i].sub].customer \in Customer
    /\ sent[i].now.customer = stripe[sent[i].sub].customer
    /\ sent[i].type = "completed" => checkout[sent[i].sub].step = "paid"

HandlersAreTrue ==
  \A h \in Handler :
    /\ handler[h].pc # "idle" =>
         /\ handler[h].event \in 1 .. Len(sent)
         /\ handler[h].now.customer = stripe[SubOf(h)].customer
    /\ handler[h].pc = "missed" => handler[h].now.status \in Listed

BillingInv ==
  BillingTypeOK /\ CheckoutsAreOwned /\ EventsAreTrue /\ HandlersAreTrue /\ RowsDoNotMix

\* At the start there is nothing that could mix.
LEMMA BillingInitInv == BillingInit => BillingInv
<1> SUFFICES ASSUME BillingInit PROVE BillingInv
  OBVIOUS
<1> USE BillingAssumption
    DEF BillingInit, SubscriptionRow, Session, StripeSub, StripeEvent, NoSub, IdleHandler, Pc,
        StripeStatus, Listed
<1>1. BillingTypeOK
  <2>1. rows \in [User -> SubscriptionRow] /\ checkout \in [Sub -> Session]
    OBVIOUS
  <2>2. NoSub \in StripeSub
    OBVIOUS
  <2>3. sent \in Seq(StripeEvent) /\ Len(sent) = 0
    OBVIOUS
  <2>4. IdleHandler \in [event : 0 .. Len(sent), pc : Pc, again : BOOLEAN, now : StripeSub]
    BY <2>2, <2>3
  <2>5. QED
    BY <2>1, <2>2, <2>3, <2>4 DEF BillingTypeOK
<1>2. CheckoutsAreOwned
  BY DEF CheckoutsAreOwned
<1>3. EventsAreTrue
  <2>1. Len(sent) = 0
    OBVIOUS
  <2>2. QED
    BY <2>1 DEF EventsAreTrue
<1>4. HandlersAreTrue
  BY DEF HandlersAreTrue
<1>5. RowsDoNotMix
  BY DEF RowsDoNotMix
<1>6. QED
  BY <1>1, <1>2, <1>3, <1>4, <1>5 DEF BillingInv

(***************************************************************************)
(* Sending an event appends it, and leaves the earlier ones as they are.   *)
(***************************************************************************)
LEMMA SendAppends ==
  ASSUME BillingTypeOK, NEW type \in {"completed", "updated", "deleted"}, NEW s \in Sub,
         stripe'[s] \in StripeSub, Send(type, s)
  PROVE  /\ sent' \in Seq(StripeEvent) /\ Len(sent') = Len(sent) + 1 /\ Len(sent') <= MaxEvents
         /\ Len(sent) \in Nat
         /\ \A i \in 1 .. Len(sent) : sent'[i] = sent[i]
         /\ sent'[Len(sent) + 1] = [type |-> type, sub |-> s, now |-> stripe'[s]]
<1> DEFINE e == [type |-> type, sub |-> s, now |-> stripe'[s]]
<1>1. e \in StripeEvent
  BY DEF StripeEvent
<1>2. sent \in Seq(StripeEvent) /\ sent' = Append(sent, e) /\ Len(sent) < MaxEvents
  BY DEF Send, BillingTypeOK
<1> HIDE DEF e
<1>3. Len(sent) \in Nat /\ Len(sent') = Len(sent) + 1 /\ sent' \in Seq(StripeEvent)
  BY <1>1, <1>2
<1>4. /\ \A i \in 1 .. Len(sent) : sent'[i] = sent[i]
      /\ sent'[Len(sent) + 1] = e
  BY <1>1, <1>2
<1>5. QED
  BY <1>2, <1>3, <1>4, BillingAssumption DEF e

(***************************************************************************)
(* What no step takes back: the owner of a customer, the customer of a      *)
(* subscription, a payment, an event.                                      *)
(***************************************************************************)
Kept ==
  /\ owner' \in [Customer -> User \cup {NoOne}]
  /\ \A c \in Customer : owner[c] # NoOne => owner'[c] = owner[c]
  /\ stripe' \in [Sub -> StripeSub]
  /\ \A s \in Sub : stripe[s].customer \in Customer => stripe'[s].customer = stripe[s].customer
  /\ \A s \in Sub : checkout[s].step = "paid" => checkout'[s] = checkout[s]

SentGrows ==
  /\ sent' \in Seq(StripeEvent) /\ Len(sent') <= MaxEvents
  /\ Len(sent) \in Nat /\ Len(sent') \in Nat /\ Len(sent) <= Len(sent')
  /\ \A i \in 1 .. Len(sent) : sent'[i] = sent[i]
  /\ \A i \in 1 .. Len(sent') : i \notin 1 .. Len(sent) =>
       /\ stripe'[sent'[i].sub].customer \in Customer
       /\ sent'[i].now.customer = stripe'[sent'[i].sub].customer
       /\ sent'[i].type = "completed" => checkout'[sent'[i].sub].step = "paid"

\* A step that sends nothing keeps the events as they are.
LEMMA SentUnchanged == BillingTypeOK /\ UNCHANGED sent => SentGrows
<1> SUFFICES ASSUME BillingTypeOK, UNCHANGED sent PROVE SentGrows
  OBVIOUS
<1>1. sent \in Seq(StripeEvent) /\ Len(sent) <= MaxEvents /\ Len(sent) \in Nat
  BY DEF BillingTypeOK
<1>2. QED
  BY <1>1 DEF SentGrows

\* Stripe appends one event, which is true of the subscription it names.
LEMMA SentOneMore ==
  ASSUME BillingTypeOK, NEW type \in {"completed", "updated", "deleted"}, NEW s \in Sub,
         stripe'[s] \in StripeSub, stripe'[s].customer \in Customer, Send(type, s),
         type = "completed" => checkout'[s].step = "paid"
  PROVE  SentGrows
<1>1. /\ sent' \in Seq(StripeEvent) /\ Len(sent') = Len(sent) + 1 /\ Len(sent') <= MaxEvents
      /\ Len(sent) \in Nat
      /\ \A i \in 1 .. Len(sent) : sent'[i] = sent[i]
      /\ sent'[Len(sent) + 1] = [type |-> type, sub |-> s, now |-> stripe'[s]]
  BY SendAppends
<1>2. ASSUME NEW i \in 1 .. Len(sent'), i \notin 1 .. Len(sent) PROVE i = Len(sent) + 1
  BY <1>1, <1>2
<1>3. QED
  BY <1>1, <1>2 DEF SentGrows

(***************************************************************************)
(* The steps of a checkout and of Stripe.                                  *)
(***************************************************************************)
LEMMA StripeSideKeeps ==
  ASSUME BillingInv, NEW s \in Sub,
         \/ \E u \in User : StartCheckout(s, u)
         \/ \E c \in Customer : CreateCustomer(s, c) \/ Attach(s, c)
         \/ StampCustomer(s) \/ Pay(s) \/ Cancel(s)
         \/ \E to \in Outcome : Change(s, to)
  PROVE  /\ Kept /\ SentGrows /\ CheckoutsAreOwned'
         /\ checkout' \in [Sub -> Session]
         /\ UNCHANGED deliveryVars
<1> USE BillingAssumption
<1> USE DEF BillingInv
<1>1. /\ checkout \in [Sub -> Session] /\ owner \in [Customer -> User \cup {NoOne}]
      /\ stripe \in [Sub -> StripeSub] /\ rows \in [User -> SubscriptionRow]
  BY DEF BillingTypeOK
<1>2. ASSUME NEW u \in User, StartCheckout(s, u)
      PROVE  /\ Kept /\ SentGrows /\ CheckoutsAreOwned' /\ checkout' \in [Sub -> Session]
             /\ UNCHANGED deliveryVars
  <2> DEFINE new == [user |-> u, customer |-> rows[u].customer,
                     step |-> IF rows[u].customer = NoOne THEN "create" ELSE "open"]
  <2>1. UNCHANGED <<rows, owner, stripe, sent, deliveryVars>> /\ stripe[s] = NoSub
        /\ checkout[s].step = "none" /\ checkout' = [checkout EXCEPT ![s] = new]
    BY <1>2 DEF StartCheckout, stripeVars
  <2>2. rows[u].customer \in Customer \cup {NoOne}
    BY <1>1 DEF SubscriptionRow
  <2>3. new \in Session
    BY <2>2 DEF Session
  <2>4. new.customer # NoOne => owner[new.customer] = u
    BY DEF RowsDoNotMix
  <2> HIDE DEF new
  <2>5. checkout' \in [Sub -> Session] /\ checkout'[s] = new
        /\ \A t \in Sub \ {s} : checkout'[t] = checkout[t]
    BY <1>1, <2>1, <2>3
  <2>6. Kept /\ SentGrows
    BY <1>1, <2>1, <2>5, SentUnchanged DEF Kept
  <2>7. new.user = u /\ new.step \in {"create", "open"} /\ new.customer \in Customer \cup {NoOne}
        /\ (new.step = "open" => new.customer # NoOne)
    BY <2>2 DEF new
  <2>8. CheckoutsAreOwned'
    BY <2>1, <2>4, <2>5, <2>7 DEF CheckoutsAreOwned
  <2>9. QED
    BY <2>1, <2>5, <2>6, <2>8
<1>3. ASSUME NEW c \in Customer, CreateCustomer(s, c)
      PROVE  /\ Kept /\ SentGrows /\ CheckoutsAreOwned' /\ checkout' \in [Sub -> Session]
             /\ UNCHANGED deliveryVars
  <2>1. UNCHANGED <<rows, stripe, sent, deliveryVars>> /\ owner[c] = NoOne
        /\ checkout[s].step = "create" /\ checkout[s].user \in User
    BY <1>3 DEF CreateCustomer, CheckoutsAreOwned
  <2>2. /\ owner' \in [Customer -> User \cup {NoOne}] /\ owner'[c] = checkout[s].user
        /\ \A d \in Customer \ {c} : owner'[d] = owner[d]
    BY <1>1, <1>3, <2>1 DEF CreateCustomer
  <2>3. /\ checkout' \in [Sub -> Session] /\ checkout'[s].step = "stamp"
        /\ checkout'[s].customer = c /\ checkout'[s].user = checkout[s].user
        /\ \A t \in Sub \ {s} : checkout'[t] = checkout[t]
    BY <1>1, <1>3 DEF CreateCustomer, Session
  <2>4. Kept /\ SentGrows
    BY <1>1, <2>1, <2>2, <2>3, SentUnchanged DEF Kept
  <2>5. CheckoutsAreOwned'
    BY <2>1, <2>2, <2>3 DEF CheckoutsAreOwned
  <2>6. QED
    BY <2>1, <2>3, <2>4, <2>5
<1>4. ASSUME StampCustomer(s)
      PROVE  /\ Kept /\ SentGrows /\ CheckoutsAreOwned' /\ checkout' \in [Sub -> Session]
             /\ UNCHANGED deliveryVars
  <2>1. UNCHANGED <<owner, stripe, sent, deliveryVars>> /\ checkout[s].step = "stamp"
    BY <1>4 DEF StampCustomer, stripeVars
  <2>2. /\ checkout' \in [Sub -> Session] /\ checkout'[s].step = "open"
        /\ checkout'[s].customer = checkout[s].customer /\ checkout'[s].user = checkout[s].user
        /\ \A t \in Sub \ {s} : checkout'[t] = checkout[t]
    BY <1>1, <1>4 DEF StampCustomer, Session
  <2>3. Kept /\ SentGrows
    BY <1>1, <2>1, <2>2, SentUnchanged DEF Kept
  <2>4. CheckoutsAreOwned'
    BY <2>1, <2>2 DEF CheckoutsAreOwned
  <2>5. QED
    BY <2>1, <2>2, <2>3, <2>4
<1>5. ASSUME Pay(s)
      PROVE  /\ Kept /\ SentGrows /\ CheckoutsAreOwned' /\ checkout' \in [Sub -> Session]
             /\ UNCHANGED deliveryVars
  <2> DEFINE now == [status |-> "active", sold |-> TRUE, customer |-> checkout[s].customer]
  <2>1. /\ UNCHANGED <<rows, owner, deliveryVars>> /\ checkout[s].step = "open"
        /\ Send("completed", s) /\ stripe' = [stripe EXCEPT ![s] = now]
        /\ stripe[s] = NoSub /\ checkout[s].customer \in Customer
    BY <1>5 DEF Pay, CheckoutsAreOwned
  <2>2. now \in StripeSub /\ now.customer = checkout[s].customer
    BY <2>1 DEF StripeSub, StripeStatus, Listed
  <2> HIDE DEF now
  <2>3. /\ checkout' \in [Sub -> Session] /\ checkout'[s].step = "paid"
        /\ checkout'[s].customer = checkout[s].customer /\ checkout'[s].user = checkout[s].user
        /\ \A t \in Sub \ {s} : checkout'[t] = checkout[t]
    BY <1>1, <1>5 DEF Pay, Session
  <2>4. /\ stripe' \in [Sub -> StripeSub] /\ stripe'[s] = now
        /\ \A t \in Sub \ {s} : stripe'[t] = stripe[t]
    BY <1>1, <2>1, <2>2
  <2>5. NoOne \notin Customer /\ stripe[s].customer = NoOne
    BY <2>1 DEF NoSub
  <2>6. Kept
    BY <1>1, <2>1, <2>3, <2>4, <2>5 DEF Kept
  <2>7. SentGrows
    BY <2>1, <2>2, <2>3, <2>4, SentOneMore
  <2>8. CheckoutsAreOwned'
    BY <2>1, <2>2, <2>3, <2>4 DEF CheckoutsAreOwned
  <2>9. QED
    BY <2>1, <2>3, <2>6, <2>7, <2>8
<1>6. ASSUME NEW c \in Customer, Attach(s, c)
      PROVE  /\ Kept /\ SentGrows /\ CheckoutsAreOwned' /\ checkout' \in [Sub -> Session]
             /\ UNCHANGED deliveryVars
  <2> DEFINE now == [status |-> "active", sold |-> FALSE, customer |-> c]
  <2>1. /\ UNCHANGED <<rows, checkout, owner, sent, deliveryVars>> /\ checkout[s].step = "none"
        /\ stripe[s] = NoSub /\ stripe' = [stripe EXCEPT ![s] = now]
    BY <1>6 DEF Attach, billedVars
  <2>2. now \in StripeSub /\ now.customer = c
    BY DEF StripeSub, StripeStatus, Listed
  <2> HIDE DEF now
  <2>3. /\ stripe' \in [Sub -> StripeSub] /\ stripe'[s] = now
        /\ \A t \in Sub \ {s} : stripe'[t] = stripe[t]
    BY <1>1, <2>1, <2>2
  <2>4. NoOne \notin Customer /\ stripe[s].customer = NoOne
    BY <2>1 DEF NoSub
  <2>5. Kept /\ SentGrows
    BY <1>1, <2>1, <2>3, <2>4, SentUnchanged DEF Kept
  <2>6. CheckoutsAreOwned'
    BY <2>1, <2>2, <2>3 DEF CheckoutsAreOwned
  <2>7. QED
    BY <1>1, <2>1, <2>5, <2>6
<1>7. ASSUME Cancel(s) \/ \E to \in Outcome : Change(s, to)
      PROVE  /\ Kept /\ SentGrows /\ CheckoutsAreOwned' /\ checkout' \in [Sub -> Session]
             /\ UNCHANGED deliveryVars
  <2>1. PICK type \in {"updated", "deleted"}, to \in StripeStatus :
          /\ stripe' = [stripe EXCEPT ![s].status = to] /\ Send(type, s)
    BY <1>7 DEF Cancel, Change, StripeStatus, Listed
  <2>2. UNCHANGED <<rows, checkout, owner, deliveryVars>> /\ stripe[s] # NoSub
    BY <1>7 DEF Cancel, Change, billedVars, NoSub
  <2>3. stripe[s].customer \in Customer /\ checkout[s].step \notin {"create", "stamp", "open"}
    BY <2>2 DEF CheckoutsAreOwned
  <2>4. /\ stripe' \in [Sub -> StripeSub] /\ stripe'[s].customer = stripe[s].customer
        /\ \A t \in Sub \ {s} : stripe'[t] = stripe[t]
    BY <1>1, <2>1 DEF StripeSub
  <2>5. Kept
    BY <1>1, <2>2, <2>4 DEF Kept
  <2>6. stripe'[s] \in StripeSub /\ type # "completed"
    BY <2>4
  <2>7. SentGrows
    BY <2>1, <2>3, <2>4, <2>6, SentOneMore
  <2>8. CheckoutsAreOwned'
    BY <2>2, <2>3, <2>4 DEF CheckoutsAreOwned
  <2>9. QED
    BY <1>1, <2>2, <2>5, <2>7, <2>8
<1>8. QED
  BY <1>2, <1>3, <1>4, <1>5, <1>6, <1>7

(***************************************************************************)
(* The steps of the webhook leave checkouts and Stripe alone.           *)
(***************************************************************************)
WebhookStep(h) ==
  (\E i \in 1 .. Len(sent) : Deliver(h, i)) \/ HandleEvent(h) \/ Lose(h)

\* A webhook request changes nothing at Stripe and no checkout.
LEMMA WebhookKeeps ==
  ASSUME BillingInv, NEW h \in Handler, WebhookStep(h)
  PROVE  /\ UNCHANGED <<checkout, owner, stripe, sent>>
         /\ Kept /\ SentGrows /\ CheckoutsAreOwned' /\ checkout' \in [Sub -> Session]
<1>1. UNCHANGED <<checkout, owner, stripe, sent>>
  BY DEF WebhookStep, Deliver, HandleEvent, Retrieve, RecordCheckout, UpdateBySub, UpdateByCustomer,
         Delete, Lose, billedVars, stripeVars
<1>2. Kept
  BY <1>1 DEF Kept, BillingInv, BillingTypeOK
<1>3. SentGrows
  BY <1>1, SentUnchanged DEF BillingInv
<1>4. CheckoutsAreOwned' /\ checkout' \in [Sub -> Session]
  BY <1>1 DEF CheckoutsAreOwned, BillingInv, BillingTypeOK
<1>5. QED
  BY <1>1, <1>2, <1>3, <1>4

(***************************************************************************)
(* Events stay true, and so does what a handler took from one.             *)
(***************************************************************************)
LEMMA EventsStayTrue ==
  BillingInv /\ Kept /\ SentGrows => EventsAreTrue'
<1> SUFFICES ASSUME BillingInv, Kept, SentGrows, NEW i \in 1 .. Len(sent')
             PROVE  /\ stripe'[sent'[i].sub].customer \in Customer
                    /\ sent'[i].now.customer = stripe'[sent'[i].sub].customer
                    /\ sent'[i].type = "completed" => checkout'[sent'[i].sub].step = "paid"
  BY DEF EventsAreTrue
<1>1. CASE i \in 1 .. Len(sent)
  <2>1. sent'[i] = sent[i]
    BY <1>1 DEF SentGrows
  <2>2. sent[i] \in StripeEvent
    BY <1>1 DEF BillingInv, BillingTypeOK
  <2>3. sent[i].sub \in Sub
    BY <2>2 DEF StripeEvent
  <2>4. QED
    BY <1>1, <2>1, <2>3 DEF Kept, BillingInv, EventsAreTrue
<1>2. CASE i \notin 1 .. Len(sent)
  BY <1>2 DEF SentGrows
<1>3. QED
  BY <1>1, <1>2

\* What a handler that runs has in hand.
LEMMA InHand ==
  ASSUME BillingInv, NEW h \in Handler, handler[h].pc # "idle"
  PROVE  /\ handler[h].event \in 1 .. Len(sent) /\ SubOf(h) \in Sub
         /\ stripe[SubOf(h)].customer \in Customer
         /\ handler[h].now.customer = stripe[SubOf(h)].customer
         /\ handler[h].now \in StripeSub
         /\ sent[handler[h].event].type = "completed" => checkout[SubOf(h)].step = "paid"
<1>1. handler[h].event \in 1 .. Len(sent) /\ handler[h].now.customer = stripe[SubOf(h)].customer
  BY DEF BillingInv, HandlersAreTrue
<1>2. sent[handler[h].event] \in StripeEvent /\ handler[h].now \in StripeSub
  BY <1>1 DEF BillingInv, BillingTypeOK
<1>3. QED
  BY <1>1, <1>2 DEF SubOf, StripeEvent, BillingInv, EventsAreTrue

(***************************************************************************)
(* The handlers, and the other counters of the delivery.                   *)
(***************************************************************************)
HandlerRecord == [event : 0 .. Len(sent), pc : Pc, again : BOOLEAN, now : StripeSub]

DeliveryTypeOK ==
  /\ answered \subseteq 1 .. Len(sent)
  /\ handler \in [Handler -> HandlerRecord]
  /\ redeliveries \in 0 .. MaxRedeliveries
  /\ billingFaults \in 0 .. MaxFaults
  /\ orderly \in BOOLEAN

\* What Stripe and checkouts do leaves every handler with a true event in hand.
LEMMA StripeSideDelivers ==
  BillingInv /\ Kept /\ SentGrows /\ UNCHANGED deliveryVars => DeliveryTypeOK' /\ HandlersAreTrue'
<1> SUFFICES ASSUME BillingInv, Kept, SentGrows, UNCHANGED deliveryVars
             PROVE  DeliveryTypeOK' /\ HandlersAreTrue'
  OBVIOUS
<1>1. /\ Len(sent) \in Nat /\ Len(sent') \in Nat /\ Len(sent) <= Len(sent')
      /\ answered' = answered /\ handler' = handler
  BY DEF SentGrows, deliveryVars
<1>2. answered \subseteq 1 .. Len(sent) /\ handler \in [Handler -> HandlerRecord]
  BY DEF BillingInv, BillingTypeOK, HandlerRecord
<1>3. 1 .. Len(sent) \subseteq 1 .. Len(sent') /\ 0 .. Len(sent) \subseteq 0 .. Len(sent')
  BY <1>1
<1>4. answered' \subseteq 1 .. Len(sent') /\ handler' \in [Handler -> HandlerRecord']
  BY <1>1, <1>2, <1>3 DEF HandlerRecord
<1>5. DeliveryTypeOK'
  BY <1>4 DEF DeliveryTypeOK, BillingInv, BillingTypeOK, deliveryVars
<1>6. ASSUME NEW h \in Handler, handler[h].pc # "idle"
      PROVE  /\ handler[h].event \in 1 .. Len(sent')
             /\ handler[h].now.customer = stripe'[sent'[handler[h].event].sub].customer
  <2>1. /\ handler[h].event \in 1 .. Len(sent) /\ SubOf(h) \in Sub
        /\ stripe[SubOf(h)].customer \in Customer
        /\ handler[h].now.customer = stripe[SubOf(h)].customer
    BY <1>6, InHand
  <2>2. sent'[handler[h].event] = sent[handler[h].event]
    BY <2>1 DEF SentGrows
  <2>3. QED
    BY <1>3, <2>1, <2>2 DEF Kept, SubOf
<1>7. HandlersAreTrue'
  BY <1>1, <1>6 DEF HandlersAreTrue, SubOf, BillingInv
<1>8. QED
  BY <1>5, <1>7

\* A webhook request that goes on still has a true event in hand.
LEMMA WebhookDelivers ==
  ASSUME BillingInv, NEW h \in Handler, WebhookStep(h)
  PROVE  DeliveryTypeOK' /\ HandlersAreTrue'
<1> USE BillingAssumption
<1>1. /\ UNCHANGED <<sent, stripe>> /\ sent \in Seq(StripeEvent) /\ Len(sent) \in Nat
      /\ answered \subseteq 1 .. Len(sent) /\ handler \in [Handler -> HandlerRecord]
      /\ redeliveries \in 0 .. MaxRedeliveries /\ billingFaults \in 0 .. MaxFaults
      /\ orderly \in BOOLEAN
  BY WebhookKeeps DEF BillingInv, BillingTypeOK, HandlerRecord
<1>2. IdleHandler \in HandlerRecord /\ IdleHandler.pc = "idle"
  BY <1>1 DEF IdleHandler, HandlerRecord, NoSub, StripeSub, Pc
<1>3. ASSUME NEW new \in HandlerRecord, handler' = [handler EXCEPT ![h] = new],
             new.pc # "idle" => /\ new.event \in 1 .. Len(sent)
                                /\ new.now.customer = stripe[sent[new.event].sub].customer,
             new.pc = "missed" => new.now.status \in Listed
      PROVE  handler' \in [Handler -> HandlerRecord'] /\ HandlersAreTrue'
  <2>1. /\ handler' \in [Handler -> HandlerRecord] /\ handler'[h] = new
        /\ \A g \in Handler \ {h} : handler'[g] = handler[g]
    BY <1>1, <1>3
  <2>2. HandlerRecord' = HandlerRecord
    BY <1>1 DEF HandlerRecord
  <2>3. HandlersAreTrue'
    BY <1>1, <1>3, <2>1 DEF HandlersAreTrue, SubOf, BillingInv
  <2>4. QED
    BY <2>1, <2>2, <2>3
<1>4. ASSUME Finish(h) PROVE handler' \in [Handler -> HandlerRecord'] /\ HandlersAreTrue'
  BY <1>2, <1>3, <1>4 DEF Finish
<1>5. ASSUME NEW i \in 1 .. Len(sent), Deliver(h, i)
      PROVE  DeliveryTypeOK' /\ HandlersAreTrue'
  <2> DEFINE new == [event |-> i, pc |-> "received", again |-> i \in answered, now |-> sent[i].now]
  <2>1. sent[i].now \in StripeSub /\ sent[i].now.customer = stripe[sent[i].sub].customer
    <3>1. sent[i] \in StripeEvent
      BY <1>1
    <3>2. QED
      BY <3>1 DEF StripeEvent, BillingInv, EventsAreTrue
  <2>2. (i \in answered) \in BOOLEAN
    OBVIOUS
  <2>3. new \in HandlerRecord /\ new.pc = "received" /\ new.event = i /\ new.now = sent[i].now
    BY <1>1, <2>1, <2>2 DEF HandlerRecord, Pc
  <2>4. handler' = [handler EXCEPT ![h] = new]
    BY <1>5 DEF Deliver
  <2> HIDE DEF new
  <2>5. handler' \in [Handler -> HandlerRecord'] /\ HandlersAreTrue'
    BY <1>3, <2>1, <2>3, <2>4
  <2>6. answered' \subseteq 1 .. Len(sent') /\ redeliveries' \in 0 .. MaxRedeliveries
        /\ billingFaults' \in 0 .. MaxFaults
    BY <1>1, <1>5 DEF Deliver
  <2>7. orderly' \in BOOLEAN
    BY <1>5 DEF Deliver
  <2>8. QED
    BY <2>5, <2>6, <2>7 DEF DeliveryTypeOK
<1>6. ASSUME HandleEvent(h) PROVE handler' \in [Handler -> HandlerRecord'] /\ HandlersAreTrue'
  <2>1. handler[h].pc # "idle"
    BY <1>6 DEF HandleEvent, Retrieve, RecordCheckout, UpdateBySub, UpdateByCustomer, Delete, At
  <2>2. handler[h] \in HandlerRecord
    BY <1>1
  <2>3. CASE Retrieve(h)
    <3> DEFINE new == [handler[h] EXCEPT !.pc = "fetched", !.now = stripe[SubOf(h)]]
    <3>1. stripe[SubOf(h)] \in StripeSub
      BY <2>1, InHand DEF BillingInv, BillingTypeOK
    <3>2. /\ new \in HandlerRecord /\ new.pc = "fetched" /\ new.event = handler[h].event
          /\ new.now = stripe[SubOf(h)]
      BY <2>2, <3>1 DEF HandlerRecord, Pc
    <3>3. handler' = [handler EXCEPT ![h] = new]
      BY <2>3 DEF Retrieve
    <3> HIDE DEF new
    <3>4. new.event \in 1 .. Len(sent) /\ new.now.customer = stripe[sent[new.event].sub].customer
      BY <2>1, <3>2, InHand DEF SubOf
    <3>5. QED
      BY <1>3, <3>2, <3>3, <3>4
  <2>4. CASE ToPc(h, "missed") /\ handler[h].now.status \in Listed
    <3> DEFINE new == [handler[h] EXCEPT !.pc = "missed"]
    <3>1. /\ new \in HandlerRecord /\ new.pc = "missed" /\ new.event = handler[h].event
          /\ new.now = handler[h].now
      BY <2>2 DEF HandlerRecord, Pc
    <3>2. handler' = [handler EXCEPT ![h] = new]
      BY <2>4 DEF ToPc
    <3> HIDE DEF new
    <3>3. new.event \in 1 .. Len(sent) /\ new.now.customer = stripe[sent[new.event].sub].customer
      BY <2>1, <3>1, InHand DEF SubOf
    <3>4. QED
      BY <1>3, <2>4, <3>1, <3>2, <3>3
  <2>5. QED
    BY <1>4, <1>6, <2>3, <2>4
       DEF HandleEvent, RecordCheckout, UpdateBySub, UpdateByCustomer, Delete
<1>7. ASSUME HandleEvent(h)
      PROVE  /\ UNCHANGED <<answered, redeliveries, billingFaults>> /\ orderly' \in BOOLEAN
  BY <1>1, <1>7 DEF HandleEvent, Retrieve, RecordCheckout, UpdateBySub, UpdateByCustomer, Delete
<1>8. ASSUME Lose(h)
      PROVE  /\ UNCHANGED <<answered, redeliveries>> /\ orderly' \in BOOLEAN
             /\ billingFaults' \in 0 .. MaxFaults
  <2>1. /\ billingFaults < MaxFaults /\ billingFaults' = billingFaults + 1
        /\ UNCHANGED <<answered, redeliveries>> /\ orderly' = FALSE
    BY <1>8 DEF Lose
  <2>2. billingFaults \in 0 .. MaxFaults /\ MaxFaults \in Nat
    BY <1>1
  <2>3. billingFaults' \in 0 .. MaxFaults
    BY <2>1, <2>2
  <2>4. QED
    BY <2>1, <2>3
<1>9. ASSUME Lose(h) PROVE Finish(h)
  BY <1>9, Zenon DEF Lose
<1>10. QED
  BY <1>1, <1>4, <1>5, <1>6, <1>7, <1>8, <1>9 DEF WebhookStep, DeliveryTypeOK

(***************************************************************************)
(* Rows do not mix: what one row may become.                               *)
(***************************************************************************)
RowIsOwn(u) ==
  /\ rows[u].customer # NoOne => owner[rows[u].customer] = u
  /\ rows[u].sub # NoOne => Payer(rows[u].sub) = u
  /\ rows[u].plan = "premium" => rows[u].sub # NoOne

\* A row that a step leaves alone stays its own: customers keep their owners.
LEMMA SameRowIsOwn ==
  ASSUME BillingInv, Kept, NEW u \in User, rows'[u] = rows[u]
  PROVE  rows'[u] \in SubscriptionRow /\ RowIsOwn(u)'
<1> USE BillingAssumption
<1>1. rows[u] \in SubscriptionRow /\ RowIsOwn(u)
  BY DEF BillingInv, BillingTypeOK, RowsDoNotMix, RowIsOwn
<1>2. rows[u].customer \in Customer \cup {NoOne} /\ rows[u].sub \in Sub \cup {NoOne}
  BY <1>1 DEF SubscriptionRow
<1>3. rows[u].customer # NoOne => owner'[rows[u].customer] = u
  BY <1>1, <1>2 DEF RowIsOwn, Kept
<1>4. ASSUME NEW s \in Sub, Payer(s) = u PROVE Payer(s)' = u
  <2>1. stripe[s].customer \in Customer \cup {NoOne}
    BY DEF BillingInv, BillingTypeOK, StripeSub
  <2>2. stripe[s].customer # NoOne /\ owner[stripe[s].customer] = u
    BY <1>4 DEF Payer
  <2>3. QED
    BY <2>1, <2>2 DEF Kept, Payer
<1>5. QED
  BY <1>1, <1>2, <1>3, <1>4 DEF RowIsOwn

\* A row that has changed, when no owner and no subscription has.
LEMMA NewRowIsOwn ==
  ASSUME UNCHANGED <<owner, stripe>>, NEW u \in User, NEW r, rows'[u] = r,
         r.customer # NoOne => owner[r.customer] = u,
         r.sub # NoOne => Payer(r.sub) = u,
         r.plan = "premium" => r.sub # NoOne
  PROVE  RowIsOwn(u)'
<1>1. \A x : Payer(x)' = Payer(x)
  BY DEF Payer
<1>2. QED
  BY <1>1 DEF RowIsOwn

\* Whatever writes a row writes its own user's customer and subscription into it.
LEMMA RowsStayOwn ==
  ASSUME BillingInv, BillingNext, Kept
  PROVE  rows' \in [User -> SubscriptionRow] /\ RowsDoNotMix'
<1> USE BillingAssumption
<1> DEFINE OwnRows == rows' \in [User -> SubscriptionRow] /\ RowsDoNotMix'
<1>1. ASSUME NEW f \in [User -> SubscriptionRow], rows' = f,
             \A u \in User : RowIsOwn(u)'
      PROVE  OwnRows
  BY <1>1 DEF RowIsOwn, RowsDoNotMix
<1>2. rows \in [User -> SubscriptionRow]
  BY DEF BillingInv, BillingTypeOK
<1>3. ASSUME UNCHANGED rows PROVE OwnRows
  BY <1>1, <1>2, <1>3, SameRowIsOwn
<1>4. ASSUME NEW u \in User, NEW r \in SubscriptionRow, rows' = [rows EXCEPT ![u] = r], RowIsOwn(u)'
      PROVE  OwnRows
  <2>1. /\ rows' \in [User -> SubscriptionRow] /\ \A w \in User \ {u} : rows'[w] = rows[w]
    BY <1>2, <1>4
  <2>2. \A w \in User : RowIsOwn(w)'
    BY <1>4, <2>1, SameRowIsOwn
  <2>3. QED
    BY <1>1, <2>1, <2>2
<1>5. ASSUME NEW s \in Sub, StampCustomer(s) PROVE OwnRows
  <2>1. PICK u \in User : u = checkout[s].user
    BY <1>5 DEF StampCustomer, BillingInv, CheckoutsAreOwned
  <2> DEFINE r == [rows[u] EXCEPT !.customer = checkout[s].customer]
  <2>2. /\ checkout[s].customer \in Customer /\ owner[checkout[s].customer] = u
        /\ rows' = [rows EXCEPT ![u] = r] /\ UNCHANGED <<owner, stripe>>
    BY <1>5, <2>1 DEF StampCustomer, stripeVars, BillingInv, CheckoutsAreOwned
  <2>3. rows[u] \in SubscriptionRow /\ RowIsOwn(u)
    BY <1>2 DEF BillingInv, RowsDoNotMix, RowIsOwn
  <2>4. /\ r \in SubscriptionRow /\ r.customer = checkout[s].customer
        /\ r.sub = rows[u].sub /\ r.plan = rows[u].plan
    BY <2>2, <2>3 DEF SubscriptionRow
  <2> HIDE DEF r
  <2>5. rows'[u] = r
    BY <1>2, <2>2
  <2>6. /\ r.customer # NoOne => owner[r.customer] = u
        /\ r.sub # NoOne => Payer(r.sub) = u
        /\ r.plan = "premium" => r.sub # NoOne
    BY <2>2, <2>3, <2>4 DEF RowIsOwn
  <2>7. RowIsOwn(u)'
    BY <2>2, <2>5, <2>6, NewRowIsOwn
  <2>8. QED
    BY <1>4, <2>2, <2>4, <2>7
<1>6. ASSUME NEW h \in Handler, RecordCheckout(h) PROVE OwnRows
  <2> DEFINE now == handler[h].now
  <2>1. CASE now.status \notin Listed
    BY <1>3, <1>6, <2>1 DEF RecordCheckout
  <2>2. CASE now.status \in Listed
    <3>1. handler[h].pc # "idle" /\ sent[handler[h].event].type = "completed"
      BY <1>6 DEF RecordCheckout, At
    <3>2. PICK s \in Sub : s = SubOf(h)
      BY <3>1, InHand
    <3>3. /\ stripe[s].customer \in Customer /\ now.customer = stripe[s].customer
          /\ now \in StripeSub /\ checkout[s].step = "paid"
      BY <3>1, <3>2, InHand
    <3>4. PICK u \in User : u = checkout[s].user
      BY <3>3 DEF BillingInv, CheckoutsAreOwned
    <3> DEFINE r == [plan |-> IF now.sold THEN "premium" ELSE "free",
                     customer |-> now.customer, sub |-> s,
                     status |-> now.status, sold |-> now.sold]
    <3>5. rows' = [rows EXCEPT ![u] = r] /\ UNCHANGED <<owner, stripe>>
      BY <1>6, <2>2, <3>2, <3>4 DEF RecordCheckout, stripeVars
    <3>6. owner[now.customer] = u /\ Payer(s) = u
      BY <3>3, <3>4 DEF BillingInv, CheckoutsAreOwned, Payer
    <3>7. now.sold \in BOOLEAN /\ now.customer \in Customer
      BY <3>3 DEF StripeSub
    <3>8. r \in SubscriptionRow /\ r.customer = now.customer /\ r.sub = s /\ s # NoOne
      BY <2>2, <3>7 DEF SubscriptionRow
    <3> HIDE DEF r
    <3>9. rows'[u] = r
      BY <1>2, <3>5
    <3>10. /\ r.customer # NoOne => owner[r.customer] = u
           /\ r.sub # NoOne => Payer(r.sub) = u
           /\ r.plan = "premium" => r.sub # NoOne
      BY <3>6, <3>8
    <3>11. RowIsOwn(u)'
      BY <3>5, <3>9, <3>10, NewRowIsOwn
    <3>12. QED
      BY <1>4, <3>5, <3>8, <3>11
  <2>3. QED
    BY <2>1, <2>2
<1>7. ASSUME NEW h \in Handler, NEW matched, PatchRows(matched, h), handler[h].pc # "idle",
             handler[h].now.status \in Listed, UNCHANGED <<owner, stripe>>,
             \A u \in matched : \/ rows[u].sub = SubOf(h)
                                \/ rows[u].customer = handler[h].now.customer
      PROVE  OwnRows
  <2> DEFINE s == SubOf(h)
             now == handler[h].now
  <2>1. /\ s \in Sub /\ stripe[s].customer \in Customer /\ now.customer = stripe[s].customer
        /\ now \in StripeSub /\ s # NoOne
    BY <1>7, InHand
  <2>2. ASSUME NEW u \in User PROVE rows'[u] \in SubscriptionRow /\ RowIsOwn(u)'
    <3>1. CASE u \notin matched
      <4>1. rows'[u] = rows[u]
        BY <1>7, <3>1 DEF PatchRows
      <4>2. QED
        BY <4>1, SameRowIsOwn
    <3>2. CASE u \in matched
      <4> DEFINE r == Patch(rows[u], s, now)
      <4>1. rows'[u] = r
        BY <1>7, <3>2 DEF PatchRows
      <4>2. rows[u] \in SubscriptionRow /\ RowIsOwn(u)
        BY <1>2 DEF BillingInv, RowsDoNotMix, RowIsOwn
      <4>3. now.status \in Listed /\ now.sold \in BOOLEAN
        BY <1>7, <2>1 DEF StripeSub
      <4>4. r \in SubscriptionRow /\ r.customer = rows[u].customer /\ r.sub = s
        BY <2>1, <4>2, <4>3 DEF SubscriptionRow, Patch
      <4>5. Payer(s) = u
        <5>1. CASE rows[u].sub = s
          BY <2>1, <4>2, <5>1 DEF RowIsOwn
        <5>2. CASE rows[u].customer = now.customer
          BY <2>1, <4>2, <5>2 DEF RowIsOwn, Payer
        <5>3. QED
          BY <1>7, <3>2, <5>1, <5>2
      <4> HIDE DEF r, s, now
      <4>6. r.customer # NoOne => owner[r.customer] = u
        BY <4>2, <4>4 DEF RowIsOwn
      <4>7. QED
        <5>1. RowIsOwn(u)'
          BY <1>7, <2>1, <4>1, <4>4, <4>5, <4>6, NewRowIsOwn
        <5>2. QED
          BY <4>1, <4>4, <5>1
    <3>3. QED
      BY <3>1, <3>2
  <2>3. rows' \in [User -> SubscriptionRow]
    <3>1. rows' = [u \in User |-> rows'[u]]
      BY <1>7 DEF PatchRows
    <3>2. QED
      BY <2>2, <3>1
  <2>4. QED
    BY <1>1, <2>2, <2>3
<1>8. ASSUME NEW h \in Handler, UpdateBySub(h) PROVE OwnRows
  <2>1. CASE UNCHANGED rows
    BY <1>3, <2>1
  <2>2. CASE ~UNCHANGED rows
    <3>1. /\ PatchRows({u \in User : rows[u].sub = SubOf(h)}, h) /\ handler[h].now.status \in Listed
          /\ handler[h].pc # "idle" /\ UNCHANGED <<owner, stripe>>
      BY <1>8, <2>2 DEF UpdateBySub, At, stripeVars
    <3>2. QED
      BY <1>7, <3>1
  <2>3. QED
    BY <2>1, <2>2
<1>9. ASSUME NEW h \in Handler, UpdateByCustomer(h) PROVE OwnRows
  <2>1. /\ PatchRows({u \in User : rows[u].customer = handler[h].now.customer}, h)
        /\ handler[h].pc = "missed" /\ UNCHANGED <<owner, stripe>>
    BY <1>9 DEF UpdateByCustomer, At, stripeVars
  <2>2. handler[h].now.status \in Listed
    BY <2>1 DEF BillingInv, HandlersAreTrue
  <2>3. QED
    BY <1>7, <2>1, <2>2
<1>10. ASSUME NEW h \in Handler, Delete(h) PROVE OwnRows
  <2>1. UNCHANGED <<owner, stripe>>
    BY <1>10 DEF Delete, stripeVars
  <2>2. ASSUME NEW u \in User PROVE rows'[u] \in SubscriptionRow /\ RowIsOwn(u)'
    <3>1. CASE rows[u].sub # SubOf(h)
      <4>1. rows'[u] = rows[u]
        BY <1>10, <3>1 DEF Delete
      <4>2. QED
        BY <4>1, SameRowIsOwn
    <3>2. CASE rows[u].sub = SubOf(h)
      <4> DEFINE r == [rows[u] EXCEPT !.plan = "free", !.status = "canceled"]
      <4>1. rows'[u] = r
        BY <1>10, <3>2 DEF Delete
      <4>2. rows[u] \in SubscriptionRow /\ RowIsOwn(u)
        BY <1>2 DEF BillingInv, RowsDoNotMix, RowIsOwn
      <4>3. /\ r \in SubscriptionRow /\ r.customer = rows[u].customer /\ r.sub = rows[u].sub
            /\ r.plan = "free"
        BY <4>2 DEF SubscriptionRow, Listed
      <4> HIDE DEF r
      <4>4. /\ r.customer # NoOne => owner[r.customer] = u
            /\ r.sub # NoOne => Payer(r.sub) = u
            /\ r.plan = "premium" => r.sub # NoOne
        BY <4>2, <4>3 DEF RowIsOwn
      <4>5. RowIsOwn(u)'
        BY <2>1, <4>1, <4>4, NewRowIsOwn
      <4>6. QED
        BY <4>1, <4>3, <4>5
    <3>3. QED
      BY <3>1, <3>2
  <2>3. rows' \in [User -> SubscriptionRow]
    <3>1. rows' = [u \in User |-> rows'[u]]
      BY <1>10 DEF Delete
    <3>2. QED
      BY <2>2, <3>1
  <2>4. QED
    BY <1>1, <2>2, <2>3
<1>11. ASSUME NEW h \in Handler,
              (\E i \in 1 .. Len(sent) : Deliver(h, i)) \/ Retrieve(h) \/ Lose(h)
       PROVE  UNCHANGED rows
  BY <1>11 DEF Deliver, Retrieve, Lose, billedVars
<1>12. ASSUME NEW s \in Sub,
              \/ \E u \in User : StartCheckout(s, u)
              \/ \E c \in Customer : CreateCustomer(s, c) \/ Attach(s, c)
              \/ Pay(s) \/ Cancel(s) \/ \E to \in Outcome : Change(s, to)
       PROVE  UNCHANGED rows
  BY <1>12 DEF StartCheckout, CreateCustomer, Attach, Pay, Cancel, Change, billedVars
<1> HIDE DEF OwnRows
<1>13. OwnRows
  BY <1>3, <1>5, <1>6, <1>8, <1>9, <1>10, <1>11, <1>12 DEF BillingNext, HandleEvent
<1>14. QED
  BY <1>13 DEF OwnRows

(***************************************************************************)
(* The invariant is inductive.                                             *)
(***************************************************************************)
LEMMA BillingInductive == BillingSpec => []BillingInv
<1>1. BillingInv /\ [BillingNext]_billingVars => BillingInv'
  <2> SUFFICES ASSUME BillingInv, [BillingNext]_billingVars PROVE BillingInv'
    OBVIOUS
  <2>1. CASE UNCHANGED billingVars
    <3>1. UNCHANGED <<rows, checkout, owner, stripe, sent, answered, handler, redeliveries,
                      billingFaults, orderly>>
      BY <2>1 DEF billingVars, billedVars, stripeVars, deliveryVars
    <3>2. QED
      BY <3>1 DEF BillingInv, BillingTypeOK, CheckoutsAreOwned, EventsAreTrue, HandlersAreTrue, SubOf,
                  RowsDoNotMix, Payer
  <2>2. CASE BillingNext
    <3>1. /\ Kept /\ SentGrows /\ CheckoutsAreOwned' /\ checkout' \in [Sub -> Session]
          /\ DeliveryTypeOK' /\ HandlersAreTrue'
      <4>1. ASSUME NEW h \in Handler, WebhookStep(h)
            PROVE  /\ Kept /\ SentGrows /\ CheckoutsAreOwned' /\ checkout' \in [Sub -> Session]
                   /\ DeliveryTypeOK' /\ HandlersAreTrue'
        BY <4>1, WebhookKeeps, WebhookDelivers
      <4>2. ASSUME NEW s \in Sub,
                   \/ \E u \in User : StartCheckout(s, u)
                   \/ \E c \in Customer : CreateCustomer(s, c) \/ Attach(s, c)
                   \/ StampCustomer(s) \/ Pay(s) \/ Cancel(s)
                   \/ \E to \in Outcome : Change(s, to)
            PROVE  /\ Kept /\ SentGrows /\ CheckoutsAreOwned' /\ checkout' \in [Sub -> Session]
                   /\ DeliveryTypeOK' /\ HandlersAreTrue'
        BY <4>2, StripeSideKeeps, StripeSideDelivers
      <4>3. QED
        BY <2>2, <4>1, <4>2 DEF BillingNext, WebhookStep
    <3>2. EventsAreTrue'
      BY <3>1, EventsStayTrue
    <3>3. rows' \in [User -> SubscriptionRow] /\ RowsDoNotMix'
      BY <2>2, <3>1, RowsStayOwn
    <3>4. BillingTypeOK'
      BY <3>1, <3>3 DEF BillingTypeOK, DeliveryTypeOK, HandlerRecord, Kept, SentGrows
    <3>5. QED
      BY <3>1, <3>2, <3>3, <3>4 DEF BillingInv
  <2>3. QED
    BY <2>1, <2>2
<1>2. QED
  BY <1>1, BillingInitInv, PTL DEF BillingSpec

(***************************************************************************)
(* Type correctness, and no row that carries what another user pays for.   *)
(***************************************************************************)
THEOREM BillingIsOwn == BillingSpec => [](BillingTypeOK /\ RowsDoNotMix)
<1>1. BillingInv => BillingTypeOK /\ RowsDoNotMix
  BY DEF BillingInv
<1>2. QED
  BY <1>1, BillingInductive, PTL

-----------------------------------------------------------------------------
(* A user of one subscription, bought here, is Premium exactly while it is *)
(* active, if Stripe delivers in order and no handler fails.               *)

\* The first and the last event that Stripe has sent of a subscription.
IsFirst(s, i) == sent[i].sub = s /\ \A j \in 1 .. Len(sent) : sent[j].sub = s => i <= j
IsLast(s, i) == sent[i].sub = s /\ \A j \in 1 .. Len(sent) : sent[j].sub = s => j <= i

(***************************************************************************)
(* What Stripe has sent of a subscription that was bought here: first the  *)
(* completed checkout, once, and last what it is now.                      *)
(***************************************************************************)
StripeTells ==
  /\ \A s \in Sub : stripe[s].sold =>
       /\ checkout[s].step = "paid"
       /\ \E first, last \in 1 .. Len(sent) :
            /\ IsFirst(s, first) /\ IsLast(s, last)
            /\ \A i \in 1 .. Len(sent) :
                 sent[i].sub = s => (sent[i].type = "completed" <=> i = first)
            /\ sent[last].now = stripe[s]
  /\ \A i \in 1 .. Len(sent) :
       /\ sent[i].type = "completed" => sent[i].now.status = "active"
       /\ sent[i].type = "deleted" => sent[i].now.status = "canceled"

InProgress(i) == \E h \in Handler : handler[h].pc # "idle" /\ handler[h].event = i

(***************************************************************************)
(* In an orderly history the events before some point have been answered,  *)
(* and only the last of them may be in progress.                           *)
(***************************************************************************)
AnsweredInOrder ==
  orderly => \E n \in 0 .. Len(sent) :
    /\ answered = 1 .. n
    /\ \A h \in Handler : handler[h].pc # "idle" =>
         handler[h].event = n /\ \A g \in Handler : handler[g].pc # "idle" => g = h

(***************************************************************************)
(* A handler whose event is the last of its subscription knows what the    *)
(* subscription is now, and no row has one whose update has missed.        *)
(***************************************************************************)
HandlersKnow ==
  orderly => \A h \in Handler : handler[h].pc # "idle" =>
    /\ stripe[SubOf(h)].sold /\ IsLast(SubOf(h), handler[h].event) =>
         handler[h].now = stripe[SubOf(h)]
    /\ handler[h].pc = "missed" => \A u \in User : rows[u].sub # SubOf(h)

\* The subscription that was bought here is the user's only one.
OnlySub(s, u) == stripe[s].sold /\ \A t \in Sub : Payer(t) = u <=> t = s

\* The row has the subscription and, after its last event, the plan that goes with it.
RowFollows(s, u, i) ==
  /\ rows[u].sub = s
  /\ IsLast(s, i) => (rows[u].plan = "premium" <=> stripe[s].status \in Active)

(***************************************************************************)
(* Every event that has been handled has left its trace in the row.        *)
(***************************************************************************)
RowsFollow ==
  orderly => \A s \in Sub, u \in User : OnlySub(s, u) =>
    \A i \in answered : sent[i].sub = s /\ ~InProgress(i) => RowFollows(s, u, i)

PlanInv ==
  BillingInv /\ StripeTells /\ AnsweredInOrder /\ HandlersKnow /\ RowsFollow

(***************************************************************************)
(* What a step of Stripe or of a checkout tells: nothing, and then no      *)
(* subscription that was bought here changes; or one event of the          *)
(* subscription that changes, a completed checkout only for a new one.     *)
(***************************************************************************)
TellsNothing ==
  sent' = sent /\ \A t \in Sub : stripe[t].sold \/ stripe'[t].sold => stripe'[t] = stripe[t]

TellsOf(s) ==
  LET e == sent'[Len(sent')]
  IN  /\ Len(sent') = Len(sent) + 1
      /\ e.sub = s /\ e.now = stripe'[s]
      /\ e.type = "completed" => e.now.status = "active"
      /\ e.type = "deleted" => e.now.status = "canceled"
      /\ \A t \in Sub : t # s => stripe'[t] = stripe[t]
      /\ \/ e.type = "completed" /\ stripe[s] = NoSub
         \/ e.type # "completed" /\ stripe'[s].sold = stripe[s].sold

\* The subscription and the plan of a row are the webhook's alone.
PlansKept == \A u \in User : rows'[u].sub = rows[u].sub /\ rows'[u].plan = rows[u].plan

StripeSideStep(s) ==
  \/ \E u \in User : StartCheckout(s, u)
  \/ \E c \in Customer : CreateCustomer(s, c) \/ Attach(s, c)
  \/ StampCustomer(s) \/ Pay(s) \/ Cancel(s)
  \/ \E to \in Outcome : Change(s, to)

\* Every step of Stripe or of a checkout tells what it should.
LEMMA StripeSideTells ==
  ASSUME BillingInv, NEW s \in Sub, StripeSideStep(s)
  PROVE  (TellsNothing \/ TellsOf(s)) /\ PlansKept
<1> USE BillingAssumption
<1>0. /\ BillingTypeOK /\ stripe \in [Sub -> StripeSub] /\ rows \in [User -> SubscriptionRow]
      /\ checkout \in [Sub -> Session]
  BY DEF BillingInv, BillingTypeOK
<1>1. CASE \E u \in User : StartCheckout(s, u)
  BY <1>1 DEF StartCheckout, stripeVars, TellsNothing, PlansKept
<1>2. CASE \E c \in Customer : CreateCustomer(s, c)
  BY <1>2 DEF CreateCustomer, TellsNothing, PlansKept
<1>3. CASE \E c \in Customer : Attach(s, c)
  <2>1. PICK c \in Customer : Attach(s, c)
    BY <1>3
  <2> DEFINE now == [status |-> "active", sold |-> FALSE, customer |-> c]
  <2>2. /\ UNCHANGED <<rows, sent>> /\ stripe[s] = NoSub /\ stripe' = [stripe EXCEPT ![s] = now]
    BY <2>1 DEF Attach, billedVars
  <2>3. ~now.sold /\ ~NoSub.sold
    BY DEF NoSub
  <2> HIDE DEF now
  <2>4. stripe'[s] = now /\ \A t \in Sub : t # s => stripe'[t] = stripe[t]
    BY <1>0, <2>2
  <2>5. QED
    BY <2>2, <2>3, <2>4 DEF TellsNothing, PlansKept
<1>4. CASE StampCustomer(s)
  <2>1. /\ rows' = [rows EXCEPT ![checkout[s].user].customer = checkout[s].customer]
        /\ UNCHANGED <<owner, stripe, sent>>
    BY <1>4 DEF StampCustomer, stripeVars
  <2>2. \A u \in User : rows'[u].sub = rows[u].sub /\ rows'[u].plan = rows[u].plan
    BY <1>0, <2>1 DEF SubscriptionRow
  <2>3. QED
    BY <2>1, <2>2 DEF TellsNothing, PlansKept
<1>5. CASE Pay(s)
  <2> DEFINE now == [status |-> "active", sold |-> TRUE, customer |-> checkout[s].customer]
  <2>1. /\ UNCHANGED rows /\ Send("completed", s) /\ stripe' = [stripe EXCEPT ![s] = now]
        /\ stripe[s] = NoSub /\ checkout[s].customer \in Customer
    BY <1>5 DEF Pay, BillingInv, CheckoutsAreOwned
  <2>2. now \in StripeSub /\ now.status = "active"
    BY <2>1 DEF StripeSub, StripeStatus, Listed
  <2> HIDE DEF now
  <2>3. stripe'[s] = now /\ \A t \in Sub : t # s => stripe'[t] = stripe[t]
    BY <1>0, <2>1
  <2>4. /\ Len(sent') = Len(sent) + 1
        /\ sent'[Len(sent')] = [type |-> "completed", sub |-> s, now |-> stripe'[s]]
    BY <1>0, <2>1, <2>2, <2>3, SendAppends
  <2>5. QED
    BY <2>1, <2>2, <2>3, <2>4 DEF TellsOf, PlansKept
<1>6. CASE Cancel(s)
  <2>1. /\ UNCHANGED rows /\ Send("deleted", s)
        /\ stripe' = [stripe EXCEPT ![s].status = "canceled"]
    BY <1>6 DEF Cancel, billedVars
  <2>2. /\ stripe'[s] \in StripeSub /\ stripe'[s].status = "canceled"
        /\ stripe'[s].sold = stripe[s].sold
        /\ \A t \in Sub : t # s => stripe'[t] = stripe[t]
    BY <1>0, <2>1 DEF StripeSub, StripeStatus, Listed
  <2>3. /\ Len(sent') = Len(sent) + 1
        /\ sent'[Len(sent')] = [type |-> "deleted", sub |-> s, now |-> stripe'[s]]
    BY <1>0, <2>1, <2>2, SendAppends
  <2>4. QED
    BY <2>1, <2>2, <2>3 DEF TellsOf, PlansKept
<1>7. CASE \E to \in Outcome : Change(s, to)
  <2>1. PICK to \in StripeStatus : Change(s, to)
    BY <1>7
  <2>2. UNCHANGED rows /\ Send("updated", s) /\ stripe' = [stripe EXCEPT ![s].status = to]
    BY <2>1 DEF Change, billedVars
  <2>3. /\ stripe'[s] \in StripeSub /\ stripe'[s].sold = stripe[s].sold
        /\ \A t \in Sub : t # s => stripe'[t] = stripe[t]
    BY <1>0, <2>2 DEF StripeSub
  <2>4. /\ Len(sent') = Len(sent) + 1
        /\ sent'[Len(sent')] = [type |-> "updated", sub |-> s, now |-> stripe'[s]]
    BY <1>0, <2>2, <2>3, SendAppends
  <2>5. QED
    BY <2>2, <2>3, <2>4 DEF TellsOf, PlansKept
<1>8. QED
  BY <1>1, <1>2, <1>3, <1>4, <1>5, <1>6, <1>7 DEF StripeSideStep

(***************************************************************************)
(* An event that has been sent keeps its place: it stays the first, and it *)
(* is the last after the step only if it was the last before it, and then  *)
(* its subscription has not changed if it was bought here.                 *)
(***************************************************************************)
LEMMA EventsKeepTheirPlace ==
  ASSUME BillingInv, SentGrows, NEW s \in Sub, TellsNothing \/ TellsOf(s),
         NEW t \in Sub, NEW i \in 1 .. Len(sent)
  PROVE  /\ i \in 1 .. Len(sent') /\ sent'[i] = sent[i]
         /\ IsFirst(t, i) => IsFirst(t, i)'
         /\ IsLast(t, i)' => IsLast(t, i)
         /\ IsLast(t, i)' /\ stripe'[t].sold => stripe'[t] = stripe[t]
<1>1. /\ Len(sent) \in Nat /\ Len(sent') \in Nat /\ Len(sent) <= Len(sent')
      /\ \A j \in 1 .. Len(sent) : sent'[j] = sent[j]
  BY DEF SentGrows
<1>2. i \in 1 .. Len(sent') /\ sent'[i] = sent[i]
  BY <1>1
<1>3. ASSUME IsFirst(t, i)
      PROVE  IsFirst(t, i)'
  <2>1. ASSUME NEW j \in 1 .. Len(sent'), sent'[j].sub = t
        PROVE  i <= j
    <3>1. CASE j \in 1 .. Len(sent)
      BY <1>1, <1>3, <2>1, <3>1 DEF IsFirst
    <3>2. CASE j \notin 1 .. Len(sent)
      BY <1>1, <3>2
    <3>3. QED
      BY <3>1, <3>2
  <2>2. QED
    BY <1>2, <1>3, <2>1 DEF IsFirst
<1>4. ASSUME IsLast(t, i)'
      PROVE  IsLast(t, i)
  <2>1. ASSUME NEW j \in 1 .. Len(sent), sent[j].sub = t
        PROVE  j <= i
    <3>1. j \in 1 .. Len(sent') /\ sent'[j].sub = t
      BY <1>1, <2>1
    <3>2. QED
      BY <1>4, <3>1 DEF IsLast
  <2>2. QED
    BY <1>2, <1>4, <2>1 DEF IsLast
<1>5. ASSUME IsLast(t, i)', stripe'[t].sold
      PROVE  stripe'[t] = stripe[t]
  <2>1. CASE TellsNothing
    BY <1>5, <2>1 DEF TellsNothing
  <2>2. CASE TellsOf(s)
    <3>1. CASE t = s
      <4>1. Len(sent') \in 1 .. Len(sent') /\ sent'[Len(sent')].sub = t /\ Len(sent') > i
        BY <1>1, <2>2, <3>1 DEF TellsOf
      <4>2. QED
        BY <1>1, <1>5, <4>1 DEF IsLast
    <3>2. CASE t # s
      BY <2>2, <3>2 DEF TellsOf
    <3>3. QED
      BY <3>1, <3>2
  <2>3. QED
    BY <2>1, <2>2
<1>6. QED
  BY <1>2, <1>3, <1>4, <1>5

(***************************************************************************)
(* There are no events of a subscription that does not exist.              *)
(***************************************************************************)
LEMMA NoSubNoEvents ==
  ASSUME BillingInv, NEW s \in Sub, stripe[s] = NoSub, NEW i \in 1 .. Len(sent)
  PROVE  sent[i].sub # s
BY BillingAssumption DEF BillingInv, EventsAreTrue, NoSub

(***************************************************************************)
(* Stripe goes on telling.                                                 *)
(***************************************************************************)
LEMMA StripeGoesOnTelling ==
  ASSUME BillingInv, StripeTells, Kept, SentGrows, NEW s \in Sub, TellsNothing \/ TellsOf(s)
  PROVE  StripeTells'
<1>1. /\ Len(sent) \in Nat /\ Len(sent') \in Nat /\ Len(sent) <= Len(sent')
      /\ \A j \in 1 .. Len(sent) : sent'[j] = sent[j]
  BY DEF SentGrows
<1>0. PICK n \in Nat : n = Len(sent')
  BY <1>1
<1>2. ASSUME NEW i \in 1 .. Len(sent'), i \notin 1 .. Len(sent)
      PROVE  TellsOf(s) /\ i = n
  <2>1. TellsOf(s)
    BY <1>1, <1>2 DEF TellsNothing
  <2>2. QED
    BY <1>0, <1>1, <1>2, <2>1 DEF TellsOf
<1>3. ASSUME NEW i \in 1 .. Len(sent')
      PROVE  /\ sent'[i].type = "completed" => sent'[i].now.status = "active"
             /\ sent'[i].type = "deleted" => sent'[i].now.status = "canceled"
  <2>1. CASE i \in 1 .. Len(sent)
    BY <1>1, <2>1 DEF StripeTells
  <2>2. CASE i \notin 1 .. Len(sent)
    BY <1>0, <1>2, <2>2 DEF TellsOf
  <2>3. QED
    BY <2>1, <2>2
<1>4. ASSUME NEW t \in Sub, stripe'[t].sold
      PROVE  /\ checkout'[t].step = "paid"
             /\ \E first, last \in 1 .. Len(sent') :
                  /\ IsFirst(t, first)' /\ IsLast(t, last)'
                  /\ \A i \in 1 .. Len(sent') :
                       sent'[i].sub = t => (sent'[i].type = "completed" <=> i = first)
                  /\ sent'[last].now = stripe'[t]
  <2>1. CASE stripe[t].sold
    <3>1. PICK first \in 1 .. Len(sent), last \in 1 .. Len(sent) :
            /\ IsFirst(t, first) /\ IsLast(t, last)
            /\ \A i \in 1 .. Len(sent) :
                 sent[i].sub = t => (sent[i].type = "completed" <=> i = first)
            /\ sent[last].now = stripe[t]
      BY <2>1 DEF StripeTells
    <3>2. checkout'[t].step = "paid"
      BY <2>1 DEF StripeTells, Kept
    <3>3. first \in 1 .. Len(sent') /\ IsFirst(t, first)'
      BY <3>1, EventsKeepTheirPlace
    <3>4. CASE TellsOf(s) /\ t = s
      <4>1. n \in 1 .. Len(sent') /\ n = Len(sent) + 1 /\ sent'[n].sub = t /\ sent'[n].now = stripe'[t]
        BY <1>0, <1>1, <3>4 DEF TellsOf
      <4>2. IsLast(t, n)'
        BY <1>0, <1>1, <4>1 DEF IsLast
      <4>3. sent'[n].type # "completed" /\ n # first
        <5>1. stripe[s] # NoSub
          BY <2>1, <3>4 DEF NoSub
        <5>2. sent'[n].type # "completed"
          BY <1>0, <3>4, <5>1 DEF TellsOf
        <5>3. QED
          BY <1>1, <3>1, <4>1, <5>2
      <4>4. ASSUME NEW i \in 1 .. Len(sent'), sent'[i].sub = t
            PROVE  sent'[i].type = "completed" <=> i = first
        <5>1. CASE i \in 1 .. Len(sent)
          BY <1>1, <3>1, <4>4, <5>1
        <5>2. CASE i \notin 1 .. Len(sent)
          BY <1>2, <4>3, <5>2
        <5>3. QED
          BY <5>1, <5>2
      <4>5. QED
        BY <3>2, <3>3, <4>1, <4>2, <4>4
    <3>5. CASE ~(TellsOf(s) /\ t = s)
      <4>1. stripe'[t] = stripe[t]
        <5>1. CASE TellsNothing
          BY <2>1, <5>1, Zenon DEF TellsNothing
        <5>2. CASE TellsOf(s)
          BY <1>0, <3>5, <5>2, Zenon DEF TellsOf
        <5>3. QED
          BY <5>1, <5>2
      <4>2. ASSUME NEW i \in 1 .. Len(sent'), sent'[i].sub = t
            PROVE  i \in 1 .. Len(sent)
        BY <1>0, <1>2, <3>5, <4>2 DEF TellsOf
      <4>3. last \in 1 .. Len(sent') /\ IsLast(t, last)'
        <5>1. last \in 1 .. Len(sent') /\ sent'[last].sub = t
          BY <1>1, <3>1 DEF IsLast
        <5>2. ASSUME NEW j \in 1 .. Len(sent'), sent'[j].sub = t
              PROVE  j <= last
          BY <1>1, <3>1, <4>2, <5>2 DEF IsLast
        <5>3. QED
          BY <5>1, <5>2 DEF IsLast
      <4>4. \A i \in 1 .. Len(sent') :
              sent'[i].sub = t => (sent'[i].type = "completed" <=> i = first)
        BY <1>1, <3>1, <4>2
      <4>5. sent'[last].now = stripe'[t]
        BY <1>1, <3>1, <4>1
      <4>6. QED
        BY <3>2, <3>3, <4>3, <4>4, <4>5
    <3>6. QED
      BY <3>4, <3>5
  <2>2. CASE ~stripe[t].sold
    <3>1. TellsOf(s) /\ t = s /\ stripe[s] = NoSub /\ sent'[n].type = "completed"
      <4>1. stripe'[t] # stripe[t]
        BY <1>4, <2>2, Zenon
      <4>2. ~TellsNothing
        BY <1>4, <4>1, Zenon DEF TellsNothing
      <4>3. TellsOf(s) /\ t = s
        BY <1>0, <4>1, <4>2, Zenon DEF TellsOf
      <4>4. stripe'[s].sold # stripe[s].sold
        BY <1>4, <2>2, <4>3, Zenon
      <4>5. QED
        BY <1>0, <4>3, <4>4, Zenon DEF TellsOf
    <3>2. n \in 1 .. Len(sent') /\ n = Len(sent) + 1 /\ sent'[n].sub = t /\ sent'[n].now = stripe'[t]
      BY <1>0, <1>1, <3>1 DEF TellsOf
    <3>3. checkout'[t].step = "paid"
      <4>1. n \notin 1 .. Len(sent)
        BY <1>0, <1>1, <3>2
      <4>2. QED
        BY <3>1, <3>2, <4>1, Zenon DEF SentGrows
    <3>4. ASSUME NEW i \in 1 .. Len(sent'), sent'[i].sub = t
          PROVE  i = n
      <4>1. i \notin 1 .. Len(sent)
        BY <1>1, <3>1, <3>4, NoSubNoEvents
      <4>2. QED
        BY <1>2, <4>1
    <3>5. IsFirst(t, n)' /\ IsLast(t, n)'
      BY <1>0, <1>1, <3>2, <3>4 DEF IsFirst, IsLast
    <3>6. \A i \in 1 .. Len(sent') : sent'[i].sub = t => (sent'[i].type = "completed" <=> i = n)
      BY <3>1, <3>4
    <3>7. QED
      BY <3>2, <3>3, <3>5, <3>6
  <2>3. QED
    BY <2>1, <2>2
<1>5. QED
  BY <1>3, <1>4 DEF StripeTells

(***************************************************************************)
(* A user whose only subscription was bought here before a step of Stripe  *)
(* that leaves it his only one had it as his only one already.             *)
(***************************************************************************)
LEMMA OnlySubBefore ==
  ASSUME BillingInv, StripeTells, Kept, NEW s \in Sub, NEW u \in User, OnlySub(s, u)',
         stripe[s].sold
  PROVE  OnlySub(s, u)
<1> USE BillingAssumption
<1>1. /\ owner \in [Customer -> User \cup {NoOne}] /\ stripe \in [Sub -> StripeSub]
      /\ \A t \in Sub : stripe[t].customer \in Customer \cup {NoOne}
  BY DEF BillingInv, BillingTypeOK, StripeSub
<1>2. ASSUME NEW t \in Sub, Payer(t) \in User
      PROVE  Payer(t)' = Payer(t)
  <2>1. stripe[t].customer \in Customer /\ owner[stripe[t].customer] = Payer(t)
    BY <1>1, <1>2 DEF Payer
  <2>2. stripe'[t].customer = stripe[t].customer /\ owner'[stripe[t].customer] = owner[stripe[t].customer]
    BY <1>2, <2>1 DEF Kept
  <2>3. QED
    BY <1>1, <2>1, <2>2 DEF Payer
<1>3. Payer(s) \in User
  <2>1. /\ checkout[s].step = "paid" /\ checkout[s].user \in User
        /\ checkout[s].customer \in Customer /\ stripe[s].customer = checkout[s].customer
        /\ owner[checkout[s].customer] = checkout[s].user
    BY DEF StripeTells, BillingInv, CheckoutsAreOwned
  <2>2. QED
    BY <2>1 DEF Payer
<1>4. Payer(s) = u
  BY <1>2, <1>3 DEF OnlySub
<1>5. ASSUME NEW t \in Sub, Payer(t) = u
      PROVE  t = s
  BY <1>2, <1>5 DEF OnlySub
<1>6. QED
  BY <1>4, <1>5 DEF OnlySub

(***************************************************************************)
(* What Stripe and checkouts do leaves rows and handlers as they should be.*)
(***************************************************************************)
LEMMA StripeSideFollows ==
  ASSUME PlanInv, NEW s \in Sub, Kept, SentGrows, TellsNothing \/ TellsOf(s), PlansKept,
         UNCHANGED deliveryVars
  PROVE  AnsweredInOrder' /\ HandlersKnow' /\ RowsFollow'
<1>1. /\ Len(sent) \in Nat /\ Len(sent') \in Nat /\ Len(sent) <= Len(sent')
      /\ \A j \in 1 .. Len(sent) : sent'[j] = sent[j]
      /\ answered' = answered /\ handler' = handler /\ orderly' = orderly
      /\ answered \subseteq 1 .. Len(sent)
  BY DEF SentGrows, deliveryVars, PlanInv, BillingInv, BillingTypeOK
<1>2. AnsweredInOrder'
  <2>1. SUFFICES ASSUME orderly
                 PROVE  \E n \in 0 .. Len(sent') :
                          /\ answered = 1 .. n
                          /\ \A h \in Handler : handler[h].pc # "idle" =>
                               /\ handler[h].event = n
                               /\ \A g \in Handler : handler[g].pc # "idle" => g = h
    BY <1>1 DEF AnsweredInOrder
  <2>2. PICK n \in 0 .. Len(sent) :
          /\ answered = 1 .. n
          /\ \A h \in Handler : handler[h].pc # "idle" =>
               /\ handler[h].event = n
               /\ \A g \in Handler : handler[g].pc # "idle" => g = h
    BY <2>1 DEF PlanInv, AnsweredInOrder
  <2>3. n \in 0 .. Len(sent')
    BY <1>1
  <2>4. QED
    BY <2>2, <2>3
<1>3. ASSUME NEW h \in Handler, handler[h].pc # "idle"
      PROVE  /\ handler[h].event \in 1 .. Len(sent) /\ SubOf(h) \in Sub
             /\ SubOf(h)' = SubOf(h) /\ stripe[SubOf(h)] # NoSub
  <2>1. /\ handler[h].event \in 1 .. Len(sent) /\ SubOf(h) \in Sub
        /\ stripe[SubOf(h)].customer \in Customer
    BY <1>3, InHand DEF PlanInv
  <2>2. SubOf(h)' = SubOf(h)
    BY <1>1, <2>1 DEF SubOf
  <2>3. QED
    BY <2>1, <2>2, BillingAssumption DEF NoSub
<1>4. HandlersKnow'
  <2>1. SUFFICES ASSUME orderly, NEW h \in Handler, handler[h].pc # "idle"
                 PROVE  /\ stripe'[SubOf(h)'].sold /\ IsLast(SubOf(h), handler[h].event)' =>
                             handler[h].now = stripe'[SubOf(h)']
                        /\ handler[h].pc = "missed" => \A u \in User : rows'[u].sub # SubOf(h)'
    BY <1>1 DEF HandlersKnow
  <2>2. PICK t \in Sub : t = SubOf(h) /\ t = SubOf(h)' /\ stripe[t] # NoSub
    BY <1>3, <2>1
  <2>3. PICK i \in 1 .. Len(sent) : i = handler[h].event /\ i = handler'[h].event
    BY <1>1, <1>3, <2>1
  <2>4. /\ stripe[t].sold /\ IsLast(t, i) => handler[h].now = stripe[t]
        /\ handler[h].pc = "missed" => \A u \in User : rows[u].sub # t
    BY <2>1, <2>2, <2>3 DEF PlanInv, HandlersKnow
  <2>5. ASSUME stripe'[t].sold, IsLast(t, i)'
        PROVE  handler[h].now = stripe'[t]
    <3>1. IsLast(t, i) /\ stripe'[t] = stripe[t]
      BY <2>5, EventsKeepTheirPlace DEF PlanInv
    <3>2. QED
      BY <2>4, <2>5, <3>1
  <2>6. IsLast(SubOf(h), handler[h].event)' <=> IsLast(t, i)'
    BY <2>2, <2>3 DEF IsLast
  <2>7. \A u \in User : rows'[u].sub = rows[u].sub
    BY DEF PlansKept
  <2>8. QED
    BY <2>2, <2>4, <2>5, <2>6, <2>7
<1>5. RowsFollow'
  <2>1. SUFFICES ASSUME orderly, NEW t \in Sub, NEW u \in User, OnlySub(t, u)',
                        NEW i \in answered, sent'[i].sub = t, ~InProgress(i)'
                 PROVE  RowFollows(t, u, i)'
    BY <1>1 DEF RowsFollow
  <2>2. i \in 1 .. Len(sent) /\ sent[i].sub = t /\ ~InProgress(i)
    BY <1>1, <2>1 DEF InProgress
  <2>3. stripe[t].sold /\ stripe'[t].sold
    <3>1. stripe'[t].sold
      BY <2>1 DEF OnlySub
    <3>2. stripe[t] # NoSub
      BY <2>2, NoSubNoEvents DEF PlanInv
    <3>3. CASE TellsNothing
      <4>1. stripe'[t] = stripe[t]
        BY <3>1, <3>3, Zenon DEF TellsNothing
      <4>2. QED
        BY <3>1, <4>1
    <3>4. CASE TellsOf(s)
      <4>1. stripe'[t].sold = stripe[t].sold
        BY <3>2, <3>4, Zenon DEF TellsOf
      <4>2. QED
        BY <3>1, <4>1, Zenon
    <3>5. QED
      BY <3>3, <3>4
  <2>4. OnlySub(t, u)
    BY <2>1, <2>3, OnlySubBefore DEF PlanInv
  <2>5. RowFollows(t, u, i)
    BY <2>1, <2>2, <2>4 DEF PlanInv, RowsFollow
  <2>6. rows'[u].sub = rows[u].sub /\ rows'[u].plan = rows[u].plan
    BY DEF PlansKept
  <2>7. IsLast(t, i)' => IsLast(t, i) /\ stripe'[t] = stripe[t]
    BY <2>2, <2>3, EventsKeepTheirPlace DEF PlanInv
  <2>8. QED
    BY <2>5, <2>6, <2>7 DEF RowFollows
<1>6. QED
  BY <1>2, <1>4, <1>5

(***************************************************************************)
(* In an orderly history, the row of a user has his only subscription when *)
(* an event that is not the first of it is at work.                        *)
(***************************************************************************)
LEMMA LaterEventsMatch ==
  ASSUME PlanInv, orderly, NEW h \in Handler, handler[h].pc # "idle",
         sent[handler[h].event].type # "completed",
         NEW u \in User, OnlySub(SubOf(h), u)
  PROVE  rows[u].sub = SubOf(h)
<1>1. /\ handler[h].event \in 1 .. Len(sent) /\ SubOf(h) \in Sub
      /\ sent[handler[h].event].sub = SubOf(h) /\ stripe[SubOf(h)].sold
      /\ Len(sent) \in Nat
  BY InHand DEF PlanInv, SubOf, OnlySub, BillingInv, BillingTypeOK
<1>2. PICK first \in 1 .. Len(sent) :
        /\ IsFirst(SubOf(h), first)
        /\ \A i \in 1 .. Len(sent) :
             sent[i].sub = SubOf(h) => (sent[i].type = "completed" <=> i = first)
  BY <1>1 DEF PlanInv, StripeTells
<1>3. first < handler[h].event /\ sent[first].sub = SubOf(h)
  BY <1>1, <1>2 DEF IsFirst
<1>4. PICK n \in 0 .. Len(sent) :
        /\ answered = 1 .. n
        /\ \A g \in Handler : handler[g].pc # "idle" => handler[g].event = n
  BY DEF PlanInv, AnsweredInOrder
<1>5. first \in answered /\ ~InProgress(first)
  BY <1>1, <1>3, <1>4 DEF InProgress
<1>6. QED
  BY <1>1, <1>3, <1>5 DEF PlanInv, RowsFollow, RowFollows

(***************************************************************************)
(* Whoever else's row carries a subscription is no concern of a user's     *)
(* only one, in rows, customers and checkouts alike.                       *)
(***************************************************************************)
LEMMA OthersDoNotMatch ==
  ASSUME BillingInv, NEW h \in Handler, handler[h].pc # "idle", NEW s \in Sub, NEW u \in User,
         OnlySub(s, u), SubOf(h) # s
  PROVE  /\ rows[u].sub # SubOf(h) /\ rows[u].customer # handler[h].now.customer
         /\ checkout[SubOf(h)].step = "paid" => checkout[SubOf(h)].user # u
<1> USE BillingAssumption
<1>1. /\ SubOf(h) \in Sub /\ stripe[SubOf(h)].customer \in Customer
      /\ handler[h].now.customer = stripe[SubOf(h)].customer
  BY InHand
<1>2. Payer(SubOf(h)) # u /\ Payer(SubOf(h)) = owner[stripe[SubOf(h)].customer]
  BY <1>1 DEF OnlySub, Payer
<1>3. rows[u].sub # SubOf(h)
  BY <1>1, <1>2 DEF BillingInv, RowsDoNotMix
<1>4. rows[u].customer # handler[h].now.customer
  BY <1>1, <1>2 DEF BillingInv, RowsDoNotMix
<1>5. checkout[SubOf(h)].step = "paid" => checkout[SubOf(h)].user # u
  BY <1>1, <1>2 DEF BillingInv, CheckoutsAreOwned
<1>6. QED
  BY <1>3, <1>4, <1>5

(***************************************************************************)
(* A handler that comes to its end has put its event into the row of whose *)
(* only subscription it is about, and no one else's.                       *)
(***************************************************************************)
LEMMA FinishFollows ==
  ASSUME PlanInv, orderly, NEW h \in Handler, handler[h].pc # "idle", Finish(h),
         UNCHANGED <<owner, stripe, sent, answered>>, NEW last, last = handler[h].event,
         \A s \in Sub, u \in User : OnlySub(s, u) =>
           IF SubOf(h) = s THEN RowFollows(s, u, last)' ELSE rows'[u] = rows[u]
  PROVE  AnsweredInOrder' /\ HandlersKnow' /\ RowsFollow'
<1>1. PICK n \in 0 .. Len(sent) :
        /\ answered = 1 .. n
        /\ \A g \in Handler : handler[g].pc # "idle" =>
             handler[g].event = n /\ \A k \in Handler : handler[k].pc # "idle" => k = g
  BY DEF PlanInv, AnsweredInOrder
<1>2. handler' = [handler EXCEPT ![h] = IdleHandler] /\ handler \in [Handler -> HandlerRecord]
  BY DEF Finish, PlanInv, BillingInv, BillingTypeOK, HandlerRecord
<1>3. \A g \in Handler : handler'[g].pc = "idle"
  BY <1>1, <1>2 DEF IdleHandler
<1>4. AnsweredInOrder'
  BY <1>1, <1>3 DEF AnsweredInOrder
<1>5. HandlersKnow'
  BY <1>3 DEF HandlersKnow
<1>6. RowsFollow'
  <2>1. SUFFICES ASSUME NEW s \in Sub, NEW u \in User, OnlySub(s, u)',
                        NEW i \in answered, sent[i].sub = s
                 PROVE  RowFollows(s, u, i)'
    BY DEF RowsFollow
  <2>2. OnlySub(s, u)
    BY <2>1 DEF OnlySub, Payer
  <2>3. i \in 1 .. n /\ last = n /\ handler[h].event = n /\ n \in 1 .. Len(sent) /\ Len(sent) \in Nat
        /\ sent[n].sub = SubOf(h)
    BY <1>1, InHand DEF PlanInv, SubOf, BillingInv, BillingTypeOK
  <2>4. CASE SubOf(h) = s
    <3>1. RowFollows(s, u, n)'
      BY <2>2, <2>3, <2>4
    <3>2. CASE i = n
      BY <3>1, <3>2
    <3>3. CASE i # n
      <4>1. ~IsLast(s, i)'
        BY <2>3, <2>4, <3>3 DEF IsLast
      <4>2. rows'[u].sub = s
        BY <3>1 DEF RowFollows
      <4>3. QED
        BY <4>1, <4>2 DEF RowFollows
    <3>4. QED
      BY <3>2, <3>3
  <2>5. CASE SubOf(h) # s
    <3>1. ~InProgress(i)
      BY <1>1, <2>1, <2>3, <2>5 DEF InProgress
    <3>2. RowFollows(s, u, i)
      BY <2>1, <2>2, <3>1 DEF PlanInv, RowsFollow
    <3>3. rows'[u] = rows[u]
      BY <2>2, <2>5
    <3>4. QED
      BY <3>2, <3>3 DEF RowFollows, IsLast
  <2>6. QED
    BY <2>4, <2>5
<1>7. QED
  BY <1>4, <1>5, <1>6

(***************************************************************************)
(* A handler that goes on keeps its event in progress.                     *)
(***************************************************************************)
LEMMA GoingOnFollows ==
  ASSUME PlanInv, orderly, NEW h \in Handler, handler[h].pc # "idle",
         UNCHANGED <<rows, owner, stripe, sent, answered>>,
         NEW new, handler' = [handler EXCEPT ![h] = new],
         new.pc # "idle", new.event = handler[h].event,
         new.now = handler[h].now \/ new.now = stripe[SubOf(h)],
         new.pc = "missed" => \A u \in User : rows[u].sub # SubOf(h)
  PROVE  AnsweredInOrder' /\ HandlersKnow' /\ RowsFollow'
<1>1. PICK n \in 0 .. Len(sent) :
        /\ answered = 1 .. n
        /\ \A g \in Handler : handler[g].pc # "idle" =>
             handler[g].event = n /\ \A k \in Handler : handler[k].pc # "idle" => k = g
  BY DEF PlanInv, AnsweredInOrder
<1>2. handler \in [Handler -> HandlerRecord]
  BY DEF PlanInv, BillingInv, BillingTypeOK, HandlerRecord
<1>3. handler'[h] = new /\ \A g \in Handler : g # h => handler'[g] = handler[g]
  BY <1>2
<1>4. \A g \in Handler : (handler'[g].pc # "idle" <=> g = h)
  BY <1>1, <1>3
<1>5. AnsweredInOrder'
  BY <1>1, <1>3, <1>4 DEF AnsweredInOrder
<1>6. SubOf(h)' = SubOf(h)
  BY <1>3 DEF SubOf
<1>7. HandlersKnow'
  <2>1. SUFFICES /\ stripe[SubOf(h)].sold /\ IsLast(SubOf(h), handler[h].event) =>
                      new.now = stripe[SubOf(h)]
                 /\ new.pc = "missed" => \A u \in User : rows[u].sub # SubOf(h)
    BY <1>3, <1>4, <1>6 DEF HandlersKnow, IsLast
  <2>2. QED
    BY DEF PlanInv, HandlersKnow
<1>8. RowsFollow'
  <2>1. \A i : InProgress(i)' <=> InProgress(i)
    BY <1>1, <1>3, <1>4 DEF InProgress
  <2>2. \A s, u : OnlySub(s, u)' <=> OnlySub(s, u)
    BY DEF OnlySub, Payer
  <2>3. \A s, u, i : RowFollows(s, u, i)' <=> RowFollows(s, u, i)
    BY DEF RowFollows, IsLast
  <2>4. QED
    BY <2>1, <2>2, <2>3 DEF PlanInv, RowsFollow
<1>9. QED
  BY <1>5, <1>7, <1>8

(***************************************************************************)
(* The next event in order starts when no other is in progress.            *)
(***************************************************************************)
LEMMA DeliverFollows ==
  ASSUME PlanInv, NEW h \in Handler, NEW i \in 1 .. Len(sent), Deliver(h, i), orderly'
  PROVE  AnsweredInOrder' /\ HandlersKnow' /\ RowsFollow'
<1> DEFINE new == [event |-> i, pc |-> "received", again |-> i \in answered, now |-> sent[i].now]
<1>1. /\ orderly /\ \A g \in Handler : handler[g].pc = "idle"
      /\ i = Cardinality(answered) + 1 /\ answered' = answered \cup {i}
      /\ handler' = [handler EXCEPT ![h] = new]
      /\ UNCHANGED <<rows, checkout, owner, stripe, sent>>
  BY DEF Deliver, billedVars, stripeVars
<1>2. PICK n \in 0 .. Len(sent) : answered = 1 .. n
  BY <1>1 DEF PlanInv, AnsweredInOrder
<1>3. Len(sent) \in Nat /\ handler \in [Handler -> HandlerRecord] /\ n \in Nat
  BY <1>2 DEF PlanInv, BillingInv, BillingTypeOK, HandlerRecord
<1>4. i = n + 1
  <2>1. Cardinality(1 .. n) = n
    BY <1>3, FS_Interval
  <2>2. QED
    BY <1>1, <1>2, <2>1
<1>5. answered' = 1 .. i /\ i \in 0 .. Len(sent)
  BY <1>1, <1>2, <1>3, <1>4
<1>6. /\ handler'[h] = new /\ new.pc = "received" /\ new.event = i /\ new.now = sent[i].now
      /\ \A g \in Handler : g # h => handler'[g].pc = "idle"
  BY <1>1, <1>3
<1> HIDE DEF new
<1>7. AnsweredInOrder'
  BY <1>1, <1>5, <1>6 DEF AnsweredInOrder
<1>8. HandlersKnow'
  <2>1. SubOf(h)' = sent[i].sub /\ sent[i].sub \in Sub
    <3>1. sent[i] \in StripeEvent
      BY DEF PlanInv, BillingInv, BillingTypeOK
    <3>2. QED
      BY <1>1, <1>6, <3>1 DEF SubOf, StripeEvent
  <2>2. ASSUME stripe[sent[i].sub].sold, IsLast(sent[i].sub, i)
        PROVE  sent[i].now = stripe[sent[i].sub]
    <3>1. PICK last \in 1 .. Len(sent) :
            IsLast(sent[i].sub, last) /\ sent[last].now = stripe[sent[i].sub]
      BY <2>1, <2>2 DEF PlanInv, StripeTells
    <3>2. last = i
      BY <1>3, <2>2, <3>1 DEF IsLast
    <3>3. QED
      BY <3>1, <3>2
  <2>3. QED
    BY <1>1, <1>6, <2>1, <2>2 DEF HandlersKnow, IsLast
<1>9. RowsFollow'
  <2>1. SUFFICES ASSUME NEW s \in Sub, NEW u \in User, OnlySub(s, u)',
                        NEW j \in answered', sent[j].sub = s, ~InProgress(j)'
                 PROVE  RowFollows(s, u, j)'
    BY <1>1 DEF RowsFollow
  <2>2. OnlySub(s, u)
    BY <1>1, <2>1 DEF OnlySub, Payer
  <2>3. j # i
    BY <1>6, <2>1 DEF InProgress
  <2>4. j \in answered /\ ~InProgress(j)
    BY <1>1, <2>1, <2>3 DEF InProgress
  <2>5. RowFollows(s, u, j)
    BY <1>1, <2>1, <2>2, <2>4 DEF PlanInv, RowsFollow
  <2>6. QED
    BY <1>1, <2>5 DEF RowFollows, IsLast
<1>10. QED
  BY <1>7, <1>8, <1>9

(***************************************************************************)
(* Every step of the webhook leaves the rows as Stripe's events say.       *)
(***************************************************************************)
LEMMA WebhookFollows ==
  ASSUME PlanInv, NEW h \in Handler, WebhookStep(h)
  PROVE  AnsweredInOrder' /\ HandlersKnow' /\ RowsFollow'
<1> DEFINE Follows == AnsweredInOrder' /\ HandlersKnow' /\ RowsFollow'
<1>1. ASSUME ~orderly'
      PROVE  Follows
  BY <1>1 DEF AnsweredInOrder, HandlersKnow, RowsFollow
<1>2. ASSUME NEW j \in 1 .. Len(sent), Deliver(h, j)
      PROVE  Follows
  BY <1>1, <1>2, DeliverFollows
<1>3. ASSUME Lose(h)
      PROVE  Follows
  BY <1>1, <1>3 DEF Lose
<1>4. ASSUME HandleEvent(h), orderly'
      PROVE  Follows
  <2>0. /\ orderly /\ handler[h].pc # "idle"
        /\ UNCHANGED <<checkout, owner, stripe, sent, answered>>
    BY <1>4 DEF HandleEvent, Retrieve, RecordCheckout, UpdateBySub, UpdateByCustomer, Delete, At,
                billedVars, stripeVars
  <2> PICK i \in 1 .. Len(sent), s0 \in Sub : i = handler[h].event /\ s0 = SubOf(h)
    BY <2>0, InHand DEF PlanInv
  <2>1. /\ i = handler[h].event /\ s0 = SubOf(h) /\ sent[i].sub = s0
        /\ handler[h].now \in StripeSub /\ rows \in [User -> SubscriptionRow]
        /\ handler \in [Handler -> HandlerRecord]
        /\ sent[i].type = "completed" => checkout[s0].step = "paid"
    BY <2>0, InHand DEF PlanInv, SubOf, BillingInv, BillingTypeOK, HandlerRecord
  <2>2. ASSUME NEW s \in Sub, NEW u \in User, OnlySub(s, u), s0 # s
        PROVE  /\ rows[u].sub # s0 /\ rows[u].customer # handler[h].now.customer
               /\ sent[i].type = "completed" => checkout[s0].user # u
    BY <2>0, <2>1, <2>2, OthersDoNotMatch DEF PlanInv
  <2>3. ASSUME NEW u \in User, OnlySub(s0, u), IsLast(s0, i)
        PROVE  /\ handler[h].now = stripe[s0] /\ stripe[s0].sold /\ sent[i].now = stripe[s0]
    <3>1. stripe[s0].sold
      BY <2>3 DEF OnlySub
    <3>2. handler[h].now = stripe[s0]
      BY <2>0, <2>3, <3>1 DEF PlanInv, HandlersKnow
    <3>3. PICK last \in 1 .. Len(sent) : IsLast(s0, last) /\ sent[last].now = stripe[s0]
      BY <2>1, <3>1 DEF PlanInv, StripeTells
    <3>4. last = i
      <4>1. i \in Nat /\ last \in Nat
        OBVIOUS
      <4>2. sent[i].sub = s0
        BY <2>1
      <4>3. last =< i /\ i =< last
        BY <2>3, <3>3, <4>2, Zenon DEF IsLast
      <4>4. QED
        BY <4>1, <4>3
    <3>5. QED
      BY <3>1, <3>2, <3>3, <3>4
  <2>4. ASSUME sent[i].type # "completed", NEW u \in User, OnlySub(s0, u)
        PROVE  rows[u].sub = s0
    BY <2>0, <2>4, LaterEventsMatch
  <2>5. ASSUME Finish(h),
               \A s \in Sub, u \in User : OnlySub(s, u) =>
                 IF s0 = s THEN RowFollows(s, u, i)' ELSE rows'[u] = rows[u]
        PROVE  Follows
    BY <2>0, <2>5, FinishFollows
  <2>6. CASE Retrieve(h)
    <3> DEFINE new == [handler[h] EXCEPT !.pc = "fetched", !.now = stripe[s0]]
    <3>1. handler' = [handler EXCEPT ![h] = new] /\ UNCHANGED rows
      BY <2>1, <2>6 DEF Retrieve, billedVars
    <3>2. new.pc = "fetched" /\ new.event = handler[h].event /\ new.now = stripe[s0]
      BY <2>1 DEF HandlerRecord
    <3> HIDE DEF new
    <3>3. QED
      BY <2>0, <3>1, <3>2, GoingOnFollows
  <2>7. CASE RecordCheckout(h)
    <3> DEFINE u0 == checkout[s0].user
               new == [plan |-> IF handler[h].now.sold THEN "premium" ELSE "free",
                       customer |-> handler[h].now.customer, sub |-> s0,
                       status |-> handler[h].now.status, sold |-> handler[h].now.sold]
    <3>1. /\ sent[i].type = "completed" /\ Finish(h)
          /\ rows' = [rows EXCEPT ![u0] = new]
      BY <1>4, <2>7 DEF RecordCheckout, At
    <3>2. /\ new.sub = s0
          /\ new.plan = "premium" <=> handler[h].now.sold
      OBVIOUS
    <3> HIDE DEF new
    <3>3. ASSUME NEW s \in Sub, NEW u \in User, OnlySub(s, u), s0 # s
          PROVE  rows'[u] = rows[u]
      BY <2>1, <2>2, <3>1, <3>3
    <3>4. ASSUME NEW u \in User, OnlySub(s0, u)
          PROVE  RowFollows(s0, u, i)'
      <4>1. u0 = u
        <5>1. /\ stripe[s0].customer = checkout[s0].customer /\ checkout[s0].customer \in Customer
              /\ owner[checkout[s0].customer] = u0
          BY <2>1, <3>1 DEF PlanInv, BillingInv, CheckoutsAreOwned
        <5>2. QED
          BY <2>1, <3>4, <5>1, BillingAssumption DEF OnlySub, Payer
      <4>2. rows'[u] = new
        BY <2>1, <3>1, <4>1
      <4>3. ASSUME IsLast(s0, i)
            PROVE  new.plan = "premium" /\ stripe[s0].status \in Active
        <5>1. handler[h].now = stripe[s0] /\ stripe[s0].sold /\ sent[i].now = stripe[s0]
          BY <2>3, <3>4, <4>3
        <5>2. sent[i].now.status = "active"
          BY <2>1, <3>1 DEF PlanInv, StripeTells
        <5>3. new.plan = "premium"
          BY <3>2, <5>1, Zenon
        <5>4. QED
          BY <5>1, <5>2, <5>3 DEF Active
      <4>4. IsLast(s0, i)' => IsLast(s0, i)
        BY <2>0 DEF IsLast
      <4>5. QED
        BY <2>0, <3>2, <4>2, <4>3, <4>4 DEF RowFollows
    <3>5. QED
      BY <2>1, <2>5, <3>1, <3>3, <3>4
  <2>8. CASE UpdateBySub(h)
    <3> DEFINE matched == {u \in User : rows[u].sub = s0}
    <3>1. /\ sent[i].type = "updated" /\ handler[h].now.status \in Listed
          /\ PatchRows(matched, h)
          /\ IF matched = {} THEN ToPc(h, "missed") ELSE Finish(h)
      BY <1>4, <2>8 DEF UpdateBySub, At
    <3>2. CASE matched = {}
      <4> DEFINE new == [handler[h] EXCEPT !.pc = "missed"]
      <4>1. rows' = rows
        BY <2>1, <3>1, <3>2 DEF PatchRows
      <4>2. handler' = [handler EXCEPT ![h] = new]
        BY <2>1, <3>1, <3>2 DEF ToPc
      <4>3. new.pc = "missed" /\ new.event = handler[h].event /\ new.now = handler[h].now
        BY <2>1 DEF HandlerRecord
      <4>4. \A u \in User : rows[u].sub # s0
        BY <3>2
      <4> HIDE DEF new
      <4>5. QED
        BY <2>0, <4>1, <4>2, <4>3, <4>4, GoingOnFollows
    <3>3. CASE matched # {}
      <4>1. ASSUME NEW s \in Sub, NEW u \in User, OnlySub(s, u), s0 # s
            PROVE  rows'[u] = rows[u]
        BY <2>2, <3>1, <4>1 DEF PatchRows
      <4>2. ASSUME NEW u \in User, OnlySub(s0, u)
            PROVE  RowFollows(s0, u, i)'
        <5>1. rows'[u] = Patch(rows[u], s0, handler[h].now)
          BY <2>4, <3>1, <4>2 DEF PatchRows
        <5>2. /\ rows'[u].sub = s0
              /\ rows'[u].plan = IF handler[h].now.status \in Active THEN "premium" ELSE "free"
          BY <2>1, <5>1 DEF Patch, SubscriptionRow
        <5>3. IsLast(s0, i)' => handler[h].now = stripe[s0]
          BY <2>0, <2>3, <4>2 DEF IsLast
        <5>4. QED
          BY <2>0, <5>2, <5>3 DEF RowFollows
      <4>3. QED
        BY <2>1, <2>5, <3>1, <3>3, <4>1, <4>2
    <3>4. QED
      BY <3>2, <3>3
  <2>9. CASE UpdateByCustomer(h)
    <3>1. /\ handler[h].pc = "missed" /\ sent[i].type = "updated" /\ Finish(h)
          /\ PatchRows({u \in User : rows[u].customer = handler[h].now.customer}, h)
      BY <2>9 DEF UpdateByCustomer, At
    <3>2. ASSUME NEW u \in User, OnlySub(s0, u)
          PROVE  FALSE
      <4>1. rows[u].sub = s0
        BY <2>4, <3>1, <3>2
      <4>2. QED
        BY <2>0, <3>1, <4>1 DEF PlanInv, HandlersKnow
    <3>3. ASSUME NEW s \in Sub, NEW u \in User, OnlySub(s, u), s0 # s
          PROVE  rows'[u] = rows[u]
      BY <2>2, <3>1, <3>3 DEF PatchRows
    <3>4. QED
      BY <2>1, <2>5, <3>1, <3>2, <3>3
  <2>10. CASE Delete(h)
    <3>1. /\ sent[i].type = "deleted" /\ Finish(h)
          /\ rows' = [u \in User |->
               IF rows[u].sub = s0
                 THEN [rows[u] EXCEPT !.plan = "free", !.status = "canceled"] ELSE rows[u]]
      BY <2>10 DEF Delete, At
    <3>2. ASSUME NEW s \in Sub, NEW u \in User, OnlySub(s, u), s0 # s
          PROVE  rows'[u] = rows[u]
      BY <2>2, <3>1, <3>2
    <3>3. ASSUME NEW u \in User, OnlySub(s0, u)
          PROVE  RowFollows(s0, u, i)'
      <4>1. rows'[u].sub = s0 /\ rows'[u].plan = "free"
        <5>1. rows[u].sub = s0
          BY <2>4, <3>1, <3>3
        <5>2. QED
          BY <2>1, <3>1, <5>1 DEF SubscriptionRow
      <4>2. ASSUME IsLast(s0, i)
            PROVE  stripe[s0].status \notin Active
        <5>1. sent[i].now = stripe[s0]
          BY <2>3, <3>3, <4>2
        <5>2. sent[i].now.status = "canceled"
          BY <2>1, <3>1 DEF PlanInv, StripeTells
        <5>3. QED
          BY <5>1, <5>2 DEF Active
      <4>3. IsLast(s0, i)' => IsLast(s0, i)
        BY <2>0 DEF IsLast
      <4>4. QED
        BY <2>0, <4>1, <4>2, <4>3 DEF RowFollows
    <3>4. QED
      BY <2>1, <2>5, <3>1, <3>2, <3>3
  <2>11. QED
    BY <1>4, <2>6, <2>7, <2>8, <2>9, <2>10 DEF HandleEvent
<1>5. QED
  BY <1>1, <1>2, <1>3, <1>4 DEF WebhookStep

(***************************************************************************)
(* The invariant is inductive.                                             *)
(***************************************************************************)
LEMMA PlanInductive == BillingSpec => []PlanInv
<1>1. BillingInit /\ BillingInv => PlanInv
  <2> SUFFICES ASSUME BillingInit, BillingInv
               PROVE  StripeTells /\ AnsweredInOrder /\ HandlersKnow /\ RowsFollow
    BY DEF PlanInv
  <2>1. /\ \A s \in Sub : ~stripe[s].sold
        /\ Len(sent) = 0 /\ answered = {} /\ \A h \in Handler : handler[h].pc = "idle"
    BY DEF BillingInit, NoSub, IdleHandler
  <2>2. StripeTells
    BY <2>1 DEF StripeTells
  <2>3. AnsweredInOrder
    <3>1. 0 \in 0 .. Len(sent) /\ answered = 1 .. 0
      BY <2>1
    <3>2. QED
      BY <2>1, <3>1 DEF AnsweredInOrder
  <2>4. HandlersKnow /\ RowsFollow
    BY <2>1 DEF HandlersKnow, RowsFollow
  <2>5. QED
    BY <2>2, <2>3, <2>4
<1>2. PlanInv /\ BillingInv' /\ [BillingNext]_billingVars => PlanInv'
  <2> SUFFICES ASSUME PlanInv, BillingInv', [BillingNext]_billingVars
               PROVE  StripeTells' /\ AnsweredInOrder' /\ HandlersKnow' /\ RowsFollow'
    BY DEF PlanInv
  <2>1. CASE UNCHANGED billingVars
    <3>1. UNCHANGED <<rows, checkout, owner, stripe, sent, answered, handler, orderly>>
      BY <2>1 DEF billingVars, billedVars, stripeVars, deliveryVars
    <3>2. StripeTells'
      BY <3>1 DEF PlanInv, StripeTells, IsFirst, IsLast
    <3>3. AnsweredInOrder' /\ HandlersKnow'
      BY <3>1 DEF PlanInv, AnsweredInOrder, HandlersKnow, IsLast, SubOf
    <3>4. RowsFollow'
      <4>1. \A i : InProgress(i)' <=> InProgress(i)
        BY <3>1 DEF InProgress
      <4>2. \A s, u : OnlySub(s, u)' <=> OnlySub(s, u)
        BY <3>1 DEF OnlySub, Payer
      <4>3. \A s, u, i : RowFollows(s, u, i)' <=> RowFollows(s, u, i)
        BY <3>1 DEF RowFollows, IsLast
      <4>4. QED
        BY <3>1, <4>1, <4>2, <4>3 DEF PlanInv, RowsFollow
    <3>5. QED
      BY <3>2, <3>3, <3>4
  <2>2. ASSUME NEW s \in Sub, StripeSideStep(s)
        PROVE  StripeTells' /\ AnsweredInOrder' /\ HandlersKnow' /\ RowsFollow'
    <3>1. Kept /\ SentGrows /\ UNCHANGED deliveryVars
      BY <2>2, StripeSideKeeps DEF StripeSideStep, PlanInv
    <3>2. (TellsNothing \/ TellsOf(s)) /\ PlansKept
      BY <2>2, StripeSideTells DEF PlanInv
    <3>3. StripeTells'
      BY <3>1, <3>2, StripeGoesOnTelling DEF PlanInv
    <3>4. QED
      BY <3>1, <3>2, <3>3, StripeSideFollows
  <2>3. ASSUME NEW h \in Handler, WebhookStep(h)
        PROVE  StripeTells' /\ AnsweredInOrder' /\ HandlersKnow' /\ RowsFollow'
    <3>1. UNCHANGED <<checkout, stripe, sent>>
      BY <2>3, WebhookKeeps DEF PlanInv
    <3>2. StripeTells'
      BY <3>1 DEF PlanInv, StripeTells, IsFirst, IsLast
    <3>3. QED
      BY <2>3, <3>2, WebhookFollows
  <2>4. QED
    BY <2>1, <2>2, <2>3 DEF BillingNext, StripeSideStep, WebhookStep
<1>3. QED
  BY <1>1, <1>2, BillingInductive, BillingInitInv, PTL DEF BillingSpec

(***************************************************************************)
(* If Stripe delivers in order and no handler fails, a user of one         *)
(* subscription, bought here, is Premium exactly when it is active once    *)
(* nothing is left to deliver.                                             *)
(***************************************************************************)
THEOREM PlanIsStripes == BillingSpec => []PlanFollowsStripe
<1>1. PlanInv => PlanFollowsStripe
  <2> SUFFICES ASSUME PlanInv, orderly, Quiet, NEW s \in Sub, NEW u \in User,
                      {t \in Sub : Payer(t) = u} = {s}, stripe[s].sold
               PROVE  rows[u].plan = "premium" <=> stripe[s].status \in Active
    BY DEF PlanFollowsStripe
  <2>1. OnlySub(s, u)
    BY DEF OnlySub
  <2>2. PICK last \in 1 .. Len(sent) : IsLast(s, last)
    BY DEF PlanInv, StripeTells
  <2>3. last \in answered /\ sent[last].sub = s /\ ~InProgress(last)
    BY <2>2 DEF Quiet, IsLast, InProgress
  <2>4. RowFollows(s, u, last)
    BY <2>1, <2>3 DEF PlanInv, RowsFollow
  <2>5. QED
    BY <2>2, <2>4 DEF RowFollows
<1>2. QED
  BY <1>1, PlanInductive, PTL

-------------------------------------------------------------------------------
\* Entitlements: the monthly quotas.

(***************************************************************************)
(* Sets of requests are finite, and a smaller one has no more members.     *)
(***************************************************************************)
LEMMA RequestSets ==
  ASSUME NEW S \in SUBSET Request, NEW T \in SUBSET S
  PROVE  /\ IsFiniteSet(S) /\ IsFiniteSet(T)
         /\ Cardinality(S) \in Nat /\ Cardinality(T) \in Nat
         /\ Cardinality(T) <= Cardinality(S)
BY EntitlementsAssumption, FS_Subset, FS_CardinalityType

(***************************************************************************)
(* Two sets of requests have at most their sum of members together.        *)
(***************************************************************************)
LEMMA BothTogether ==
  ASSUME NEW S \in SUBSET Request, NEW T \in SUBSET Request
  PROVE  Cardinality(S \cup T) <= Cardinality(S) + Cardinality(T)
<1>1. /\ IsFiniteSet(S) /\ IsFiniteSet(T)
      /\ Cardinality(S) \in Nat /\ Cardinality(T) \in Nat /\ Cardinality(S \cap T) \in Nat
  <2>1. S \cap T \in SUBSET S
    OBVIOUS
  <2>2. QED
    BY <2>1, RequestSets, Zenon
<1>2. Cardinality(S \cup T) = Cardinality(S) + Cardinality(T) - Cardinality(S \cap T)
  BY <1>1, FS_Union, Zenon
<1>3. QED
  BY <1>1, <1>2

(***************************************************************************)
(* One more request is at most one more member.                            *)
(***************************************************************************)
LEMMA OneMore ==
  ASSUME NEW S \in SUBSET Request, NEW q \in Request, NEW T \in SUBSET (S \cup {q})
  PROVE  Cardinality(T) <= Cardinality(S) + 1
<1> DEFINE U == S \cup {q}
<1>1. IsFiniteSet(S) /\ Cardinality(S) \in Nat
  BY RequestSets
<1>2. Cardinality(U) = IF q \in S THEN Cardinality(S) ELSE Cardinality(S) + 1
  BY <1>1, FS_AddElement, Zenon
<1>3. /\ Cardinality(U) \in Nat /\ Cardinality(T) \in Nat
      /\ Cardinality(T) <= Cardinality(U)
  <2>1. U \in SUBSET Request /\ T \in SUBSET U
    OBVIOUS
  <2>2. QED
    BY <2>1, RequestSets, Zenon
<1> HIDE DEF U
<1>4. QED
  BY <1>1, <1>2, <1>3

(***************************************************************************)
(* Type correctness.                                                       *)
(***************************************************************************)
THEOREM QuotaTypeCorrect == QuotaSpec => []QuotaTypeOK
<1>1. QuotaInit => QuotaTypeOK
  BY EntitlementsAssumption DEF QuotaInit, QuotaTypeOK, QuotaStep
<1>2. QuotaTypeOK /\ [QuotaNext]_quotaVars => QuotaTypeOK'
  <2> SUFFICES ASSUME QuotaTypeOK, [QuotaNext]_quotaVars PROVE QuotaTypeOK'
    OBVIOUS
  <2> USE EntitlementsAssumption DEF QuotaTypeOK, QuotaStep, Goto
  <2>1. ASSUME NEW q \in Request, Begin(q) \/ ReadPlan(q) \/ Count(q) PROVE QuotaTypeOK'
    BY <2>1 DEF Begin, ReadPlan, Count
  <2>2. ASSUME NEW q \in Request, Act(q) \/ Record(q) \/ Reply(q) \/ Die(q) PROVE QuotaTypeOK'
    BY <2>2 DEF Act, Record, Reply, Die
  <2>3. CASE ChangePlan \/ NewMonth \/ UNCHANGED quotaVars
    BY <2>3 DEF ChangePlan, NewMonth, quotaVars
  <2>4. QED
    BY <2>1, <2>2, <2>3 DEF QuotaNext
<1>3. QED
  BY <1>1, <1>2, PTL DEF QuotaSpec

(***************************************************************************)
(* The guard of Begin bounds the requests in flight ever after.            *)
(***************************************************************************)
LEMMA InFlightStep ==
  ASSUME QuotaTypeOK, Cardinality(InFlight) <= MaxInFlight, [QuotaNext]_quotaVars
  PROVE  Cardinality(InFlight') <= MaxInFlight
<1> USE EntitlementsAssumption
<1>1. CASE \E q \in Request : Begin(q)
  <2>1. PICK q \in Request : Begin(q)
    BY <1>1
  <2>2. InFlight' = InFlight \cup {q}
    BY <2>1 DEF Begin, Goto, InFlight, QuotaTypeOK
  <2>3. InFlight \in SUBSET Request /\ InFlight' \in SUBSET (InFlight \cup {q})
    BY <2>2 DEF InFlight
  <2>4. Cardinality(InFlight') <= Cardinality(InFlight) + 1
    BY <2>3, OneMore, Zenon
  <2>5. Cardinality(InFlight) \in Nat /\ Cardinality(InFlight') \in Nat
    <3>1. InFlight' \in SUBSET Request
      BY <2>3
    <3>2. QED
      BY <2>3, <3>1, RequestSets, Zenon
  <2>6. Cardinality(InFlight) < MaxInFlight
    BY <2>1 DEF Begin
  <2>7. QED
    BY <2>4, <2>5, <2>6
<1>2. CASE ~\E q \in Request : Begin(q)
  <2>1. InFlight' \subseteq InFlight
    <3>1. ASSUME NEW q \in Request,
                 ReadPlan(q) \/ Count(q) \/ Act(q) \/ Record(q) \/ Reply(q) \/ Die(q)
          PROVE  InFlight' \subseteq InFlight
      BY <3>1 DEF ReadPlan, Count, Act, Record, Reply, Die, Goto, InFlight, QuotaTypeOK
    <3>2. CASE ChangePlan \/ NewMonth \/ UNCHANGED quotaVars
      BY <3>2 DEF ChangePlan, NewMonth, quotaVars, InFlight
    <3>3. QED
      BY <1>2, <3>1, <3>2 DEF QuotaNext
  <2>2. /\ Cardinality(InFlight) \in Nat
        /\ Cardinality(InFlight') \in Nat
        /\ Cardinality(InFlight') <= Cardinality(InFlight)
    BY <2>1, RequestSets DEF InFlight
  <2>3. QED
    BY <2>2
<1>3. QED
  BY <1>1, <1>2

(***************************************************************************)
(* A request reads the plan once and is charged once, after its work,      *)
(* never in a month to come.                                               *)
(***************************************************************************)
LEMMA ChargeStep ==
  ASSUME QuotaTypeOK, ChargedOnce, NoChargeWithoutWork, [QuotaNext]_quotaVars
  PROVE  ChargedOnce' /\ NoChargeWithoutWork'
<1> USE DEF QuotaTypeOK, ChargedOnce, NoChargeWithoutWork, Goto, QuotaStep
<1>1. ASSUME NEW q \in Request, Begin(q) \/ ReadPlan(q) \/ Count(q) \/ Reply(q) \/ Die(q)
      PROVE  ChargedOnce' /\ NoChargeWithoutWork'
  BY <1>1 DEF Begin, ReadPlan, Count, Reply, Die
<1>2. ASSUME NEW q \in Request, Act(q) PROVE ChargedOnce' /\ NoChargeWithoutWork'
  BY <1>2 DEF Act
<1>3. ASSUME NEW q \in Request, Record(q) PROVE ChargedOnce' /\ NoChargeWithoutWork'
  BY <1>3 DEF Record
<1>4. CASE ChangePlan \/ NewMonth \/ UNCHANGED quotaVars
  BY <1>4 DEF ChangePlan, NewMonth, quotaVars
<1>5. QED
  BY <1>1, <1>2, <1>3, <1>4 DEF QuotaNext

(***************************************************************************)
(* Only an admission adds to the free use, and it finds fewer rows than    *)
(* the limit and fewer other requests than may be in flight.               *)
(***************************************************************************)
LEMMA FreeUseStep ==
  ASSUME QuotaTypeOK, QuotaInv, [QuotaNext]_quotaVars
  PROVE  FreeUseIsBounded'
<1> USE EntitlementsAssumption
<1>1. ASSUME FreeUse' \subseteq FreeUse PROVE FreeUseIsBounded'
  <2>1. FreeUse \in SUBSET Request
    BY DEF FreeUse, Counted, Unrecorded, QuotaTypeOK
  <2>2. /\ Cardinality(FreeUse) \in Nat /\ Cardinality(FreeUse') \in Nat
        /\ Cardinality(FreeUse') <= Cardinality(FreeUse)
    BY <1>1, <2>1, RequestSets, Zenon
  <2>3. Cardinality(FreeUse) <= Limit + MaxInFlight - 1
    BY DEF QuotaInv, FreeUseIsBounded
  <2>4. Cardinality(FreeUse') <= Limit + MaxInFlight - 1
    BY <2>2, <2>3
  <2>5. QED
    BY <2>4 DEF FreeUseIsBounded
<1>2. ASSUME NEW q \in Request, Count(q), quotaStep'[q] = "admitted"
      PROVE  FreeUseIsBounded'
  <2> DEFINE Others == InFlight \ {q}
  <2>1. /\ Counted \in SUBSET Request /\ Others \in SUBSET Request
        /\ q \in InFlight /\ InFlight \in SUBSET Request
    BY <1>2 DEF Count, Counted, InFlight
  <2>2. FreeUse' \in SUBSET ((Counted \cup Others) \cup {q})
    <3>1. Counted' = Counted /\ free' = free
      BY <1>2 DEF Count, Counted
    <3>2. Unrecorded' \subseteq InFlight
      BY <1>2 DEF Count, Goto, Unrecorded, InFlight, QuotaTypeOK
    <3>3. QED
      BY <3>1, <3>2 DEF FreeUse
  <2>3. Cardinality(Counted) < Limit
    <3>1. quotaStep[q] = "free" /\ quotaStep' = [quotaStep EXCEPT ![q] =
             IF Cardinality(Counted) < Limit THEN "admitted" ELSE "over"]
      BY <1>2 DEF Count, Goto
    <3>2. QED
      BY <1>2, <3>1 DEF QuotaTypeOK
  <2>4. Cardinality(Others) = Cardinality(InFlight) - 1
    BY <2>1, RequestSets, FS_RemoveElement, Zenon
  <2>5. /\ Cardinality(InFlight) \in Nat /\ Cardinality(Counted) \in Nat
        /\ Cardinality(Counted \cup Others) \in Nat /\ Cardinality(FreeUse') \in Nat
    <3>1. Counted \cup Others \in SUBSET Request /\ FreeUse' \in SUBSET Request
      BY <2>1, <2>2
    <3>2. QED
      BY <2>1, <3>1, RequestSets, Zenon
  <2>6. Cardinality(Counted \cup Others) <= Cardinality(Counted) + Cardinality(Others)
    BY <2>1, BothTogether, Zenon
  <2>7. Cardinality(FreeUse') <= Cardinality(Counted \cup Others) + 1
    <3>1. Counted \cup Others \in SUBSET Request
      BY <2>1
    <3>2. QED
      BY <2>2, <3>1, OneMore, Zenon
  <2>8. Cardinality(InFlight) <= MaxInFlight
    BY DEF QuotaInv
  <2> HIDE DEF Others
  <2>9. Cardinality(FreeUse') <= Limit + MaxInFlight - 1
    BY <2>3, <2>4, <2>5, <2>6, <2>7, <2>8
  <2>10. QED
    BY <2>9 DEF FreeUseIsBounded
<1>3. ASSUME NEW q \in Request,
             Begin(q) \/ ReadPlan(q) \/ Act(q) \/ Record(q) \/ Reply(q) \/ Die(q)
      PROVE  FreeUse' \subseteq FreeUse
  <2> USE DEF FreeUse, Counted, Unrecorded, InFlight, Goto, QuotaTypeOK, QuotaStep, QuotaInv, ChargedOnce
  <2>1. CASE Begin(q) \/ ReadPlan(q)
    <3>1. /\ UNCHANGED <<charged, month>>
          /\ free' \subseteq free \cup {q}
          /\ \A p \in Request \ {q} : quotaStep'[p] = quotaStep[p]
          /\ q \in free' => quotaStep'[q] = "free"
      BY <2>1 DEF Begin, ReadPlan
    <3>2. charged[q] = 0 /\ month # 0
      BY <2>1 DEF Begin, ReadPlan
    <3>3. QED
      BY <3>1, <3>2
  <2>2. CASE Act(q) \/ Record(q)
    BY <2>2 DEF Act, Record
  <2>3. CASE Reply(q) \/ Die(q)
    BY <2>3 DEF Reply, Die
  <2>4. QED
    BY <1>3, <2>1, <2>2, <2>3
<1>4. ASSUME NEW q \in Request, Count(q), quotaStep'[q] # "admitted"
      PROVE  FreeUse' \subseteq FreeUse
  BY <1>4 DEF Count, Goto, FreeUse, Counted, Unrecorded, QuotaTypeOK
<1>5. ASSUME ChangePlan \/ NewMonth \/ UNCHANGED quotaVars
      PROVE  FreeUse' \subseteq FreeUse
  BY <1>5 DEF ChangePlan, NewMonth, quotaVars, FreeUse, Counted, Unrecorded, QuotaTypeOK, QuotaInv, ChargedOnce
<1>6. QED
  BY <1>1, <1>2, <1>3, <1>4, <1>5 DEF QuotaNext

(***************************************************************************)
(* The unlocked quota is overrun by less than the requests in flight       *)
(* together, and no usage row is written without work done.                *)
(***************************************************************************)
THEOREM QuotaCorrect == QuotaSpec => [](FreeUseIsBounded /\ NoChargeWithoutWork)
<1>1. QuotaInit => QuotaInv
  <2> SUFFICES ASSUME QuotaInit PROVE QuotaInv
    OBVIOUS
  <2>1. InFlight = {} /\ FreeUse = {} /\ ChargedOnce /\ NoChargeWithoutWork
    BY DEF QuotaInit, InFlight, FreeUse, Counted, Unrecorded, ChargedOnce, NoChargeWithoutWork
  <2>2. Cardinality(InFlight) = 0 /\ Cardinality(FreeUse) = 0
    BY <2>1, FS_EmptySet, Zenon
  <2>3. QED
    BY <2>1, <2>2, EntitlementsAssumption DEF QuotaInv, FreeUseIsBounded
<1>2. QuotaTypeOK /\ QuotaInv /\ [QuotaNext]_quotaVars => QuotaInv'
  <2> SUFFICES ASSUME QuotaTypeOK, QuotaInv, [QuotaNext]_quotaVars PROVE QuotaInv'
    OBVIOUS
  <2>1. Cardinality(InFlight') <= MaxInFlight
    BY InFlightStep DEF QuotaInv
  <2>2. ChargedOnce' /\ NoChargeWithoutWork'
    BY ChargeStep DEF QuotaInv
  <2>3. FreeUseIsBounded'
    BY FreeUseStep
  <2>4. QED
    BY <2>1, <2>2, <2>3 DEF QuotaInv
<1>3. QED
  BY <1>1, <1>2, QuotaTypeCorrect, PTL DEF QuotaSpec, QuotaInv

(***************************************************************************)
(* Whatever fails, a usage row belongs to work done.                       *)
(***************************************************************************)
THEOREM ChargedForWork == QuotaSpec => []NoChargeWithoutWork
BY QuotaCorrect, PTL

-------------------------------------------------------------------------------
\* ResumeVersions: the numbers of a resume's versions.

(***************************************************************************)
(* The uploads that are no longer new.                                     *)
(***************************************************************************)
Begun == {u \in Upload : uploading[u] # "new"}

(***************************************************************************)
(* No number is higher than there are uploads that are no longer new; the  *)
(* numbers of the rows that are there differ; a number chosen without      *)
(* rivals is free; and only rivals are rejected.                           *)
(***************************************************************************)
VersionInv ==
  /\ ResumeVersionsTypeOK
  /\ \A u \in Upload : versionNumber[u] <= Cardinality(Begun)
  /\ ActiveNumbersDiffer
  /\ \A u \in Upload : uploading[u] = "chosen" /\ rivals[u] = {} => versionNumber[u] \notin Numbers
  /\ OnlyRivalsCollide

(***************************************************************************)
(* An upload that asks for a number is one more that is no longer new.     *)
(***************************************************************************)
LEMMA BegunGrows ==
  ASSUME NEW S \in SUBSET Upload, NEW u \in Upload, u \notin S
  PROVE  /\ Cardinality(S) \in Nat
         /\ Cardinality(S \cup {u}) = Cardinality(S) + 1
         /\ Cardinality(S) + 1 <= Cardinality(Upload)
<1>1. IsFiniteSet(S) /\ Cardinality(S) \in Nat
  BY ResumeVersionsAssumption, FS_Subset, FS_CardinalityType
<1>2. Cardinality(S \cup {u}) = Cardinality(S) + 1
  BY <1>1, FS_AddElement, Zenon
<1>3. Cardinality(S \cup {u}) <= Cardinality(Upload)
  <2>1. S \cup {u} \in SUBSET Upload
    OBVIOUS
  <2>2. QED
    BY <2>1, ResumeVersionsAssumption, FS_Subset, Zenon
<1>4. QED
  BY <1>1, <1>2, <1>3

(***************************************************************************)
(* The invariant is inductive.                                             *)
(***************************************************************************)
LEMMA VersionInductive == ResumeVersionsSpec => []VersionInv
<1>1. ResumeVersionsInit => VersionInv
  <2> SUFFICES ASSUME ResumeVersionsInit
               PROVE  VersionInv
    OBVIOUS
  <2>1. Cardinality(Upload) \in Nat /\ Cardinality(Begun) \in Nat
    BY ResumeVersionsAssumption, FS_CardinalityType, FS_Subset DEF Begun
  <2>2. QED
    BY <2>1 DEF ResumeVersionsInit, VersionInv, ResumeVersionsTypeOK, UploadState,
                ActiveNumbersDiffer, ActiveRows, Numbers, OnlyRivalsCollide
<1>2. VersionInv /\ [ResumeVersionsNext]_versionVars => VersionInv'
  <2> SUFFICES ASSUME VersionInv, [ResumeVersionsNext]_versionVars
               PROVE  VersionInv'
    OBVIOUS
  <2>1. ASSUME NEW u \in Upload, ChooseNumber(u)
        PROVE  VersionInv'
    <3>1. PICK n \in 0 .. Cardinality(Upload) :
            /\ n \in Numbers \cup {0} /\ \A k \in Numbers : k <= n
            /\ Choose(u, n + 1)
      BY <2>1 DEF ChooseNumber
    <3>2. /\ uploading[u] = "new"
          /\ versionNumber' = [versionNumber EXCEPT ![u] = n + 1]
          /\ uploading' = [uploading EXCEPT ![u] = "chosen"]
          /\ rivals' = [rivals EXCEPT ![u] = {}]
      BY <3>1 DEF Choose
    <3>3. /\ Cardinality(Begun) \in Nat
          /\ Cardinality(Begun \cup {u}) = Cardinality(Begun) + 1
          /\ Cardinality(Begun) + 1 <= Cardinality(Upload)
      <4>1. Begun \in SUBSET Upload /\ u \notin Begun
        BY <3>2 DEF Begun
      <4>2. QED
        BY <4>1, BegunGrows
    <3>4. Begun' = Begun \cup {u}
      BY <3>2 DEF VersionInv, ResumeVersionsTypeOK, Begun
    <3>5. n \in Nat /\ n <= Cardinality(Begun) /\ Cardinality(Upload) \in Nat
      BY <3>1, <3>3, ResumeVersionsAssumption, FS_CardinalityType
         DEF VersionInv, ResumeVersionsTypeOK, Numbers, ActiveRows
    <3>6. ResumeVersionsTypeOK'
      BY <3>2, <3>3, <3>5 DEF VersionInv, ResumeVersionsTypeOK, UploadState
    <3>7. (\A w \in Upload : versionNumber[w] <= Cardinality(Begun))'
      BY <3>2, <3>3, <3>4, <3>5 DEF VersionInv, ResumeVersionsTypeOK
    <3>8. ActiveRows' = ActiveRows /\ u \notin ActiveRows /\ Numbers' = Numbers
      BY <3>2 DEF VersionInv, ResumeVersionsTypeOK, ActiveRows, Numbers
    <3>9. n + 1 \notin Numbers
      BY <3>1, <3>5
    <3>10. QED
      BY <3>2, <3>6, <3>7, <3>8, <3>9
         DEF VersionInv, ResumeVersionsTypeOK, ActiveNumbersDiffer, ActiveRows, OnlyRivalsCollide
  <2>2. ASSUME NEW u \in Upload, Refuse(u)
        PROVE  VersionInv'
    <3>1. /\ uploading[u] \in {"new", "chosen"}
          /\ uploading' = [uploading EXCEPT ![u] = "refused"]
          /\ versionNumber' = versionNumber /\ rivals' = rivals
      BY <2>2 DEF Refuse
    <3>2. Begun' = Begun \cup {u} /\ Begun \in SUBSET Upload
      BY <3>1 DEF VersionInv, ResumeVersionsTypeOK, Begun
    <3>3. Cardinality(Begun) \in Nat /\ Cardinality(Begun') \in Nat
          /\ Cardinality(Begun) <= Cardinality(Begun')
      <4>1. IsFiniteSet(Begun) /\ Cardinality(Begun) \in Nat
        BY <3>2, ResumeVersionsAssumption, FS_Subset, FS_CardinalityType
      <4>2. Cardinality(Begun') = Cardinality(Begun)
              \/ Cardinality(Begun') = Cardinality(Begun) + 1
        BY <3>2, <4>1, FS_AddElement, Zenon
      <4>3. QED
        BY <4>1, <4>2
    <3>4. ActiveRows' = ActiveRows /\ Numbers' = Numbers
      BY <3>1 DEF VersionInv, ResumeVersionsTypeOK, ActiveRows, Numbers
    <3>5. ResumeVersionsTypeOK'
      BY <3>1 DEF VersionInv, ResumeVersionsTypeOK, UploadState
    <3>6. (\A w \in Upload : versionNumber[w] <= Cardinality(Begun))'
      <4>1. \A w \in Upload : versionNumber[w] \in Nat
        BY ResumeVersionsAssumption, FS_CardinalityType DEF VersionInv, ResumeVersionsTypeOK
      <4>2. QED
        BY <3>1, <3>3, <4>1 DEF VersionInv
    <3>7. QED
      BY <3>1, <3>4, <3>5, <3>6 DEF VersionInv, ResumeVersionsTypeOK, ActiveNumbersDiffer,
                                    OnlyRivalsCollide
  <2>3. ASSUME NEW u \in Upload, InsertRow(u)
        PROVE  VersionInv'
    <3>1. /\ uploading[u] = "chosen" /\ versionNumber' = versionNumber
          /\ uploading' \in [Upload -> UploadState]
          /\ Begun' = Begun
      BY <2>3 DEF InsertRow, Inserted, VersionInv, ResumeVersionsTypeOK, UploadState, Begun
    <3>2. CASE versionNumber[u] \in Numbers
      <4>1. uploading' = [uploading EXCEPT ![u] = "rejected"] /\ rivals' = rivals
        BY <2>3, <3>2 DEF InsertRow
      <4>2. ActiveRows' = ActiveRows /\ Numbers' = Numbers
        BY <3>1, <4>1 DEF VersionInv, ResumeVersionsTypeOK, ActiveRows, Numbers
      <4>3. QED
        BY <3>1, <3>2, <4>1, <4>2
           DEF VersionInv, ResumeVersionsTypeOK, ActiveNumbersDiffer, OnlyRivalsCollide
    <3>3. CASE versionNumber[u] \notin Numbers
      <4>1. /\ uploading' = [uploading EXCEPT ![u] = "inserted"]
            /\ rivals' = [w \in Upload |->
                 IF uploading[w] = "chosen" /\ w # u THEN rivals[w] \cup {u} ELSE rivals[w]]
        BY <2>3, <3>3 DEF InsertRow, Inserted
      <4>2. ActiveRows' = ActiveRows \cup {u}
        BY <4>1 DEF VersionInv, ResumeVersionsTypeOK, ActiveRows
      <4>3. ActiveNumbersDiffer'
        BY <3>1, <3>3, <4>2 DEF VersionInv, ActiveNumbersDiffer, Numbers
      <4>4. QED
        BY <3>1, <4>1, <4>3 DEF VersionInv, ResumeVersionsTypeOK, OnlyRivalsCollide
    <3>4. QED
      BY <3>2, <3>3
  <2>4. ASSUME NEW u \in Upload, DeleteRow(u)
        PROVE  VersionInv'
    <3>1. /\ uploading[u] = "inserted" /\ uploading' = [uploading EXCEPT ![u] = "deleted"]
          /\ versionNumber' = versionNumber /\ rivals' = rivals
      BY <2>4 DEF DeleteRow
    <3>2. Begun' = Begun /\ ActiveRows' \subseteq ActiveRows /\ Numbers' \subseteq Numbers
      BY <3>1 DEF VersionInv, ResumeVersionsTypeOK, Begun, ActiveRows, Numbers
    <3>3. QED
      BY <3>1, <3>2 DEF VersionInv, ResumeVersionsTypeOK, UploadState, ActiveNumbersDiffer,
                        OnlyRivalsCollide
  <2>5. CASE UNCHANGED versionVars
    BY <2>5 DEF versionVars, VersionInv, ResumeVersionsTypeOK, Begun, ActiveNumbersDiffer,
                ActiveRows, Numbers, OnlyRivalsCollide
  <2>6. QED
    BY <2>1, <2>2, <2>3, <2>4, <2>5 DEF ResumeVersionsNext
<1>3. QED
  BY <1>1, <1>2, PTL DEF ResumeVersionsSpec

(***************************************************************************)
(* The numbers of a user's versions differ, and only rivals are rejected.  *)
(***************************************************************************)
THEOREM VersionNumbersKept == ResumeVersionsSpec => []NumbersAreKept
<1>1. VersionInv => NumbersAreKept
  BY DEF VersionInv, NumbersAreKept
<1>2. QED
  BY <1>1, VersionInductive, PTL

-------------------------------------------------------------------------------
\* AiFillBudget: the daily budget of the AI fill.

\* The tallies as functions of the days to numbers.
Tallies ==
  /\ today \in Day /\ fills \in 0 .. MaxFills /\ outages \in 0 .. MaxOutages
  /\ aborts \in 0 .. MaxAborts
  /\ starting \in [Day -> Nat] /\ firsts \in [Day -> Nat] /\ counter \in [Day -> Nat]
  /\ working \in [Day -> Nat] /\ admitted \in [Day -> Nat] /\ uncounted \in [Day -> Nat]
  /\ wasted \in [Day -> Nat] /\ turnedAway \in [Day -> Nat]
  /\ counterExpires \in [Day -> BOOLEAN]

(***************************************************************************)
(* The books of a day: every request is in one tally at most, and a count  *)
(* is wasted by a request or by a lost connection; the counter has counted *)
(* each request let through without an error, unless the day is long over  *)
(* and no request of it is left, and nothing but requests of the day and   *)
(* what was wasted of it; and what the ceiling promises.                   *)
(***************************************************************************)
DayInv(d) ==
  /\ starting[d] + admitted[d] + turnedAway[d] <= fills
  /\ starting[d] + admitted[d] + turnedAway[d] + wasted[d] <= fills + outages
  /\ firsts[d] + working[d] <= admitted[d]
  /\ firsts[d] + uncounted[d] <= admitted[d]
  /\ counter[d] <= admitted[d] + turnedAway[d] + wasted[d]
  /\ (today > d + 1 /\ starting[d] = 0) \/ admitted[d] <= counter[d] + uncounted[d]
  /\ admitted[d] <= DailyLimit + uncounted[d]
  /\ turnedAway[d] > 0 => admitted[d] + wasted[d] >= DailyLimit

FillInv == Tallies /\ \A d \in Day : DayInv(d)

(***************************************************************************)
(* One more changes the tally of its day only.                             *)
(***************************************************************************)
LEMMA OneMoreTally ==
  ASSUME NEW f \in [Day -> Nat], NEW d \in Day
  PROVE  /\ More(f, d) \in [Day -> Nat] /\ More(f, d)[d] = f[d] + 1
         /\ \A e \in Day : e # d => More(f, d)[e] = f[e]
BY DEF More

(***************************************************************************)
(* One fewer changes the tally of its day only.                            *)
(***************************************************************************)
LEMMA OneLessTally ==
  ASSUME NEW f \in [Day -> Nat], NEW d \in Day, f[d] > 0
  PROVE  /\ Less(f, d) \in [Day -> Nat] /\ Less(f, d)[d] = f[d] - 1
         /\ \A e \in Day : e # d => Less(f, d)[e] = f[e]
BY DEF Less

(***************************************************************************)
(* What the invariant says of one day, in numbers.                         *)
(***************************************************************************)
LEMMA OneDay ==
  ASSUME FillInv, NEW d \in Day
  PROVE  /\ DayInv(d) /\ d \in Nat /\ today \in Nat /\ fills \in Nat
         /\ DailyLimit \in Nat /\ MaxFills \in Nat /\ outages \in Nat
         /\ starting[d] \in Nat /\ firsts[d] \in Nat /\ counter[d] \in Nat
         /\ working[d] \in Nat /\ admitted[d] \in Nat /\ uncounted[d] \in Nat
         /\ wasted[d] \in Nat /\ turnedAway[d] \in Nat
<1>1. Tallies /\ DayInv(d)
  BY DEF FillInv
<1>2. DailyLimit \in Nat /\ MaxFills \in Nat /\ MaxDays \in Nat
  BY AiFillAssumption
<1>3. today \in Nat /\ fills \in Nat /\ outages \in Nat /\ d \in Nat
  BY <1>1, <1>2, AiFillAssumption DEF Tallies, Day
<1>4. /\ starting[d] \in Nat /\ firsts[d] \in Nat /\ counter[d] \in Nat
      /\ working[d] \in Nat /\ admitted[d] \in Nat /\ uncounted[d] \in Nat
      /\ wasted[d] \in Nat /\ turnedAway[d] \in Nat
  BY <1>1 DEF Tallies
<1>5. QED
  BY <1>1, <1>2, <1>3, <1>4

(***************************************************************************)
(* The invariant is inductive.                                             *)
(***************************************************************************)
LEMMA FillInductive == AiFillBudgetSpec => []FillInv
<1>1. AiFillBudgetInit => FillInv
  BY AiFillAssumption DEF AiFillBudgetInit, FillInv, Tallies, DayInv, Day, Zero
<1>2. FillInv /\ [AiFillBudgetNext]_fillBudgetVars => FillInv'
  <2> SUFFICES ASSUME FillInv, [AiFillBudgetNext]_fillBudgetVars
               PROVE  FillInv'
    OBVIOUS
  <2>0. /\ Tallies /\ today \in Day /\ fills \in 0 .. MaxFills /\ outages \in 0 .. MaxOutages
        /\ aborts \in 0 .. MaxAborts
        /\ starting \in [Day -> Nat] /\ firsts \in [Day -> Nat] /\ counter \in [Day -> Nat]
        /\ working \in [Day -> Nat] /\ admitted \in [Day -> Nat]
        /\ uncounted \in [Day -> Nat] /\ wasted \in [Day -> Nat]
        /\ turnedAway \in [Day -> Nat]
        /\ counterExpires \in [Day -> BOOLEAN]
    BY DEF FillInv, Tallies
  <2>1. CASE BeginFill
    <3>1. /\ fills < MaxFills /\ fills' = fills + 1
          /\ starting' = More(starting, today)
          /\ UNCHANGED <<today, firsts, counter, counterExpires, working, outages, aborts,
                         admitted, uncounted, wasted, turnedAway>>
      BY <2>1 DEF BeginFill
    <3>2. /\ starting' \in [Day -> Nat] /\ starting'[today] = starting[today] + 1
          /\ \A e \in Day : e # today => starting'[e] = starting[e]
      BY <3>1, <2>0, OneMoreTally
    <3>3. Tallies'
      BY <2>0, <3>1, <3>2, AiFillAssumption DEF Tallies
    <3>4. ASSUME NEW e \in Day
          PROVE  DayInv(e)'
      <4>1. CASE e = today
        BY <3>1, <3>2, <4>1, OneDay DEF DayInv
      <4>2. CASE e # today
        BY <3>1, <3>2, <4>2, OneDay DEF DayInv
      <4>3. QED
        BY <4>1, <4>2
    <3>5. QED
      BY <3>3, <3>4 DEF FillInv
  <2>2. CASE Midnight
    <3>1. /\ today' = today + 1 /\ today' \in Day
          /\ UNCHANGED <<starting, firsts, counter, counterExpires, working, fills, outages,
                         aborts, admitted, uncounted, wasted, turnedAway>>
      BY <2>0, <2>2, AiFillAssumption DEF Midnight, Day
    <3>2. ASSUME NEW e \in Day
          PROVE  DayInv(e)'
      BY <3>1, OneDay DEF DayInv
    <3>3. QED
      BY <2>0, <3>1, <3>2 DEF FillInv, Tallies
  <2>3. ASSUME NEW d \in Day, Incr(d)
        PROVE  FillInv'
    <3>1. /\ starting[d] > 0 /\ starting' = Less(starting, d)
          /\ counter' = More(counter, d) /\ Compare(d, counter'[d])
          /\ UNCHANGED <<today, counterExpires, fills, outages, aborts, uncounted, wasted>>
      BY <2>3 DEF Incr
    <3>2. /\ starting' \in [Day -> Nat] /\ starting'[d] = starting[d] - 1
          /\ counter' \in [Day -> Nat] /\ counter'[d] = counter[d] + 1
          /\ \A e \in Day : e # d => starting'[e] = starting[e] /\ counter'[e] = counter[e]
      <4>1. /\ starting' \in [Day -> Nat] /\ starting'[d] = starting[d] - 1
            /\ \A e \in Day : e # d => starting'[e] = starting[e]
        BY <3>1, <2>0, OneLessTally
      <4>2. /\ counter' \in [Day -> Nat] /\ counter'[d] = counter[d] + 1
            /\ \A e \in Day : e # d => counter'[e] = counter[e]
        BY <3>1, <2>0, OneMoreTally
      <4>3. QED
        BY <4>1, <4>2
    <3>3. CASE counter'[d] > DailyLimit
      <4>1. /\ turnedAway' = More(turnedAway, d)
            /\ firsts' = firsts /\ working' = working /\ admitted' = admitted
        BY <3>1, <3>3 DEF Compare
      <4>2. /\ turnedAway' \in [Day -> Nat] /\ turnedAway'[d] = turnedAway[d] + 1
            /\ \A e \in Day : e # d => turnedAway'[e] = turnedAway[e]
        BY <4>1, <2>0, OneMoreTally
      <4>3. ASSUME NEW e \in Day
            PROVE  DayInv(e)'
        <5>1. CASE e = d
          BY <3>1, <3>2, <3>3, <4>1, <4>2, <5>1, OneDay DEF DayInv
        <5>2. CASE e # d
          BY <3>1, <3>2, <3>3, <4>1, <4>2, <5>2, OneDay DEF DayInv
        <5>3. QED
          BY <5>1, <5>2
      <4>4. QED
        BY <2>0, <3>1, <3>2, <4>1, <4>2, <4>3 DEF FillInv, Tallies
    <3>4. CASE ~(counter'[d] > DailyLimit)
      <4>1. /\ admitted' = More(admitted, d) /\ turnedAway' = turnedAway
            /\ \/ firsts' = More(firsts, d) /\ working' = working
               \/ firsts' = firsts /\ working' = More(working, d)
        BY <3>1, <3>4 DEF Compare
      <4>2. /\ admitted' \in [Day -> Nat] /\ admitted'[d] = admitted[d] + 1
            /\ firsts' \in [Day -> Nat] /\ working' \in [Day -> Nat]
            /\ firsts'[d] + working'[d] = firsts[d] + working[d] + 1
            /\ \A e \in Day : e # d => /\ admitted'[e] = admitted[e]
                                       /\ firsts'[e] = firsts[e] /\ working'[e] = working[e]
        <5>1. /\ admitted' \in [Day -> Nat] /\ admitted'[d] = admitted[d] + 1
              /\ \A e \in Day : e # d => admitted'[e] = admitted[e]
          BY <4>1, <2>0, OneMoreTally
        <5>2. CASE firsts' = More(firsts, d) /\ working' = working
          <6>1. /\ firsts' \in [Day -> Nat] /\ firsts'[d] = firsts[d] + 1
                /\ \A e \in Day : e # d => firsts'[e] = firsts[e]
            BY <5>2, <2>0, OneMoreTally
          <6>2. QED
            BY <5>1, <5>2, <6>1, <2>0
        <5>3. CASE firsts' = firsts /\ working' = More(working, d)
          <6>1. /\ working' \in [Day -> Nat] /\ working'[d] = working[d] + 1
                /\ \A e \in Day : e # d => working'[e] = working[e]
            BY <5>3, <2>0, OneMoreTally
          <6>2. QED
            BY <5>1, <5>3, <6>1, <2>0
        <5>4. QED
          BY <4>1, <5>2, <5>3
      <4>3. ASSUME NEW e \in Day
            PROVE  DayInv(e)'
        <5>1. CASE e = d
          BY <3>1, <3>2, <3>4, <4>1, <4>2, <5>1, OneDay DEF DayInv
        <5>2. CASE e # d
          BY <3>1, <3>2, <3>4, <4>1, <4>2, <5>2, OneDay DEF DayInv
        <5>3. QED
          BY <5>1, <5>2
      <4>4. QED
        BY <2>0, <3>1, <3>2, <4>1, <4>2, <4>3 DEF FillInv, Tallies
    <3>5. QED
      BY <3>3, <3>4
  <2>4. ASSUME NEW d \in Day, FinishFill(d)
        PROVE  FillInv'
    <3>1. /\ working[d] > 0 /\ working' = Less(working, d)
          /\ UNCHANGED <<today, starting, firsts, counter, counterExpires, fills, outages,
                         aborts, admitted, uncounted, wasted, turnedAway>>
      BY <2>4 DEF FinishFill
    <3>2. /\ working' \in [Day -> Nat] /\ working'[d] = working[d] - 1
          /\ \A e \in Day : e # d => working'[e] = working[e]
      BY <3>1, <2>0, OneLessTally
    <3>3. ASSUME NEW e \in Day
          PROVE  DayInv(e)'
      <4>1. CASE e = d
        BY <3>1, <3>2, <4>1, OneDay DEF DayInv
      <4>2. CASE e # d
        BY <3>1, <3>2, <4>2, OneDay DEF DayInv
      <4>3. QED
        BY <4>1, <4>2
    <3>4. QED
      BY <2>0, <3>1, <3>2, <3>3 DEF FillInv, Tallies
  <2>5. ASSUME NEW d \in Day, Forget(d)
        PROVE  FillInv'
    <3>1. /\ starting[d] = 0 /\ today > d + 1
          /\ counter' = [counter EXCEPT ![d] = 0]
          /\ counterExpires' = [counterExpires EXCEPT ![d] = FALSE]
          /\ UNCHANGED <<today, starting, firsts, working, fills, outages, aborts, admitted,
                         uncounted, wasted, turnedAway>>
      BY <2>5 DEF Forget
    <3>2. /\ counter' \in [Day -> Nat] /\ counter'[d] = 0
          /\ \A e \in Day : e # d => counter'[e] = counter[e]
      BY <3>1, <2>0
    <3>3. counterExpires' \in [Day -> BOOLEAN]
      BY <3>1, <2>0
    <3>4. ASSUME NEW e \in Day
          PROVE  DayInv(e)'
      <4>1. CASE e = d
        BY <3>1, <3>2, <4>1, OneDay DEF DayInv
      <4>2. CASE e # d
        BY <3>1, <3>2, <4>2, OneDay DEF DayInv
      <4>3. QED
        BY <4>1, <4>2
    <3>5. QED
      BY <2>0, <3>1, <3>2, <3>3, <3>4 DEF FillInv, Tallies
  <2>6. ASSUME NEW d \in Day, NEW applied \in BOOLEAN, IncrFails(d, applied)
        PROVE  FillInv'
    <3>1. /\ starting[d] > 0 /\ starting' = Less(starting, d)
          /\ outages < MaxOutages /\ outages' = outages + 1
          /\ counter' = More(counter, d) \/ counter' = counter
          /\ admitted' = More(admitted, d) /\ uncounted' = More(uncounted, d)
          /\ working' = More(working, d)
          /\ UNCHANGED <<today, firsts, counterExpires, fills, aborts, wasted, turnedAway>>
      BY <2>6 DEF IncrFails
    <3>2. /\ starting' \in [Day -> Nat] /\ starting'[d] = starting[d] - 1
          /\ \A e \in Day : e # d => starting'[e] = starting[e]
      BY <3>1, <2>0, OneLessTally
    <3>3. /\ admitted' \in [Day -> Nat] /\ admitted'[d] = admitted[d] + 1
          /\ \A e \in Day : e # d => admitted'[e] = admitted[e]
      BY <3>1, <2>0, OneMoreTally
    <3>4. /\ uncounted' \in [Day -> Nat] /\ uncounted'[d] = uncounted[d] + 1
          /\ \A e \in Day : e # d => uncounted'[e] = uncounted[e]
      BY <3>1, <2>0, OneMoreTally
    <3>5. /\ working' \in [Day -> Nat] /\ working'[d] = working[d] + 1
          /\ \A e \in Day : e # d => working'[e] = working[e]
      BY <3>1, <2>0, OneMoreTally
    <3>6. /\ counter' \in [Day -> Nat] /\ counter'[d] \in {counter[d], counter[d] + 1}
          /\ \A e \in Day : e # d => counter'[e] = counter[e]
      <4>1. CASE counter' = More(counter, d)
        BY <4>1, <2>0, OneMoreTally
      <4>2. CASE counter' = counter
        BY <4>2, <2>0
      <4>3. QED
        BY <3>1, <4>1, <4>2
    <3>7. ASSUME NEW e \in Day
          PROVE  DayInv(e)'
      <4>1. CASE e = d
        BY <3>1, <3>2, <3>3, <3>4, <3>5, <3>6, <4>1, OneDay DEF DayInv
      <4>2. CASE e # d
        BY <3>1, <3>2, <3>3, <3>4, <3>5, <3>6, <4>2, OneDay DEF DayInv
      <4>3. QED
        BY <4>1, <4>2
    <3>8. outages' \in 0 .. MaxOutages
      BY <2>0, <3>1, AiFillAssumption
    <3>9. QED
      BY <2>0, <3>1, <3>2, <3>3, <3>4, <3>5, <3>6, <3>7, <3>8 DEF FillInv, Tallies
  <2>7. ASSUME NEW d \in Day, NEW fails \in BOOLEAN, Expire(d, fails)
        PROVE  FillInv'
    <3>1. /\ firsts[d] > 0 /\ firsts' = Less(firsts, d) /\ working' = More(working, d)
          /\ fails => outages < MaxOutages
          /\ outages' = IF fails THEN outages + 1 ELSE outages
          /\ counterExpires' = [counterExpires EXCEPT ![d] = @ \/ ~fails]
          /\ UNCHANGED <<today, starting, counter, fills, aborts, admitted, uncounted,
                         wasted, turnedAway>>
      BY <2>7 DEF Expire
    <3>0. outages' \in 0 .. MaxOutages /\ counterExpires' \in [Day -> BOOLEAN]
      <4>1. outages' \in 0 .. MaxOutages
        BY <3>1, <2>0, AiFillAssumption
      <4>2. counterExpires' \in [Day -> BOOLEAN]
        BY <3>1, <2>0
      <4>3. QED
        BY <4>1, <4>2
    <3>2. /\ firsts' \in [Day -> Nat] /\ firsts'[d] = firsts[d] - 1
          /\ working' \in [Day -> Nat] /\ working'[d] = working[d] + 1
          /\ \A e \in Day : e # d => firsts'[e] = firsts[e] /\ working'[e] = working[e]
      <4>1. /\ firsts' \in [Day -> Nat] /\ firsts'[d] = firsts[d] - 1
            /\ \A e \in Day : e # d => firsts'[e] = firsts[e]
        BY <3>1, <2>0, OneLessTally
      <4>2. /\ working' \in [Day -> Nat] /\ working'[d] = working[d] + 1
            /\ \A e \in Day : e # d => working'[e] = working[e]
        BY <3>1, <2>0, OneMoreTally
      <4>3. QED
        BY <4>1, <4>2
    <3>3. ASSUME NEW e \in Day
          PROVE  DayInv(e)'
      <4>1. CASE e = d
        BY <3>1, <3>2, <4>1, OneDay DEF DayInv
      <4>2. CASE e # d
        BY <3>1, <3>2, <4>2, OneDay DEF DayInv
      <4>3. QED
        BY <4>1, <4>2
    <3>4. QED
      BY <2>0, <3>0, <3>1, <3>2, <3>3 DEF FillInv, Tallies
  <2>8. ASSUME NEW d \in Day, IncrIsResent(d)
         PROVE  FillInv'
    <3>1. /\ outages < MaxOutages /\ outages' = outages + 1
          /\ counter' = More(counter, d) /\ wasted' = More(wasted, d)
          /\ UNCHANGED <<today, starting, firsts, counterExpires, working, fills, aborts,
                         admitted, uncounted, turnedAway>>
      BY <2>8 DEF IncrIsResent
    <3>2. /\ counter' \in [Day -> Nat] /\ counter'[d] = counter[d] + 1
          /\ \A e \in Day : e # d => counter'[e] = counter[e]
      BY <3>1, <2>0, OneMoreTally
    <3>3. /\ wasted' \in [Day -> Nat] /\ wasted'[d] = wasted[d] + 1
          /\ \A e \in Day : e # d => wasted'[e] = wasted[e]
      BY <3>1, <2>0, OneMoreTally
    <3>4. ASSUME NEW e \in Day
          PROVE  DayInv(e)'
      <4>1. CASE e = d
        BY <3>1, <3>2, <3>3, <4>1, OneDay DEF DayInv
      <4>2. CASE e # d
        BY <3>1, <3>2, <3>3, <4>2, OneDay DEF DayInv
      <4>3. QED
        BY <4>1, <4>2
    <3>5. outages' \in 0 .. MaxOutages
      BY <2>0, <3>1, AiFillAssumption
    <3>6. QED
      BY <2>0, <3>1, <3>2, <3>3, <3>4, <3>5 DEF FillInv, Tallies
  <2>9. ASSUME NEW d \in Day, NEW counted \in BOOLEAN, DieAtIncr(d, counted)
         PROVE  FillInv'
    <3>1. /\ starting[d] > 0 /\ starting' = Less(starting, d)
          /\ aborts < MaxAborts /\ aborts' = aborts + 1
          /\ \/ counter' = More(counter, d) /\ wasted' = More(wasted, d)
             \/ counter' = counter /\ wasted' = wasted
          /\ UNCHANGED <<today, firsts, counterExpires, working, fills, outages, admitted,
                         uncounted, turnedAway>>
      BY <2>9 DEF DieAtIncr
    <3>2. /\ starting' \in [Day -> Nat] /\ starting'[d] = starting[d] - 1
          /\ \A e \in Day : e # d => starting'[e] = starting[e]
      BY <3>1, <2>0, OneLessTally
    <3>3. /\ counter' \in [Day -> Nat] /\ wasted' \in [Day -> Nat]
          /\ \/ counter'[d] = counter[d] + 1 /\ wasted'[d] = wasted[d] + 1
             \/ counter'[d] = counter[d] /\ wasted'[d] = wasted[d]
          /\ \A e \in Day : e # d => counter'[e] = counter[e] /\ wasted'[e] = wasted[e]
      <4>1. CASE counter' = More(counter, d) /\ wasted' = More(wasted, d)
        BY <4>1, <2>0, OneMoreTally
      <4>2. CASE counter' = counter /\ wasted' = wasted
        BY <4>2, <2>0
      <4>3. QED
        BY <3>1, <4>1, <4>2
    <3>4. ASSUME NEW e \in Day
          PROVE  DayInv(e)'
      <4>1. CASE e = d
        BY <3>1, <3>2, <3>3, <4>1, OneDay DEF DayInv
      <4>2. CASE e # d
        BY <3>1, <3>2, <3>3, <4>2, OneDay DEF DayInv
      <4>3. QED
        BY <4>1, <4>2
    <3>5. aborts' \in 0 .. MaxAborts
      BY <2>0, <3>1, AiFillAssumption
    <3>6. QED
      BY <2>0, <3>1, <3>2, <3>3, <3>4, <3>5 DEF FillInv, Tallies
  <2>10. ASSUME NEW d \in Day, DieAtExpire(d)
         PROVE  FillInv'
    <3>1. /\ firsts[d] > 0 /\ firsts' = Less(firsts, d) /\ admitted' = Less(admitted, d)
          /\ aborts < MaxAborts /\ aborts' = aborts + 1
          /\ wasted' = More(wasted, d)
          /\ UNCHANGED <<today, starting, counter, counterExpires, working, fills, outages,
                         uncounted, turnedAway>>
      BY <2>10 DEF DieAtExpire
    <3>2. admitted[d] > 0
      BY <3>1, OneDay DEF DayInv
    <3>3. /\ firsts' \in [Day -> Nat] /\ firsts'[d] = firsts[d] - 1
          /\ \A e \in Day : e # d => firsts'[e] = firsts[e]
      BY <3>1, <2>0, OneLessTally
    <3>4. /\ admitted' \in [Day -> Nat] /\ admitted'[d] = admitted[d] - 1
          /\ \A e \in Day : e # d => admitted'[e] = admitted[e]
      BY <3>1, <3>2, <2>0, OneLessTally
    <3>5. /\ wasted' \in [Day -> Nat] /\ wasted'[d] = wasted[d] + 1
          /\ \A e \in Day : e # d => wasted'[e] = wasted[e]
      BY <3>1, <2>0, OneMoreTally
    <3>6. ASSUME NEW e \in Day
          PROVE  DayInv(e)'
      <4>1. CASE e = d
        BY <3>1, <3>3, <3>4, <3>5, <4>1, OneDay DEF DayInv
      <4>2. CASE e # d
        BY <3>1, <3>3, <3>4, <3>5, <4>2, OneDay DEF DayInv
      <4>3. QED
        BY <4>1, <4>2
    <3>7. aborts' \in 0 .. MaxAborts
      BY <2>0, <3>1, AiFillAssumption
    <3>8. QED
      BY <2>0, <3>1, <3>3, <3>4, <3>5, <3>6, <3>7 DEF FillInv, Tallies
  <2>11. CASE UNCHANGED fillBudgetVars
    BY <2>0, <2>11 DEF fillBudgetVars, FillInv, Tallies, DayInv
  <2>12. QED
    BY <2>1, <2>2, <2>3, <2>4, <2>5, <2>6, <2>7, <2>8, <2>9, <2>10, <2>11
    DEF AiFillBudgetNext
<1>3. QED
  BY <1>1, <1>2, PTL DEF AiFillBudgetSpec

(***************************************************************************)
(* Type correctness: in particular no tally outgrows the requests, and the *)
(* counter no more than the requests and the lost connections together.    *)
(***************************************************************************)
THEOREM FillTypeCorrect == AiFillBudgetSpec => []AiFillBudgetTypeOK
<1>1. FillInv => AiFillBudgetTypeOK
  <2> SUFFICES ASSUME FillInv
               PROVE  AiFillBudgetTypeOK
    OBVIOUS
  <2>1. \A d \in Day : /\ starting[d] \in 0 .. MaxFills /\ firsts[d] \in 0 .. MaxFills
                       /\ counter[d] \in 0 .. MaxFills + MaxOutages
                       /\ wasted[d] \in 0 .. MaxFills + MaxOutages /\ working[d] \in 0 .. MaxFills
                       /\ admitted[d] \in 0 .. MaxFills /\ uncounted[d] \in 0 .. MaxFills
                       /\ turnedAway[d] \in 0 .. MaxFills
    BY AiFillAssumption DEF FillInv, Tallies, DayInv
  <2>2. QED
    BY <2>1 DEF FillInv, Tallies, AiFillBudgetTypeOK, Tally
<1>2. QED
  BY <1>1, FillInductive, PTL

(***************************************************************************)
(* The daily ceiling is missed by no more than the Redis errors, and met   *)
(* early by no more than the counts wasted on a death or a second INCR.    *)
(***************************************************************************)
THEOREM CeilingKept == AiFillBudgetSpec => []CeilingIsExact
<1>1. FillInv => CeilingIsExact
  BY DEF FillInv, DayInv, CeilingIsExact, CeilingHolds, NobodyIsTurnedAwayEarly
<1>2. QED
  BY <1>1, FillInductive, PTL

-------------------------------------------------------------------------------
\* Throttler: the rate limits.

(***************************************************************************)
(* Of a set of finite sets one is the smallest, and of a set of numbers    *)
(* one is the least: the induction that the limits and the paper need.     *)
(***************************************************************************)
LEMMA Smallest ==
  ASSUME NEW U, IsFiniteSet(U), NEW C \in SUBSET SUBSET U, C # {}
  PROVE  \E x \in C : \A y \in C : y \subseteq x => y = x
<1>1. C \subseteq FiniteSubsetsOf(U)
  BY FS_FiniteSubsetsOfFinite
<1>2. \E x \in C : \A y \in C : ~(<<y, x>> \in StrictSubsetOrdering(U))
  BY <1>1, FS_StrictSubsetOrderingWellFounded, WFMin, Zenon
<1>3. QED
  BY <1>1, <1>2 DEF StrictSubsetOrdering

\* Proved with the segments 0 .. x of the numbers up to n.
LEMMA LeastNumber ==
  ASSUME NEW T \in SUBSET Nat, NEW n \in T
  PROVE  \E x \in T : \A y \in T : x <= y
<1> DEFINE V == 0 .. n
           C == {0 .. x : x \in {y \in T : y <= n}}
<1>1. C \in SUBSET SUBSET V
  OBVIOUS
<1>2. C # {}
  <2>1. 0 .. n \in C
    OBVIOUS
  <2>2. QED
    BY <2>1, Zenon
<1>3. IsFiniteSet(V)
  BY FS_Interval
<1>4. PICK s \in C : \A t \in C : t \subseteq s => t = s
  <2> HIDE DEF C, V
  <2>1. QED
    BY <1>1, <1>2, <1>3, Smallest
<1>5. PICK x \in T : x <= n /\ s = 0 .. x
  BY <1>4
<1>6. ASSUME NEW y \in T, y < x
      PROVE  FALSE
  <2>1. 0 .. y \in C
    BY <1>5, <1>6
  <2>2. x \in Nat /\ y \in Nat
    OBVIOUS
  <2>3. (0 .. y) \subseteq s
    BY <1>5, <1>6, <2>2
  <2>4. x \in s /\ x \notin 0 .. y
    BY <1>5, <1>6, <2>2
  <2>5. QED
    BY <2>1, <2>3, <2>4, <1>4, Zenon
<1>7. QED
  BY <1>5, <1>6

\* Who was let through by a throttler so far, and what its ttl and its limit are.
PassedSoFar(k) == passed[k][MaxRateTime + 1]
Ttl(k) == Throttlers[k].ttl
LimitOf(k) == Throttlers[k].limit

RateTypes ==
  /\ rateTime \in 0 .. MaxRateTime
  /\ hits \in [Named -> Nat] /\ hitsUntil \in [Named -> Nat] /\ blockUntil \in [Named -> Nat]
  /\ passed \in [Named -> [Moment -> Nat]]

(***************************************************************************)
(* What a throttler knows.  Counter and block end within one ttl; nobody   *)
(* was let through less than one ttl before the counter ends; and while    *)
(* the counter lives it has counted whoever was let through during the     *)
(* last ttl, so that the next one let through fits every window he is in.  *)
(***************************************************************************)
RateInvOf(k) ==
  /\ blockUntil[k] <= rateTime + Ttl(k) /\ hitsUntil[k] <= rateTime + Ttl(k)
  /\ \A t \in Moment : t + Ttl(k) > hitsUntil[k] => passed[k][t] = PassedSoFar(k)
  /\ hitsUntil[k] > rateTime =>
       \A t \in Moment : t + Ttl(k) > rateTime => PassedSoFar(k) <= passed[k][t] + hits[k]
  /\ \A start, end \in Moment :
       start <= end /\ end <= start + Ttl(k) => passed[k][end] <= passed[k][start] + LimitOf(k)

RateInv == RateTypes /\ \A k \in Named : RateInvOf(k)

(***************************************************************************)
(* The numbers of a throttler's description.                               *)
(***************************************************************************)
LEMMA ThrottlerNumbers ==
  ASSUME NEW k \in Named
  PROVE  /\ Ttl(k) \in Nat \ {0} /\ LimitOf(k) \in Nat \ {0}
         /\ MaxRateTime + 1 \in Moment /\ Moment \subseteq Nat
<1>1. Throttlers[k] \in [name : STRING, ttl : Nat \ {0}, limit : Nat \ {0}]
  <2> DEFINE Description == [name : STRING, ttl : Nat \ {0}, limit : Nat \ {0}]
  <2>1. Throttlers \in Seq(Description)
    BY ThrottlerAssumption
  <2> HIDE DEF Description
  <2>2. Throttlers[k] \in Description
    BY <2>1 DEF Named
  <2>3. QED
    BY <2>2 DEF Description
<1>2. QED
  BY <1>1, ThrottlerAssumption DEF Ttl, LimitOf, Moment

(***************************************************************************)
(* A throttler whose keys and records a step leaves alone knows what it    *)
(* knew, unless the clock moves.                                           *)
(***************************************************************************)
LEMMA RateUntouched ==
  ASSUME NEW k \in Named, RateInvOf(k), rateTime' = rateTime, hits'[k] = hits[k],
         hitsUntil'[k] = hitsUntil[k], blockUntil'[k] = blockUntil[k], passed'[k] = passed[k]
  PROVE  RateInvOf(k)'
BY DEF RateInvOf, PassedSoFar, Ttl, LimitOf

(***************************************************************************)
(* A hit that is counted, and maybe let through.                           *)
(***************************************************************************)
LEMMA RateHit ==
  ASSUME NEW k \in Named, RateTypes, RateInvOf(k), rateTime' = rateTime,
         blockUntil'[k] = blockUntil[k],
         hits'[k] = Incremented(k), hitsUntil'[k] = rateTime + Ttl(k),
         \/ passed'[k] = passed[k]
         \/ /\ Incremented(k) <= LimitOf(k)
            /\ passed'[k] = [t \in Moment |->
                 IF t > rateTime THEN passed[k][t] + 1 ELSE passed[k][t]]
  PROVE  RateInvOf(k)'
<1>1. /\ Ttl(k) \in Nat \ {0} /\ LimitOf(k) \in Nat \ {0} /\ Moment \subseteq Nat
      /\ MaxRateTime + 1 \in Moment
      /\ rateTime \in Nat /\ rateTime < MaxRateTime + 1 /\ MaxRateTime \in Nat
      /\ hits[k] \in Nat /\ hitsUntil[k] \in Nat /\ blockUntil[k] \in Nat
      /\ \A t \in Moment : passed[k][t] \in Nat
  BY ThrottlerNumbers, ThrottlerAssumption DEF RateTypes
<1>2. /\ Incremented(k) \in Nat /\ Incremented(k) >= 1
      /\ hitsUntil[k] > rateTime => Incremented(k) = hits[k] + 1
  BY <1>1 DEF Incremented
<1>3. Ttl(k)' = Ttl(k) /\ LimitOf(k)' = LimitOf(k)
  BY DEF Ttl, LimitOf
<1>4. /\ PassedSoFar(k) \in Nat
      /\ \A t \in Moment : t > rateTime => passed[k][t] = PassedSoFar(k)
      /\ \A t \in Moment : t + Ttl(k) > rateTime => PassedSoFar(k) + 1 <= passed[k][t] + Incremented(k)
  <2>1. PassedSoFar(k) \in Nat
    BY <1>1 DEF PassedSoFar
  <2>2. ASSUME NEW t \in Moment, t > rateTime
        PROVE  passed[k][t] = PassedSoFar(k)
    BY <1>1, <2>2 DEF RateInvOf
  <2>3. ASSUME NEW t \in Moment, t + Ttl(k) > rateTime
        PROVE  PassedSoFar(k) + 1 <= passed[k][t] + Incremented(k)
    <3>1. CASE hitsUntil[k] > rateTime
      BY <1>1, <1>2, <2>1, <2>3, <3>1 DEF RateInvOf
    <3>2. CASE ~(hitsUntil[k] > rateTime)
      <4>1. passed[k][t] = PassedSoFar(k)
        BY <1>1, <2>3, <3>2 DEF RateInvOf
      <4>2. QED
        BY <1>2, <2>1, <4>1
    <3>3. QED
      BY <3>1, <3>2
  <2>4. QED
    BY <2>1, <2>2, <2>3
<1>5. (blockUntil[k] <= rateTime + Ttl(k) /\ hitsUntil[k] <= rateTime + Ttl(k))'
  BY <1>1, <1>3 DEF RateInvOf
<1>6. CASE passed'[k] = passed[k]
  <2>1. PassedSoFar(k)' = PassedSoFar(k)
    BY <1>6 DEF PassedSoFar
  <2>2. ASSUME NEW t \in Moment, t + Ttl(k) > hitsUntil'[k]
        PROVE  passed'[k][t] = PassedSoFar(k)
    BY <1>1, <1>4, <1>6, <2>2
  <2>3. ASSUME NEW t \in Moment, t + Ttl(k) > rateTime
        PROVE  PassedSoFar(k) <= passed'[k][t] + hits'[k]
    BY <1>1, <1>2, <1>4, <1>6, <2>3
  <2>4. QED
    BY <1>3, <1>5, <1>6, <2>1, <2>2, <2>3 DEF RateInvOf
<1>7. CASE /\ Incremented(k) <= LimitOf(k)
           /\ passed'[k] = [t \in Moment |->
                IF t > rateTime THEN passed[k][t] + 1 ELSE passed[k][t]]
  <2>1. PassedSoFar(k)' = PassedSoFar(k) + 1
    BY <1>1, <1>7 DEF PassedSoFar
  <2>2. \A t \in Moment : passed'[k][t] = IF t > rateTime THEN PassedSoFar(k) + 1 ELSE passed[k][t]
    BY <1>4, <1>7
  <2>3. ASSUME NEW t \in Moment, t + Ttl(k) > hitsUntil'[k]
        PROVE  passed'[k][t] = PassedSoFar(k) + 1
    BY <1>1, <2>2, <2>3
  <2>4. ASSUME NEW t \in Moment, t + Ttl(k) > rateTime
        PROVE  PassedSoFar(k) + 1 <= passed'[k][t] + hits'[k]
    BY <1>1, <1>2, <1>4, <2>2, <2>4
  <2>5. ASSUME NEW start \in Moment, NEW end \in Moment, start <= end, end <= start + Ttl(k)
        PROVE  passed'[k][end] <= passed'[k][start] + LimitOf(k)
    <3>1. passed[k][end] <= passed[k][start] + LimitOf(k)
      BY <2>5 DEF RateInvOf
    <3>2. start \in Nat /\ end \in Nat
      BY <1>1
    <3>3. CASE end <= rateTime
      BY <1>1, <2>2, <2>5, <3>1, <3>2, <3>3
    <3>4. CASE start > rateTime
      BY <1>1, <1>4, <2>2, <2>5, <3>2, <3>4
    <3>5. CASE start <= rateTime /\ end > rateTime
      <4>1. passed'[k][end] = PassedSoFar(k) + 1 /\ passed'[k][start] = passed[k][start]
        BY <1>1, <2>2, <3>2, <3>5
      <4>2. PassedSoFar(k) + 1 <= passed[k][start] + Incremented(k)
        BY <1>1, <1>4, <2>5, <3>2, <3>5
      <4>3. QED
        BY <1>1, <1>2, <1>4, <1>7, <4>1, <4>2
    <3>6. QED
      BY <1>1, <3>2, <3>3, <3>4, <3>5
  <2>6. QED
    BY <1>3, <1>5, <2>1, <2>3, <2>4, <2>5 DEF RateInvOf
<1>8. QED
  BY <1>6, <1>7

(***************************************************************************)
(* The invariant is inductive.                                             *)
(***************************************************************************)
LEMMA RateInductive == ThrottlerSpec => []RateInv
<1>1. ThrottlerInit => RateInv
  <2> SUFFICES ASSUME ThrottlerInit
               PROVE  RateInv
    OBVIOUS
  <2>1. RateTypes
    BY ThrottlerAssumption DEF ThrottlerInit, RateTypes
  <2>2. ASSUME NEW k \in Named
        PROVE  RateInvOf(k)
    BY ThrottlerNumbers, ThrottlerAssumption DEF ThrottlerInit, RateInvOf, PassedSoFar
  <2>3. QED
    BY <2>1, <2>2 DEF RateInv
<1>2. RateInv /\ [ThrottlerNext]_throttlerVars => RateInv'
  <2> SUFFICES ASSUME RateInv, [ThrottlerNext]_throttlerVars
               PROVE  RateInv'
    OBVIOUS
  <2>0. /\ RateTypes /\ \A k \in Named : RateInvOf(k)
        /\ rateTime \in 0 .. MaxRateTime
        /\ hits \in [Named -> Nat] /\ hitsUntil \in [Named -> Nat]
        /\ blockUntil \in [Named -> Nat] /\ passed \in [Named -> [Moment -> Nat]]
    BY DEF RateInv, RateTypes
  <2>1. CASE UNCHANGED <<hits, hitsUntil, blockUntil, rateTime, passed>>
    BY <2>0, <2>1, RateUntouched DEF RateInv, RateTypes
  <2>2. ASSUME NEW k \in Named,
               hits' = [hits EXCEPT ![k] = Incremented(k)],
               hitsUntil' = [hitsUntil EXCEPT ![k] = rateTime + Ttl(k)],
               UNCHANGED <<blockUntil, rateTime>>,
               \/ passed' = passed
               \/ /\ Incremented(k) <= LimitOf(k)
                  /\ passed' = [passed EXCEPT ![k] =
                       [t \in Moment |-> IF t > rateTime THEN passed[k][t] + 1 ELSE passed[k][t]]]
        PROVE  RateInv'
    <3>1. /\ Incremented(k) \in Nat /\ rateTime + Ttl(k) \in Nat
          /\ \A t \in Moment : passed[k][t] \in Nat
      BY <2>0, ThrottlerNumbers DEF Incremented
    <3>2. /\ hits' \in [Named -> Nat] /\ hits'[k] = Incremented(k)
          /\ hitsUntil' \in [Named -> Nat] /\ hitsUntil'[k] = rateTime + Ttl(k)
      BY <2>0, <2>2, <3>1
    <3>3. \/ passed'[k] = passed[k]
          \/ /\ Incremented(k) <= LimitOf(k)
             /\ passed'[k] = [t \in Moment |->
                  IF t > rateTime THEN passed[k][t] + 1 ELSE passed[k][t]]
      BY <2>0, <2>2
    <3>4. passed' \in [Named -> [Moment -> Nat]]
      <4>1. [t \in Moment |-> IF t > rateTime THEN passed[k][t] + 1 ELSE passed[k][t]]
              \in [Moment -> Nat]
        BY <3>1
      <4>2. QED
        BY <2>0, <2>2, <4>1
    <3>5. RateTypes'
      BY <2>0, <2>2, <3>2, <3>4 DEF RateTypes
    <3>6. RateInvOf(k)'
      BY <2>0, <2>2, <3>2, <3>3, RateHit
    <3>7. ASSUME NEW j \in Named, j # k
          PROVE  RateInvOf(j)'
      <4>1. hits'[j] = hits[j] /\ hitsUntil'[j] = hitsUntil[j] /\ passed'[j] = passed[j]
            /\ blockUntil'[j] = blockUntil[j]
        BY <2>0, <2>2, <3>7
      <4>2. QED
        BY <2>0, <2>2, <4>1, RateUntouched
    <3>8. QED
      BY <3>5, <3>6, <3>7 DEF RateInv
  <2>3. ASSUME NEW k \in Named, CountHit(k)
        PROVE  RateInv'
    <3>1. /\ hits' = [hits EXCEPT ![k] = Incremented(k)]
          /\ hitsUntil' = [hitsUntil EXCEPT ![k] = rateTime + Ttl(k)]
          /\ UNCHANGED <<blockUntil, rateTime>>
          /\ Judge(k, Incremented(k))
      BY <2>3 DEF CountHit, Ttl
    <3>2. CASE Incremented(k) > LimitOf(k)
      BY <2>2, <3>1, <3>2 DEF Judge, LimitOf
    <3>3. CASE ~(Incremented(k) > LimitOf(k))
      <4>1. passed' = [passed EXCEPT ![k] =
              [t \in Moment |-> IF t > rateTime THEN passed[k][t] + 1 ELSE passed[k][t]]]
        BY <3>1, <3>3 DEF Judge, LimitOf
      <4>2. Incremented(k) <= LimitOf(k)
        BY <2>0, <3>3, ThrottlerNumbers DEF Incremented
      <4>3. QED
        BY <2>2, <3>1, <4>1, <4>2
    <3>4. QED
      BY <3>2, <3>3
  <2>4. ASSUME NEW k \in Named, NEW applied \in BOOLEAN, CountFails(k, applied)
        PROVE  RateInv'
    <3>1. /\ UNCHANGED <<blockUntil, rateTime, passed>>
          /\ IF applied
               THEN /\ hits' = [hits EXCEPT ![k] = Incremented(k)]
                    /\ hitsUntil' = [hitsUntil EXCEPT ![k] = rateTime + Ttl(k)]
               ELSE UNCHANGED <<hits, hitsUntil>>
      BY <2>4 DEF CountFails, Ttl
    <3>2. CASE applied
      BY <2>2, <3>1, <3>2
    <3>3. CASE ~applied
      BY <2>1, <3>1, <3>3
    <3>4. QED
      BY <3>2, <3>3
  <2>5. ASSUME NEW k \in Named, Block(k)
        PROVE  RateInv'
    <3>1. /\ blockUntil' = [blockUntil EXCEPT ![k] = rateTime + Ttl(k)]
          /\ UNCHANGED <<hits, hitsUntil, rateTime, passed>>
      BY <2>5 DEF Block, Ttl
    <3>2. rateTime + Ttl(k) \in Nat
      BY <2>0, ThrottlerNumbers
    <3>3. blockUntil' \in [Named -> Nat] /\ blockUntil'[k] = rateTime + Ttl(k)
          /\ \A j \in Named : j # k => blockUntil'[j] = blockUntil[j]
      BY <2>0, <3>1, <3>2
    <3>4. RateInvOf(k)'
      <4>1. RateInvOf(k)
        BY <2>0
      <4>2. QED
        BY <3>1, <3>2, <3>3, <4>1 DEF RateInvOf, PassedSoFar, Ttl, LimitOf
    <3>5. \A j \in Named : j # k => RateInvOf(j)'
      BY <2>0, <3>1, <3>3, RateUntouched
    <3>6. QED
      BY <2>0, <3>1, <3>3, <3>4, <3>5 DEF RateInv, RateTypes
  <2>6. CASE RateTick
    <3>1. /\ rateTime' = rateTime + 1 /\ rateTime' \in 0 .. MaxRateTime /\ rateTime \in Nat
          /\ UNCHANGED <<hits, hitsUntil, blockUntil, passed>>
      BY <2>0, <2>6, ThrottlerAssumption DEF RateTick
    <3>2. ASSUME NEW k \in Named
          PROVE  RateInvOf(k)'
      <4>1. RateInvOf(k) /\ Ttl(k) \in Nat /\ Moment \subseteq Nat
            /\ hitsUntil[k] \in Nat /\ blockUntil[k] \in Nat
        BY <2>0, ThrottlerNumbers
      <4>2. /\ PassedSoFar(k)' = PassedSoFar(k) /\ Ttl(k)' = Ttl(k) /\ LimitOf(k)' = LimitOf(k)
            /\ hits'[k] = hits[k] /\ hitsUntil'[k] = hitsUntil[k] /\ blockUntil'[k] = blockUntil[k]
            /\ passed'[k] = passed[k]
        BY <3>1 DEF PassedSoFar, Ttl, LimitOf
      <4>3. (blockUntil[k] <= rateTime + Ttl(k) /\ hitsUntil[k] <= rateTime + Ttl(k))'
        BY <3>1, <4>1, <4>2 DEF RateInvOf
      <4>4. ASSUME hitsUntil[k] > rateTime + 1, NEW t \in Moment, t + Ttl(k) > rateTime + 1
            PROVE  PassedSoFar(k) <= passed[k][t] + hits[k]
        BY <3>1, <4>1, <4>4 DEF RateInvOf
      <4>5. QED
        BY <3>1, <4>1, <4>2, <4>3, <4>4 DEF RateInvOf
    <3>3. QED
      BY <2>0, <3>1, <3>2 DEF RateInv, RateTypes
  <2>7. ASSUME NEW k \in Named, ReadBlock(k)
        PROVE  RateInv'
    BY <2>1, <2>7 DEF ReadBlock
  <2>8. QED
    BY <2>1, <2>3, <2>4, <2>5, <2>6, <2>7
       DEF ThrottlerNext, AskThrottler, LoseHit, throttlerVars
<1>3. QED
  BY <1>1, <1>2, PTL DEF ThrottlerSpec

(***************************************************************************)
(* The limit holds in every window of one ttl, and it ends.                *)
(***************************************************************************)
THEOREM RateLimitKept == ThrottlerSpec => []RateLimitIsFair
<1>1. RateInv => RateLimitIsFair
  BY DEF RateInv, RateInvOf, RateLimitIsFair, RateHolds, QuietIsEnough, Ttl, LimitOf
<1>2. QED
  BY <1>1, RateInductive, PTL

\* The guard goes on to a throttler that there is.
LEMMA NextThrottler ==
  ASSUME NEW k \in Nat
  PROVE  FirstAfter(k) \in {0} \cup Named
<1> DEFINE rest == {j \in Named : j > k /\ Throttlers[j].name \notin Decorated[route]}
<1>1. rest \subseteq Named /\ rest \in SUBSET Nat
  BY DEF Named
<1>2. CASE rest = {}
  BY <1>2 DEF FirstAfter
<1>3. CASE rest # {}
  <2>1. PICK n \in rest : TRUE
    BY <1>3
  <2>2. FirstAfter(k) = Min(rest)
    BY <1>3 DEF FirstAfter
  <2> HIDE DEF rest
  <2>3. \E x \in rest : \A y \in rest : x <= y
    BY <1>1, <2>1, LeastNumber
  <2>4. Min(rest) \in rest
    BY <2>3 DEF Min
  <2>5. QED
    BY <1>1, <2>2, <2>4
<1>4. QED
  BY <1>2, <1>3

(***************************************************************************)
(* Nobody leaves a stage that nobody is at.                                *)
(***************************************************************************)
Waiting == [Named -> [Stage -> Nat]]

\* Somebody comes to a stage, ...
LEMMA OneIn ==
  ASSUME NEW at \in Waiting, NEW k \in Named, NEW s \in Stage
  PROVE  [at EXCEPT ![k][s] = @ + 1] \in Waiting
<1>1. at[k] \in [Stage -> Nat] /\ at[k][s] + 1 \in Nat
  BY DEF Waiting
<1>2. [at[k] EXCEPT ![s] = @ + 1] \in [Stage -> Nat]
  BY <1>1
<1>3. QED
  BY <1>2 DEF Waiting

\* ... leaves it ...
LEMMA OneOut ==
  ASSUME NEW at \in Waiting, NEW k \in Named, NEW s \in Stage, at[k][s] > 0
  PROVE  Leave(at, k, s) \in Waiting
<1>1. at[k] \in [Stage -> Nat] /\ at[k][s] - 1 \in Nat
  BY DEF Waiting
<1>2. [at[k] EXCEPT ![s] = @ - 1] \in [Stage -> Nat]
  BY <1>1
<1>3. QED
  BY <1>2 DEF Waiting, Leave

\* ... or goes on to the next throttler.
LEMMA OneOn ==
  ASSUME NEW at \in Waiting, NEW k \in Nat
  PROVE  Enter(at, FirstAfter(k)) \in Waiting
<1>1. "asked" \in Stage
  BY DEF Stage
<1>2. FirstAfter(k) \in {0} \cup Named
  BY NextThrottler
<1>3. QED
  BY <1>1, <1>2, OneIn DEF Enter

\* Whatever happens, somebody who leaves has been there.
LEMMA WaitingKept == ThrottlerTypeOK /\ [ThrottlerNext]_throttlerVars => storing' \in Waiting
<1> SUFFICES ASSUME ThrottlerTypeOK, [ThrottlerNext]_throttlerVars
             PROVE  storing' \in Waiting
  OBVIOUS
<1>1. storing \in Waiting /\ Named \subseteq Nat /\ {"asked", "unblocked", "over"} \subseteq Stage
  BY DEF ThrottlerTypeOK, Waiting, Named, Stage
<1>2. CASE AskThrottler
  BY <1>1, <1>2, OneOn DEF AskThrottler
<1>3. ASSUME NEW k \in Named, ReadBlock(k)
      PROVE  storing' \in Waiting
  <2>1. Leave(storing, k, "asked") \in Waiting
    BY <1>1, <1>3, OneOut DEF ReadBlock
  <2>2. QED
    BY <1>1, <1>3, <2>1, OneIn DEF ReadBlock
<1>4. ASSUME NEW k \in Named, CountHit(k) \/ CountFails(k, TRUE) \/ CountFails(k, FALSE)
      PROVE  storing' \in Waiting
  <2>1. Leave(storing, k, "unblocked") \in Waiting
    BY <1>1, <1>4, OneOut DEF CountHit, CountFails
  <2>2. Enter(Leave(storing, k, "unblocked"), FirstAfter(k)) \in Waiting
    BY <1>1, <2>1, OneOn
  <2>3. QED
    BY <1>1, <1>4, <2>1, <2>2, OneIn DEF CountHit, CountFails, Judge
<1>5. ASSUME NEW k \in Named, Block(k)
      PROVE  storing' \in Waiting
  BY <1>1, <1>5, OneOut DEF Block
<1>6. ASSUME NEW k \in Named, NEW s \in Stage, LoseHit(k, s)
      PROVE  storing' \in Waiting
  BY <1>1, <1>6, OneOut DEF LoseHit
<1>7. CASE RateTick \/ UNCHANGED throttlerVars
  BY <1>1, <1>7 DEF RateTick, throttlerVars
<1>8. QED
  BY <1>2, <1>3, <1>4, <1>5, <1>6, <1>7 DEF ThrottlerNext

(***************************************************************************)
(* Counters, expiries and the requests at every stage are numbers: no      *)
(* interleaving takes a request out of a stage twice.                      *)
(***************************************************************************)
THEOREM ThrottlerTypeCorrect == ThrottlerSpec => []ThrottlerTypeOK
<1>1. ThrottlerInit => ThrottlerTypeOK
  <2> SUFFICES ASSUME ThrottlerInit
               PROVE  ThrottlerTypeOK
    OBVIOUS
  <2>1. storing \in [Named -> [Stage -> Nat]] /\ passed \in [Named -> [Moment -> Nat]]
    BY DEF ThrottlerInit
  <2>2. /\ route \in DOMAIN Decorated /\ refused \in BOOLEAN
        /\ hits \in [Named -> Nat] /\ hitsUntil \in [Named -> Nat]
        /\ blockUntil \in [Named -> Nat]
    BY DEF ThrottlerInit
  <2>3. MaxHits \in Nat /\ MaxRateTime \in Nat
    BY ThrottlerAssumption, Zenon
  <2>4. arrivals \in 0 .. MaxHits /\ rateTime \in 0 .. MaxRateTime
    BY <2>3 DEF ThrottlerInit
  <2>5. QED
    BY <2>1, <2>2, <2>4, Zenon DEF ThrottlerTypeOK
<1>2. RateInv' /\ ThrottlerTypeOK /\ [ThrottlerNext]_throttlerVars => ThrottlerTypeOK'
  <2> SUFFICES ASSUME RateInv', ThrottlerTypeOK, [ThrottlerNext]_throttlerVars
               PROVE  ThrottlerTypeOK'
    OBVIOUS
  <2>1. storing' \in [Named -> [Stage -> Nat]]
    BY WaitingKept DEF Waiting
  <2>2. RateTypes'
    BY DEF RateInv
  <2>3. route' = route
    BY DEF ThrottlerNext, AskThrottler, ReadBlock, CountHit, CountFails, Block, LoseHit, RateTick,
           throttlerVars
  <2>4. arrivals' \in 0 .. MaxHits
    <3>1. arrivals \in 0 .. MaxHits /\ MaxHits \in Nat
      BY ThrottlerAssumption DEF ThrottlerTypeOK
    <3>2. arrivals' = arrivals \/ (arrivals < MaxHits /\ arrivals' = arrivals + 1)
      BY DEF ThrottlerNext, AskThrottler, ReadBlock, CountHit, CountFails, Block, LoseHit, RateTick,
             throttlerVars
    <3>3. QED
      BY <3>1, <3>2
  <2>5. refused' \in BOOLEAN
    <3>1. refused' = refused \/ refused' = TRUE
      BY DEF ThrottlerNext, AskThrottler, ReadBlock, CountHit, CountFails, Block, LoseHit, RateTick,
             throttlerVars
    <3>2. QED
      BY <3>1 DEF ThrottlerTypeOK
  <2>6. QED
    BY <2>1, <2>2, <2>3, <2>4, <2>5 DEF ThrottlerTypeOK, RateTypes
<1>3. QED
  BY <1>1, <1>2, RateInductive, PTL DEF ThrottlerSpec

-------------------------------------------------------------------------------
(* ResumeExport: what the page shows, compares and prints of a resume.     *)

(***************************************************************************)
(* Lists of lists.  The first m of them, put together one after the other. *)
(***************************************************************************)
Together(seqs, m, f) ==
  f = [i \in 1 .. m |-> IF i = 1 THEN seqs[i] ELSE f[i - 1] \o seqs[i]]

\* FlattenSeq's recursion has a solution, for otherwise there is a least number of lists
\* for which it has none.
LEMMA PutTogether ==
  ASSUME NEW seqs, NEW n \in Nat
  PROVE  \E f : Together(seqs, n, f)
<1> DEFINE T == {m \in Nat : ~\E f : Together(seqs, m, f)}
<1>1. SUFFICES ASSUME T # {} PROVE FALSE
  OBVIOUS
<1>2. PICK m \in T : \A k \in T : m <= k
  <2>1. PICK k \in T : TRUE
    BY <1>1
  <2>2. T \in SUBSET Nat
    OBVIOUS
  <2> HIDE DEF T
  <2>3. QED
    BY <2>1, <2>2, LeastNumber
<1>3. m # 0
  <2> DEFINE g == [i \in 1 .. 0 |-> seqs[i]]
  <2>1. Together(seqs, 0, g)
    BY DEF Together
  <2>2. QED
    BY <1>2, <2>1
<1>4. m - 1 \in Nat /\ m - 1 \notin T
  BY <1>2, <1>3
<1>5. PICK f : Together(seqs, m - 1, f)
  BY <1>4
<1> DEFINE g == [i \in 1 .. m |-> IF i < m THEN f[i] ELSE IF i = 1 THEN seqs[i] ELSE f[i - 1] \o seqs[i]]
<1>6. ASSUME NEW i \in 1 .. m
      PROVE  g[i] = IF i = 1 THEN seqs[i] ELSE g[i - 1] \o seqs[i]
  <2>1. CASE i < m
    <3>1. i \in 1 .. m - 1 /\ g[i] = f[i]
      BY <1>4, <2>1
    <3>2. f[i] = IF i = 1 THEN seqs[i] ELSE f[i - 1] \o seqs[i]
      <4> HIDE DEF g
      <4>1. QED
        BY <1>5, <3>1 DEF Together
    <3>3. i # 1 => g[i - 1] = f[i - 1]
      BY <1>4, <2>1
    <3> HIDE DEF g
    <3>4. QED
      BY <3>1, <3>2, <3>3
  <2>2. CASE i = m
    BY <1>4, <2>2
  <2>3. QED
    BY <1>4, <2>1, <2>2
<1>7. Together(seqs, m, g)
  <2>1. g = [i \in 1 .. m |-> g[i]]
    OBVIOUS
  <2> HIDE DEF g
  <2>2. QED
    BY <1>6, <2>1 DEF Together
<1>8. QED
  BY <1>2, <1>7

\* Lists of members of S, put together, are a list of members of S.
LEMMA Flattened ==
  ASSUME NEW S, NEW seqs \in Seq(Seq(S))
  PROVE  FlattenSeq(seqs) \in Seq(S)
<1>1. CASE Len(seqs) = 0
  <2>1. seqs = <<>>
    BY <1>1
  <2>2. QED
    BY <1>1, <2>1 DEF FlattenSeq
<1>2. CASE Len(seqs) # 0
  <2> DEFINE n == Len(seqs)
             f == CHOOSE g : Together(seqs, n, g)
  <2>1. n \in Nat \ {0} /\ \A i \in 1 .. n : seqs[i] \in Seq(S)
    BY <1>2
  <2>2. Together(seqs, n, f)
    BY <2>1, PutTogether, Zenon
  <2>3. FlattenSeq(seqs) = f[n]
    BY <1>2 DEF FlattenSeq, Together
  <2> HIDE DEF n, f
  <2>4. \A i \in 1 .. n : f[i] = IF i = 1 THEN seqs[i] ELSE f[i - 1] \o seqs[i]
    BY <2>2 DEF Together
  <2> DEFINE T == {i \in 1 .. n : f[i] \notin Seq(S)}
  <2>5. SUFFICES ASSUME T # {} PROVE FALSE
    BY <2>1, <2>3
  <2>6. PICK i \in T : \A j \in T : i <= j
    <3>1. PICK j \in T : TRUE
      BY <2>5
    <3>2. T \in SUBSET Nat
      BY <2>1
    <3> HIDE DEF T
    <3>3. QED
      BY <3>1, <3>2, LeastNumber
  <2>7. i # 1
    BY <2>1, <2>4, <2>6
  <2>8. f[i - 1] \in Seq(S)
    BY <2>1, <2>6, <2>7
  <2>9. i \in 1 .. n /\ f[i] \notin Seq(S)
    BY <2>6
  <2>10. f[i] = f[i - 1] \o seqs[i]
    BY <2>4, <2>7, <2>9
  <2>11. seqs[i] \in Seq(S)
    BY <2>1, <2>9
  <2>12. f[i - 1] \o seqs[i] \in Seq(S)
    BY <2>8, <2>11, ConcatProperties
  <2>13. QED
    BY <2>9, <2>10, <2>12
<1>3. QED
  BY <1>1, <1>2

\* A single list, flattened, is itself.
LEMMA FlattenedOne ==
  ASSUME NEW s
  PROVE  FlattenSeq(<<s>>) = s
<1> DEFINE f == CHOOSE g : Together(<<s>>, 1, g)
<1>1. Together(<<s>>, 1, f)
  BY PutTogether, Zenon
<1>2. FlattenSeq(<<s>>) = f[1]
  BY DEF FlattenSeq, Together
<1> HIDE DEF f
<1>3. f[1] = <<s>>[1]
  BY <1>1 DEF Together
<1>4. QED
  BY <1>2, <1>3

-------------------------------------------------------------------------------
(* On paper. *)

\* What stands at some places of a list is a list of it.
LEMMA OfThePlaces ==
  ASSUME NEW T, NEW n \in Nat, NEW list, DOMAIN list = 1 .. n, NEW places,
         \A i \in 1 .. n : i \in places => list[i] \in T
  PROVE  AtPlaces(list, places) \in Seq(T)
<1> DEFINE seqs == [i \in DOMAIN list |-> IF i \in places THEN <<list[i]>> ELSE <<>>]
<1>1. ASSUME NEW i \in 1 .. n
      PROVE  (IF i \in places THEN <<list[i]>> ELSE <<>>) \in Seq(T)
  <2>1. CASE i \in places
    <3>1. list[i] \in T
      BY <2>1
    <3>2. QED
      BY <2>1, <3>1
  <2>2. CASE i \notin places
    BY <2>2
  <2>3. QED
    BY <2>1, <2>2
<1>2. seqs \in [1 .. n -> Seq(T)]
  BY <1>1
<1>3. seqs \in Seq(Seq(T))
  BY <1>2, SeqDef
<1>4. FlattenSeq(seqs) \in Seq(T)
  <2> HIDE DEF seqs
  <2>1. QED
    BY <1>3, Flattened
<1>5. QED
  BY <1>4 DEF AtPlaces

\* What can stand in a line, and what of it is no placeholder of the model.
PaperText == Text \cup {"Present", "Professional Summary", "Experience", "Education",
                        "Skills", "Certifications"}
PlainText == PaperText \ {"UNKNOWN"}

\* What clean leaves is no placeholder.
LEMMA CleanIsPlain ==
  ASSUME NEW v \in Text
  PROVE  Clean(v) \in PlainText
BY ResumeExportAssumption DEF Clean, PlainText, PaperText

\* Nor is any text of a list it has been mapped over.
LEMMA CleanedArePlain ==
  ASSUME NEW values \in Seq(Text)
  PROVE  Cleaned(values) \in Seq(PlainText)
<1> DEFINE clean == [i \in DOMAIN values |-> Clean(values[i])]
<1>1. DOMAIN clean = 1 .. Len(values) /\ Len(values) \in Nat
  OBVIOUS
<1>2. ASSUME NEW i \in 1 .. Len(values)
      PROVE  clean[i] \in PlainText
  <2>1. values[i] \in Text /\ i \in DOMAIN values
    BY ElementOfSeq
  <2>2. QED
    BY <2>1, CleanIsPlain
<1>3. AtPlaces(clean, {i \in DOMAIN values : clean[i] # ""}) \in Seq(PlainText)
  <2> HIDE DEF clean
  <2>1. QED
    BY <1>1, <1>2, OfThePlaces
<1>4. QED
  BY <1>3 DEF Cleaned

\* Nor are the two dates of a range.
LEMMA DatesArePlain ==
  ASSUME NEW start \in Text, NEW end \in Text
  PROVE  CleanDate(start, end) \in Seq(PlainText)
<1>1. Clean(start) \in PlainText /\ Clean(end) \in PlainText
  BY CleanIsPlain
<1>2. \A t, u \in PlainText :
        <<t, u>> \in Seq(PlainText) /\ <<t>> \in Seq(PlainText) /\ <<>> \in Seq(PlainText)
  OBVIOUS
<1>3. QED
  BY <1>1, <1>2, Zenon DEF CleanDate

\* The only date of a certificate: the list of one text that the DOCX service makes by hand.
LEMMA CleanedOne ==
  ASSUME NEW v
  PROVE  Cleaned(<<v>>) = IF Clean(v) = "" THEN <<>> ELSE <<Clean(v)>>
<1> DEFINE values == <<v>>
           clean  == [i \in DOMAIN values |-> Clean(values[i])]
           places == {i \in DOMAIN values : clean[i] # ""}
           seqs   == [i \in DOMAIN clean |-> IF i \in places THEN <<clean[i]>> ELSE <<>>]
           one    == IF Clean(v) = "" THEN <<>> ELSE <<Clean(v)>>
<1>1. DOMAIN values = {1} /\ DOMAIN clean = {1} /\ clean[1] = Clean(v)
  OBVIOUS
<1>2. 1 \in places <=> Clean(v) # ""
  BY <1>1
<1>3. seqs = [i \in {1} |-> one]
  BY <1>1, <1>2
<1>4. seqs = <<one>>
  <2>1. <<one>> = [i \in {1} |-> one]
    <3> HIDE DEF one
    <3>1. QED
      OBVIOUS
  <2> HIDE DEF seqs, one
  <2>2. QED
    BY <1>3, <2>1
<1>5. FlattenSeq(seqs) = one
  <2> HIDE DEF seqs, one
  <2>1. QED
    BY <1>4, FlattenedOne
<1>6. QED
  BY <1>5 DEF Cleaned, AtPlaces

(***************************************************************************)
(* The two services agree on every resume, whether or not it is valid.     *)
(***************************************************************************)
LEMMA SamePaper ==
  ASSUME NEW d
  PROVE  Pdf(d) = Docx(d)
<1>1. PdfExperience(d) = FlattenSeq([i \in DOMAIN d.experience |-> DocxRole(d.experience[i])])
  BY Zenon DEF PdfExperience, DocxRole
<1>2. PdfEducation(d) = FlattenSeq([i \in DOMAIN d.education |-> DocxSchool(d.education[i])])
  BY Zenon DEF PdfEducation, DocxSchool
<1>3. PdfCertifications(d) = [i \in DOMAIN d.certifications |-> DocxCertificate(d.certifications[i])]
  <2>1. ASSUME NEW cert
        PROVE  DocxCertificate(cert)
                 = Line("certificate", <<Clean(cert.name), Clean(cert.issuer)>> \o Cleaned(<<cert.date>>))
    <3>1. Cleaned(<<cert.date>>) = IF Clean(cert.date) = "" THEN <<>> ELSE <<Clean(cert.date)>>
      BY CleanedOne
    <3>2. QED
      BY <3>1, Zenon DEF DocxCertificate
  <2>2. QED
    BY <2>1, Zenon DEF PdfCertifications
<1>4. QED
  BY <1>1, <1>2, <1>3, Zenon DEF Pdf, Docx, PdfHeader, PdfSkills

(***************************************************************************)
(* A line on which a placeholder of the model can stand is one that is     *)
(* printed as it is.                                                       *)
(***************************************************************************)
LineKind == {"section", "name", "contact", "text", "entry", "context", "highlight", "skills",
             "certificate"}
AsItIs(d, line) ==
  "UNKNOWN" \in Range(line.says) =>
    line.is \in {"name", "highlight", "skills"} \/ line.says = <<d.summary>>
FineLine(d) == {line \in [is : LineKind, says : Seq(PaperText)] : AsItIs(d, line)}

\* A line of such texts is fine, whatever it is for.
LEMMA PlainLine ==
  ASSUME NEW d, NEW kind \in LineKind, NEW texts \in Seq(PlainText)
  PROVE  Line(kind, texts) \in FineLine(d)
<1>1. texts \in Seq(PaperText)
  BY DEF PlainText
<1>2. "UNKNOWN" \notin Range(texts)
  <2>1. ASSUME NEW i \in DOMAIN texts
        PROVE  texts[i] # "UNKNOWN"
    BY ElementOfSeq DEF PlainText
  <2>2. QED
    BY <2>1 DEF Range
<1> DEFINE line == Line(kind, texts)
<1>3. line \in [is : LineKind, says : Seq(PaperText)] /\ line.says = texts
  BY <1>1 DEF Line
<1> HIDE DEF line
<1>4. line \in FineLine(d)
  BY <1>2, <1>3, Zenon DEF FineLine, AsItIs
<1>5. QED
  BY <1>4 DEF line

\* A name, a highlight and the skills are printed as they are.
LEMMA FreeLine ==
  ASSUME NEW d, NEW kind \in {"name", "highlight", "skills"}, NEW texts \in Seq(PaperText)
  PROVE  Line(kind, texts) \in FineLine(d)
<1> DEFINE line == Line(kind, texts)
<1>1. line \in [is : LineKind, says : Seq(PaperText)] /\ line.is = kind
  BY DEF Line, LineKind
<1> HIDE DEF line
<1>2. line \in FineLine(d)
  BY <1>1, Zenon DEF FineLine, AsItIs
<1>3. QED
  BY <1>2 DEF line

\* A section is fine when its lines are.
LEMMA SectionIsFine ==
  ASSUME NEW d, NEW title \in PlainText, NEW lines \in Seq(FineLine(d))
  PROVE  Section(title, lines) \in Seq(FineLine(d))
<1>1. <<title>> \in Seq(PlainText) /\ "section" \in LineKind
  BY DEF LineKind
<1>2. Line("section", <<title>>) \in FineLine(d)
  BY <1>1, PlainLine
<1>3. <<Line("section", <<title>>)>> \in Seq(FineLine(d)) /\ <<>> \in Seq(FineLine(d))
  BY <1>2
<1>4. <<Line("section", <<title>>)>> \o lines \in Seq(FineLine(d))
  BY <1>3, ConcatProperties
<1>5. QED
  BY <1>3, <1>4, Zenon DEF Section

\* The header: the name, and the ways to reach somebody.
LEMMA HeaderIsFine ==
  ASSUME NEW d \in ResumeData
  PROVE  PdfHeader(d) \in Seq(FineLine(d))
<1>1. d.name \in PaperText /\ d.ways \in Seq(Text)
  BY DEF ResumeData, PaperText
<1>2. Line("name", <<d.name>>) \in FineLine(d)
  <2>1. <<d.name>> \in Seq(PaperText)
    BY <1>1
  <2>2. QED
    BY <2>1, FreeLine
<1>3. Line("contact", Cleaned(d.ways)) \in FineLine(d)
  <2>1. "contact" \in LineKind
    BY DEF LineKind
  <2>2. QED
    BY <1>1, <2>1, CleanedArePlain, PlainLine
<1>4. /\ <<Line("name", <<d.name>>)>> \in Seq(FineLine(d))
      /\ <<Line("contact", Cleaned(d.ways))>> \in Seq(FineLine(d))
      /\ <<>> \in Seq(FineLine(d))
  BY <1>2, <1>3
<1>5. (IF Cleaned(d.ways) = <<>> THEN <<>> ELSE <<Line("contact", Cleaned(d.ways))>>)
        \in Seq(FineLine(d))
  BY <1>4
<1>6. <<Line("name", <<d.name>>)>>
        \o (IF Cleaned(d.ways) = <<>> THEN <<>> ELSE <<Line("contact", Cleaned(d.ways))>>)
        \in Seq(FineLine(d))
  BY <1>4, <1>5, ConcatProperties
<1>7. QED
  BY <1>6, Zenon DEF PdfHeader

\* The summary.
LEMMA SummaryIsFine ==
  ASSUME NEW d \in ResumeData
  PROVE  Optional("text", d.summary) \in Seq(FineLine(d))
<1>1. d.summary \in PaperText
  BY DEF ResumeData, PaperText
<1> DEFINE line == Line("text", <<d.summary>>)
<1>2. line \in [is : LineKind, says : Seq(PaperText)] /\ line.says = <<d.summary>>
  BY <1>1 DEF Line, LineKind
<1> HIDE DEF line
<1>3. line \in FineLine(d)
  BY <1>2, Zenon DEF FineLine, AsItIs
<1>4. <<line>> \in Seq(FineLine(d)) /\ <<>> \in Seq(FineLine(d))
  BY <1>3
<1>5. QED
  BY <1>4, Zenon DEF Optional, line

\* A role of the experience, with its highlights.
LEMMA RoleIsFine ==
  ASSUME NEW d,
         NEW exp \in [title : Text, company : Text, start : Text, end : Text,
                      current : BOOLEAN, description : Text, highlights : Seq(Text)]
  PROVE  DocxRole(exp) \in Seq(FineLine(d))
<1>1. /\ exp.title \in Text /\ exp.company \in Text /\ exp.start \in Text /\ exp.end \in Text
      /\ exp.description \in Text /\ exp.highlights \in Seq(Text)
  OBVIOUS
<1>2. \A t, u \in PlainText :
        <<t, u>> \in Seq(PlainText) /\ <<t>> \in Seq(PlainText) /\ <<>> \in Seq(PlainText)
  OBVIOUS
<1>3. "Present" \in PlainText /\ {"entry", "context"} \subseteq LineKind
  BY DEF PlainText, PaperText, LineKind
<1> DEFINE dateRange == IF exp.current THEN <<Clean(exp.start), "Present">>
                        ELSE CleanDate(exp.start, exp.end)
<1>4. dateRange \in Seq(PlainText)
  <2>1. <<Clean(exp.start), "Present">> \in Seq(PlainText)
    BY <1>1, <1>2, <1>3, CleanIsPlain
  <2>2. CleanDate(exp.start, exp.end) \in Seq(PlainText)
    BY <1>1, DatesArePlain
  <2>3. QED
    BY <2>1, <2>2
<1> HIDE DEF dateRange
<1> DEFINE entry     == Line("entry", <<Clean(exp.title), Clean(exp.company)>> \o dateRange)
           context   == Optional("context", Clean(exp.description))
           highlight == [h \in DOMAIN exp.highlights |-> Line("highlight", <<exp.highlights[h]>>)]
<1>5. <<entry>> \in Seq(FineLine(d))
  <2>1. <<Clean(exp.title), Clean(exp.company)>> \in Seq(PlainText)
    BY <1>1, <1>2, CleanIsPlain
  <2>2. <<Clean(exp.title), Clean(exp.company)>> \o dateRange \in Seq(PlainText)
    BY <1>4, <2>1, ConcatProperties
  <2>3. entry \in FineLine(d)
    BY <1>3, <2>2, PlainLine
  <2> HIDE DEF entry
  <2>4. QED
    BY <2>3
<1>6. context \in Seq(FineLine(d))
  <2>1. <<Clean(exp.description)>> \in Seq(PlainText)
    BY <1>1, <1>2, CleanIsPlain
  <2>2. Line("context", <<Clean(exp.description)>>) \in FineLine(d)
    BY <1>3, <2>1, PlainLine
  <2>3. <<Line("context", <<Clean(exp.description)>>)>> \in Seq(FineLine(d))
        /\ <<>> \in Seq(FineLine(d))
    BY <2>2
  <2>4. QED
    BY <2>3, Zenon DEF Optional
<1>7. highlight \in Seq(FineLine(d))
  <2>1. ASSUME NEW h \in 1 .. Len(exp.highlights)
        PROVE  Line("highlight", <<exp.highlights[h]>>) \in FineLine(d)
    <3>1. exp.highlights[h] \in PaperText
      BY <1>1, ElementOfSeq DEF PaperText
    <3>2. <<exp.highlights[h]>> \in Seq(PaperText)
      BY <3>1
    <3>3. QED
      BY <3>2, FreeLine
  <2>2. DOMAIN exp.highlights = 1 .. Len(exp.highlights) /\ Len(exp.highlights) \in Nat
    BY <1>1
  <2>3. highlight \in [1 .. Len(exp.highlights) -> FineLine(d)]
    BY <2>1, <2>2
  <2> HIDE DEF highlight
  <2>4. QED
    BY <2>2, <2>3, SeqDef
<1> HIDE DEF entry, context, highlight
<1>8. <<entry>> \o context \o highlight \in Seq(FineLine(d))
  BY <1>5, <1>6, <1>7, ConcatProperties
<1>9. QED
  BY <1>8, Zenon DEF DocxRole, entry, context, highlight, dateRange

\* An entry of the education.
LEMMA SchoolIsFine ==
  ASSUME NEW d,
         NEW edu \in [degree : Text, field : Text, institution : Text, start : Text, end : Text]
  PROVE  DocxSchool(edu) \in Seq(FineLine(d))
<1>1. /\ edu.degree \in Text /\ edu.field \in Text /\ edu.institution \in Text
      /\ edu.start \in Text /\ edu.end \in Text
  OBVIOUS
<1>2. \A t, u \in PlainText : <<t, u>> \in Seq(PlainText) /\ <<t>> \in Seq(PlainText)
  OBVIOUS
<1>3. {"entry", "text"} \subseteq LineKind
  BY DEF LineKind
<1>4. <<Clean(edu.degree), Clean(edu.field)>> \o CleanDate(edu.start, edu.end) \in Seq(PlainText)
  <2>1. <<Clean(edu.degree), Clean(edu.field)>> \in Seq(PlainText)
    BY <1>1, <1>2, CleanIsPlain
  <2>2. QED
    BY <1>1, <2>1, DatesArePlain, ConcatProperties
<1> DEFINE entry == Line("entry", <<Clean(edu.degree), Clean(edu.field)>> \o CleanDate(edu.start, edu.end))
           text  == Line("text", <<Clean(edu.institution)>>)
<1>5. entry \in FineLine(d)
  BY <1>3, <1>4, PlainLine
<1>6. text \in FineLine(d)
  <2>1. <<Clean(edu.institution)>> \in Seq(PlainText)
    BY <1>1, <1>2, CleanIsPlain
  <2>2. QED
    BY <1>3, <2>1, PlainLine
<1> HIDE DEF entry, text
<1>7. <<entry, text>> \in Seq(FineLine(d))
  BY <1>5, <1>6
<1>8. QED
  BY <1>7, Zenon DEF DocxSchool, entry, text

\* A certificate.
LEMMA CertificateIsFine ==
  ASSUME NEW d, NEW cert \in [name : Text, issuer : Text, date : Text]
  PROVE  DocxCertificate(cert) \in FineLine(d)
<1>1. cert.name \in Text /\ cert.issuer \in Text /\ cert.date \in Text
  OBVIOUS
<1>2. \A t, u \in PlainText :
        <<t, u>> \in Seq(PlainText) /\ <<t>> \in Seq(PlainText) /\ <<>> \in Seq(PlainText)
  OBVIOUS
<1>3. "certificate" \in LineKind
  BY DEF LineKind
<1> DEFINE issued == IF Clean(cert.date) = "" THEN <<>> ELSE <<Clean(cert.date)>>
<1>4. issued \in Seq(PlainText)
  BY <1>1, <1>2, CleanIsPlain
<1> HIDE DEF issued
<1>5. <<Clean(cert.name), Clean(cert.issuer)>> \in Seq(PlainText)
  BY <1>1, <1>2, CleanIsPlain
<1>6. <<Clean(cert.name), Clean(cert.issuer)>> \o issued \in Seq(PlainText)
  BY <1>4, <1>5, ConcatProperties
<1>7. Line("certificate", <<Clean(cert.name), Clean(cert.issuer)>> \o issued) \in FineLine(d)
  BY <1>3, <1>6, PlainLine
<1>8. QED
  BY <1>7, Zenon DEF DocxCertificate, issued

\* A list of skills by category has the names of skills and of categories only.
LEMMA GroupsAreTexts ==
  ASSUME NEW skills \in Seq([name : Text, category : Text])
  PROVE  ByCategory(skills) \in Seq(Seq(PaperText))
<1> DEFINE n == Len(skills)
           Same(i) == {j \in DOMAIN skills : skills[j].category = skills[i].category}
           names == [j \in DOMAIN skills |-> skills[j].name]
           Group(i) == <<skills[i].category>> \o AtPlaces(names, Same(i))
           groups == [i \in DOMAIN skills |-> Group(i)]
           first == {i \in DOMAIN skills : \A j \in Same(i) : i <= j}
<1>1. DOMAIN skills = 1 .. n /\ n \in Nat
  OBVIOUS
<1>2. \A i \in 1 .. n : skills[i].name \in PaperText /\ skills[i].category \in PaperText
  <2>1. \A i \in 1 .. n : skills[i] \in [name : Text, category : Text]
    BY ElementOfSeq
  <2>2. QED
    BY <2>1 DEF PaperText
<1>3. DOMAIN names = 1 .. n /\ \A i \in 1 .. n : names[i] \in PaperText
  BY <1>1, <1>2
<1> HIDE DEF n
<1>4. ASSUME NEW i \in 1 .. n
      PROVE  Group(i) \in Seq(PaperText)
  <2> HIDE DEF names
  <2>1. AtPlaces(names, Same(i)) \in Seq(PaperText)
    <3> HIDE DEF Same
    <3>1. QED
      BY <1>1, <1>3, OfThePlaces
  <2>2. <<skills[i].category>> \in Seq(PaperText)
    BY <1>2
  <2>3. QED
    BY <2>1, <2>2, ConcatProperties
<1>5. DOMAIN groups = 1 .. n /\ \A i \in 1 .. n : groups[i] \in Seq(PaperText)
  <2> HIDE DEF Group
  <2>1. QED
    BY <1>1, <1>4
<1>6. AtPlaces(groups, first) \in Seq(Seq(PaperText))
  <2> HIDE DEF groups, first
  <2>1. QED
    BY <1>1, <1>5, OfThePlaces
<1>7. QED
  BY <1>6, Zenon DEF ByCategory

\* All of it: each service prints fine lines only.
LEMMA PaperIsFine ==
  ASSUME NEW d \in ResumeData
  PROVE  Docx(d) \in Seq(FineLine(d))
<1>1. /\ d.experience \in Seq([title : Text, company : Text, start : Text, end : Text,
                               current : BOOLEAN, description : Text, highlights : Seq(Text)])
      /\ d.education \in Seq([degree : Text, field : Text, institution : Text,
                              start : Text, end : Text])
      /\ d.skills \in Seq([name : Text, category : Text])
      /\ d.certifications \in Seq([name : Text, issuer : Text, date : Text])
  BY DEF ResumeData
<1>2. {"Professional Summary", "Experience", "Education", "Skills", "Certifications"}
        \subseteq PlainText
  BY DEF PlainText, PaperText
<1>3. PdfHeader(d) \in Seq(FineLine(d))
  BY HeaderIsFine
<1>4. Section("Professional Summary", Optional("text", d.summary)) \in Seq(FineLine(d))
  BY <1>2, SummaryIsFine, SectionIsFine
<1> DEFINE roles == [i \in DOMAIN d.experience |-> DocxRole(d.experience[i])]
           schools == [i \in DOMAIN d.education |-> DocxSchool(d.education[i])]
           groups == ByCategory(d.skills)
           skills == [i \in DOMAIN groups |-> Line("skills", groups[i])]
           certificates == [i \in DOMAIN d.certifications |-> DocxCertificate(d.certifications[i])]
<1>5. Section("Experience", FlattenSeq(roles)) \in Seq(FineLine(d))
  <2>1. \A i \in 1 .. Len(d.experience) : DocxRole(d.experience[i]) \in Seq(FineLine(d))
    BY <1>1, RoleIsFine, ElementOfSeq
  <2>2. DOMAIN d.experience = 1 .. Len(d.experience) /\ Len(d.experience) \in Nat
    BY <1>1
  <2>3. roles \in [1 .. Len(d.experience) -> Seq(FineLine(d))]
    BY <2>1, <2>2
  <2> HIDE DEF roles
  <2>4. FlattenSeq(roles) \in Seq(FineLine(d))
    BY <2>2, <2>3, SeqDef, Flattened
  <2>5. QED
    BY <1>2, <2>4, SectionIsFine
<1>6. Section("Education", FlattenSeq(schools)) \in Seq(FineLine(d))
  <2>1. \A i \in 1 .. Len(d.education) : DocxSchool(d.education[i]) \in Seq(FineLine(d))
    BY <1>1, SchoolIsFine, ElementOfSeq
  <2>2. DOMAIN d.education = 1 .. Len(d.education) /\ Len(d.education) \in Nat
    BY <1>1
  <2>3. schools \in [1 .. Len(d.education) -> Seq(FineLine(d))]
    BY <2>1, <2>2
  <2> HIDE DEF schools
  <2>4. FlattenSeq(schools) \in Seq(FineLine(d))
    BY <2>2, <2>3, SeqDef, Flattened
  <2>5. QED
    BY <1>2, <2>4, SectionIsFine
<1>7. Section("Skills", skills) \in Seq(FineLine(d))
  <2>1. groups \in Seq(Seq(PaperText))
    BY <1>1, GroupsAreTexts
  <2> HIDE DEF groups
  <2>2. \A i \in 1 .. Len(groups) : Line("skills", groups[i]) \in FineLine(d)
    BY <2>1, FreeLine, ElementOfSeq
  <2>3. DOMAIN groups = 1 .. Len(groups) /\ Len(groups) \in Nat
    BY <2>1
  <2>4. skills \in [1 .. Len(groups) -> FineLine(d)]
    BY <2>2, <2>3
  <2> HIDE DEF skills
  <2>5. QED
    BY <1>2, <2>3, <2>4, SeqDef, SectionIsFine
<1>8. Section("Certifications", certificates) \in Seq(FineLine(d))
  <2>1. \A i \in 1 .. Len(d.certifications) :
          DocxCertificate(d.certifications[i]) \in FineLine(d)
    BY <1>1, CertificateIsFine, ElementOfSeq
  <2>2. DOMAIN d.certifications = 1 .. Len(d.certifications) /\ Len(d.certifications) \in Nat
    BY <1>1
  <2>3. certificates \in [1 .. Len(d.certifications) -> FineLine(d)]
    BY <2>1, <2>2
  <2> HIDE DEF certificates
  <2>4. QED
    BY <1>2, <2>2, <2>3, SeqDef, SectionIsFine
<1> DEFINE a == PdfHeader(d)
           b == Section("Professional Summary", Optional("text", d.summary))
           c == Section("Experience", FlattenSeq(roles))
           e == Section("Education", FlattenSeq(schools))
           f == Section("Skills", skills)
           g == Section("Certifications", certificates)
<1>9. Docx(d) = a \o b \o c \o e \o f \o g
  BY Zenon DEF Docx, PdfHeader
<1> HIDE DEF a, b, c, e, f, g
<1>10. a \o b \o c \o e \o f \o g \in Seq(FineLine(d))
  <2>1. a \in Seq(FineLine(d)) /\ b \in Seq(FineLine(d)) /\ c \in Seq(FineLine(d))
        /\ e \in Seq(FineLine(d)) /\ f \in Seq(FineLine(d)) /\ g \in Seq(FineLine(d))
    BY <1>3, <1>4, <1>5, <1>6, <1>7, <1>8, Zenon DEF a, b, c, e, f, g
  <2>2. QED
    BY <2>1, ConcatProperties
<1>11. QED
  BY <1>9, <1>10, Zenon

\* No placeholder of the model on the paper of any resume, but where it is printed as it is.
LEMMA PaperIsAsItIs ==
  ASSUME NEW d \in ResumeData, NEW line \in Range(Pdf(d)) \cup Range(Docx(d))
  PROVE  AsItIs(d, line)
<1>1. line \in Range(Docx(d))
  BY SamePaper, Zenon
<1>2. PICK i \in DOMAIN Docx(d) : line = Docx(d)[i]
  BY <1>1, Zenon DEF Range
<1>3. Docx(d)[i] \in FineLine(d)
  BY <1>2, PaperIsFine, ElementOfSeq
<1>4. QED
  BY <1>2, <1>3, Zenon DEF FineLine

-------------------------------------------------------------------------------
(* The rows, the page and the comparison. *)

Place == {<<"summary">>, <<"skills">>} \cup ({"experience"} \X Nat \X Nat)

RewrittenRow ==
  [status : {"none", "complete", "deleted"}, data : ResumeData, log : SUBSET Place]

\* What is in the rows is a valid resume.
RowsInv ==
  /\ resumeRow \in [status : {"parsing", "complete", "deleted"}, data : ResumeData]
  /\ resumeRow.status # "parsing" => IsResumeData(resumeRow.data)
  /\ rewritten \in [AtsScore -> RewrittenRow]
  /\ \A s \in AtsScore : rewritten[s].status = "none" \/ IsResumeData(rewritten[s].data)

\* What is on the page has been read from rows that have at most been deleted since.
OffersInv ==
  /\ pageReady \in BOOLEAN /\ exportError \in BOOLEAN
  /\ pageReady => resumeRow.status # "parsing"
  /\ exportable \subseteq AtsScore /\ (~pageReady => exportable = {})
  /\ \A s \in exportable : rewritten[s].status # "none"
  /\ selectedExport \in {"original"} \cup exportable
  /\ exports \in [Format -> [at : {"none", "sent", "printed", "refused"},
                             of : {"original"} \cup exportable]]
  /\ \A f \in Format : exports[f].at # "none" => pageReady
  /\ OffersAreGood

ExportInv == RowsInv /\ OffersInv

\* The row starts with a blank resume.
LEMMA BlankIsResumeData == Blank \in ResumeData
<1>1. "" \in Text
  BY ResumeExportAssumption
<1>2. <<"">> \in Seq(Text) \ {<<>>}
  <2>1. ASSUME NEW v \in Text PROVE <<v>> \in Seq(Text) \ {<<>>}
    OBVIOUS
  <2>2. QED
    BY <1>1, <2>1, Zenon
<1>3. \A S : <<>> \in Seq(S)
  OBVIOUS
<1>4. QED
  BY <1>1, <1>2, <1>3 DEF Blank, ResumeData

\* The places of the highlights of a resume.
LEMMA HighlightsArePlaces ==
  ASSUME NEW d \in ResumeData
  PROVE  Highlights(d) \subseteq {"experience"} \X (1 .. Len(d.experience)) \X Nat
<1>1. d.experience \in Seq([title : Text, company : Text, start : Text, end : Text,
                            current : BOOLEAN, description : Text, highlights : Seq(Text)])
  BY DEF ResumeData
<1>2. DOMAIN d.experience = 1 .. Len(d.experience)
  BY <1>1
<1>3. ASSUME NEW i \in 1 .. Len(d.experience)
      PROVE  DOMAIN d.experience[i].highlights \subseteq Nat
  <2>1. d.experience[i] \in [title : Text, company : Text, start : Text, end : Text,
                             current : BOOLEAN, description : Text, highlights : Seq(Text)]
    BY <1>1, ElementOfSeq
  <2>2. d.experience[i].highlights \in Seq(Text)
    BY <2>1
  <2>3. QED
    BY <2>2
<1>4. QED
  BY <1>2, <1>3 DEF Highlights

\* The change log names places of the new resume.
LEMMA LogIsPlaces ==
  ASSUME NEW old, NEW new \in ResumeData
  PROVE  HonestLog(old, new) \subseteq Place
<1>1. Len(new.experience) \in Nat
  <2>1. new.experience \in Seq([title : Text, company : Text, start : Text, end : Text,
                            current : BOOLEAN, description : Text, highlights : Seq(Text)])
    BY DEF ResumeData
  <2>2. QED
    BY <2>1
<1>2. Highlights(new) \subseteq {"experience"} \X Nat \X Nat
  BY <1>1, HighlightsArePlaces
<1>3. QED
  BY <1>2 DEF HonestLog, Place

\* The invariant holds at the start ...
LEMMA ExportInit ==
  ASSUME ResumeExportInit
  PROVE  ExportInv
<1>1. resumeRow \in [status : {"parsing", "complete", "deleted"}, data : ResumeData]
      /\ resumeRow.status = "parsing"
  BY BlankIsResumeData DEF ResumeExportInit
<1>2. rewritten \in [AtsScore -> RewrittenRow] /\ \A s \in AtsScore : rewritten[s].status = "none"
  BY BlankIsResumeData DEF ResumeExportInit, RewrittenRow
<1>3. /\ exports \in [Format -> [at : {"none", "sent", "printed", "refused"},
                                 of : {"original"} \cup exportable]]
      /\ \A f \in Format : exports[f].at = "none"
  BY DEF ResumeExportInit, NoExport
<1>4. /\ pageReady = FALSE /\ exportError = FALSE /\ exportable = {}
      /\ selectedExport = "original"
  BY DEF ResumeExportInit
<1>5. OffersAreGood
  BY <1>3 DEF OffersAreGood
<1>6. QED
  BY <1>1, <1>2, <1>3, <1>4, <1>5 DEF ExportInv, RowsInv, OffersInv

\* Rows are filled once and deleted once.
RowsMove ==
  /\ resumeRow.status # "parsing" => resumeRow'.status # "parsing"
  /\ resumeRow.status = "deleted" => resumeRow'.status = "deleted"
  /\ \A s \in AtsScore :
       /\ rewritten[s].status # "none" => rewritten'[s].status # "none"
       /\ rewritten[s].status = "deleted" => rewritten'[s].status = "deleted"

\* ... and extraction,
LEMMA ExtractionKept ==
  ASSUME RowsInv, ExtractResume
  PROVE  RowsInv' /\ RowsMove
<1>1. PICK d \in Resumes : IsResumeData(d) /\ resumeRow' = [status |-> "complete", data |-> d]
  BY Zenon DEF ExtractResume
<1>2. d \in ResumeData
  BY ResumeExportAssumption
<1>3. /\ resumeRow' \in [status : {"parsing", "complete", "deleted"}, data : ResumeData]
      /\ resumeRow'.status = "complete" /\ resumeRow'.data = d
  BY <1>1, <1>2
<1>4. rewritten' = rewritten /\ resumeRow.status = "parsing"
  BY DEF ExtractResume
<1>5. IsResumeData(resumeRow'.data)
  BY <1>1, <1>3, Zenon
<1>6. QED
  BY <1>3, <1>4, <1>5 DEF RowsInv, RowsMove

\* a rewriting,
LEMMA RewritingKept ==
  ASSUME RowsInv, NEW s \in AtsScore, OptimizeResume(s)
  PROVE  RowsInv' /\ RowsMove
<1>1. PICK d \in Rewrites, kept \in BOOLEAN :
        /\ IsResumeData(d)
        /\ rewritten' = [rewritten EXCEPT ![s] =
             [status |-> "complete", data |-> d,
              log |-> IF kept THEN HonestLog(resumeRow.data, d) ELSE {}]]
  BY Zenon DEF OptimizeResume
<1>2. d \in ResumeData
  BY ResumeExportAssumption
<1>3. PICK log \in SUBSET Place : log = IF kept THEN HonestLog(resumeRow.data, d) ELSE {}
  BY <1>2, LogIsPlaces
<1>4. PICK row \in RewrittenRow : row.status = "complete" /\ row.data = d
                                  /\ rewritten' = [rewritten EXCEPT ![s] = row]
  <2> DEFINE row == [status |-> "complete", data |-> d, log |-> log]
  <2>1. row \in RewrittenRow /\ row.status = "complete" /\ row.data = d
    BY <1>2, <1>3 DEF RewrittenRow
  <2>2. rewritten' = [rewritten EXCEPT ![s] = row]
    BY <1>1, <1>3
  <2> HIDE DEF row
  <2>3. QED
    BY <2>1, <2>2
<1>5. IsResumeData(row.data)
  BY <1>1, <1>4, Zenon
<1>6. resumeRow' = resumeRow /\ rewritten[s].status = "none"
  BY DEF OptimizeResume
<1>7. QED
  BY <1>4, <1>5, <1>6 DEF RowsInv, RowsMove

\* and a deletion keep its part about the rows.
LEMMA DeletionKept ==
  ASSUME RowsInv, DeleteElsewhere
  PROVE  RowsInv' /\ RowsMove
<1>1. CASE resumeRow.status = "complete" /\ resumeRow' = [resumeRow EXCEPT !.status = "deleted"]
           /\ UNCHANGED rewritten
  <2>1. resumeRow \in [status : {"parsing", "complete", "deleted"}, data : ResumeData]
        /\ IsResumeData(resumeRow.data)
    BY <1>1 DEF RowsInv
  <2>2. /\ resumeRow' \in [status : {"parsing", "complete", "deleted"}, data : ResumeData]
        /\ resumeRow'.status = "deleted" /\ resumeRow'.data = resumeRow.data
    BY <1>1, <2>1
  <2>3. IsResumeData(resumeRow'.data)
    BY <2>1, <2>2, Zenon
  <2>4. QED
    BY <1>1, <2>2, <2>3 DEF RowsInv, RowsMove
<1>2. CASE /\ \E s \in AtsScore : rewritten[s].status = "complete"
                                  /\ rewritten' = [rewritten EXCEPT ![s].status = "deleted"]
           /\ UNCHANGED resumeRow
  <2>1. PICK s \in AtsScore : rewritten[s].status = "complete"
                              /\ rewritten' = [rewritten EXCEPT ![s].status = "deleted"]
    BY <1>2
  <2>2. rewritten[s] \in RewrittenRow /\ IsResumeData(rewritten[s].data)
    BY <2>1 DEF RowsInv
  <2>3. PICK row \in RewrittenRow : row.status = "deleted" /\ row.data = rewritten[s].data
                                    /\ rewritten' = [rewritten EXCEPT ![s] = row]
    <3> DEFINE row == [rewritten[s] EXCEPT !.status = "deleted"]
    <3>1. row \in RewrittenRow /\ row.status = "deleted" /\ row.data = rewritten[s].data
      BY <2>2 DEF RewrittenRow
    <3>2. rewritten' = [rewritten EXCEPT ![s] = row]
      BY <2>1
    <3> HIDE DEF row
    <3>3. QED
      BY <3>1, <3>2
  <2>4. IsResumeData(row.data)
    BY <2>2, <2>3, Zenon
  <2>5. QED
    BY <1>2, <2>1, <2>3, <2>4 DEF RowsInv, RowsMove
<1>3. QED
  BY <1>1, <1>2, Zenon DEF DeleteElsewhere

\* The page changes no row.
LEMMA PageKeepsRows ==
  ASSUME RowsInv, UNCHANGED <<resumeRow, rewritten>>
  PROVE  RowsInv' /\ RowsMove
BY Zenon DEF RowsInv, RowsMove

\* The page's offers survive what happens to the rows ...
LEMMA OffersSurvive ==
  ASSUME OffersInv, RowsMove,
         UNCHANGED <<pageReady, exportable, selectedExport, exports, exportError>>
  PROVE  OffersInv'
<1>1. \A f \in Format : exports[f].of # "original" => exports[f].of \in AtsScore
  BY DEF OffersInv
<1>2. OffersAreGood'
  BY <1>1 DEF OffersInv, OffersAreGood, RowsMove
<1>3. pageReady' => resumeRow'.status # "parsing"
  BY DEF OffersInv, RowsMove
<1>4. \A s \in exportable' : rewritten'[s].status # "none"
  BY DEF OffersInv, RowsMove
<1>5. QED
  BY <1>2, <1>3, <1>4 DEF OffersInv

\* ... and are made from them.
LEMMA ListingKept ==
  ASSUME RowsInv, OffersInv, ListOptimizations
  PROVE  OffersInv'
<1>1. /\ ~pageReady /\ resumeRow.status = "complete" /\ pageReady' = TRUE
      /\ exportable' = {s \in AtsScore : rewritten[s].status = "complete"}
      /\ rewritten' = rewritten /\ selectedExport' = selectedExport /\ exports' = exports
      /\ exportError' = exportError /\ resumeRow' = resumeRow
  BY DEF ListOptimizations
<1>2. OffersAreGood'
  BY <1>1 DEF OffersInv, OffersAreGood
<1>3. selectedExport = "original" /\ exportable = {}
  BY <1>1 DEF OffersInv
<1>4. exports \in [Format -> [at : {"none", "sent", "printed", "refused"},
                              of : {"original"} \cup exportable']]
  BY <1>3 DEF OffersInv
<1>5. QED
  BY <1>1, <1>2, <1>3, <1>4 DEF OffersInv

\* The part about the page: another choice keeps it,
LEMMA SelectionKept ==
  ASSUME OffersInv, NEW x \in Source, SelectExport(x)
  PROVE  OffersInv'
<1>1. OffersAreGood'
  BY DEF OffersInv, OffersAreGood, SelectExport
<1>2. QED
  BY <1>1 DEF OffersInv, SelectExport

\* An export moves: what it becomes is as good as what is asked of it here.
LEMMA ExportMoves ==
  ASSUME OffersInv, NEW f \in Format, NEW e,
         e \in [at : {"none", "sent", "printed", "refused"}, of : {"original"} \cup exportable],
         e.at # "none" => pageReady,
         e.at = "refused" =>
           IF e.of = "original" THEN resumeRow.status = "deleted"
           ELSE rewritten[e.of].status = "deleted",
         exports' = [exports EXCEPT ![f] = e],
         exportError' \in BOOLEAN,
         UNCHANGED <<resumeRow, rewritten, pageReady, exportable, selectedExport>>
  PROVE  OffersInv'
<1>1. /\ exports' \in [Format -> [at : {"none", "sent", "printed", "refused"},
                                  of : {"original"} \cup exportable]]
      /\ exports'[f] = e /\ \A g \in Format \ {f} : exports'[g] = exports[g]
  BY DEF OffersInv
<1>2. OffersAreGood'
  BY <1>1 DEF OffersInv, OffersAreGood
<1>3. \A g \in Format : exports'[g].at # "none" => pageReady'
  BY <1>1 DEF OffersInv
<1>4. QED
  BY <1>1, <1>2, <1>3 DEF OffersInv

\* an export that is asked for,
LEMMA RequestKept ==
  ASSUME OffersInv, NEW f \in Format, HandleExport(f)
  PROVE  OffersInv'
<1> DEFINE e == [at |-> "sent", of |-> selectedExport]
<1>1. e \in [at : {"none", "sent", "printed", "refused"}, of : {"original"} \cup exportable]
      /\ e.at = "sent"
  BY DEF OffersInv
<1>2. /\ pageReady /\ exports' = [exports EXCEPT ![f] = e] /\ exportError' \in BOOLEAN
      /\ UNCHANGED <<resumeRow, rewritten, pageReady, exportable, selectedExport>>
  BY DEF HandleExport
<1> HIDE DEF e
<1>3. QED
  BY <1>1, <1>2, ExportMoves

\* one that is printed or refused,
LEMMA ServiceKept ==
  ASSUME OffersInv, NEW f \in Format, ServeOriginal(f) \/ ServeOptimized(f),
         resumeRow.status \in {"parsing", "complete", "deleted"},
         \A s \in AtsScore : rewritten[s].status \in {"none", "complete", "deleted"}
  PROVE  OffersInv'
<1> DEFINE row == IF exports[f].of = "original" THEN resumeRow ELSE rewritten[exports[f].of]
           e == [exports[f] EXCEPT !.at = IF row.status = "complete" THEN "printed" ELSE "refused"]
<1>1. exports[f] \in [at : {"none", "sent", "printed", "refused"},
                      of : {"original"} \cup exportable]
  BY DEF OffersInv
<1>2. e \in [at : {"none", "sent", "printed", "refused"}, of : {"original"} \cup exportable]
      /\ e.of = exports[f].of /\ (e.at = "refused" => row.status # "complete")
  <2> HIDE DEF row
  <2>1. QED
    BY <1>1
<1>3. exports[f].at = "sent" /\ pageReady
  BY DEF OffersInv, ServeOriginal, ServeOptimized
<1>4. exports' = [exports EXCEPT ![f] = e]
  BY DEF ServeOriginal, ServeOptimized, OffersInv
<1>5. row.status \in {"complete", "deleted"}
  BY <1>1, <1>3 DEF OffersInv
<1>6. /\ UNCHANGED <<resumeRow, rewritten, pageReady, exportable, selectedExport>>
      /\ exportError' \in BOOLEAN
  BY DEF ServeOriginal, ServeOptimized, OffersInv
<1>7. e.at = "refused" =>
        IF e.of = "original" THEN resumeRow.status = "deleted"
        ELSE rewritten[e.of].status = "deleted"
  <2> HIDE DEF e
  <2>1. QED
    BY <1>2, <1>5
<1> HIDE DEF e, row
<1>8. QED
  BY <1>2, <1>3, <1>4, <1>6, <1>7, ExportMoves

\* and one that has come to its end.
LEMMA EndKept ==
  ASSUME OffersInv, NEW f \in Format, ExportEnds(f)
  PROVE  OffersInv'
<1>1. NoExport \in [at : {"none", "sent", "printed", "refused"}, of : {"original"} \cup exportable]
      /\ NoExport.at = "none"
  BY DEF NoExport
<1>2. /\ exports' = [exports EXCEPT ![f] = NoExport] /\ exportError' \in BOOLEAN
      /\ UNCHANGED <<resumeRow, rewritten, pageReady, exportable, selectedExport>>
  BY Zenon DEF ExportEnds, OffersInv
<1>3. QED
  BY <1>1, <1>2, ExportMoves

\* So every step keeps the invariant.
LEMMA ExportStep ==
  ASSUME ExportInv, [ResumeExportNext]_exportVars
  PROVE  ExportInv'
<1>1. RowsInv /\ OffersInv
  BY DEF ExportInv
<1>2. CASE ExtractResume
  <2>1. UNCHANGED <<pageReady, exportable, selectedExport, exports, exportError>>
    BY <1>2 DEF ExtractResume
  <2>2. QED
    BY <1>1, <1>2, <2>1, ExtractionKept, OffersSurvive, Zenon DEF ExportInv
<1>3. CASE DeleteElsewhere
  <2>1. UNCHANGED <<pageReady, exportable, selectedExport, exports, exportError>>
    BY <1>3 DEF DeleteElsewhere
  <2>2. QED
    BY <1>1, <1>3, <2>1, DeletionKept, OffersSurvive, Zenon DEF ExportInv
<1>4. ASSUME NEW s \in AtsScore, OptimizeResume(s)
      PROVE  ExportInv'
  <2>1. UNCHANGED <<pageReady, exportable, selectedExport, exports, exportError>>
    BY <1>4 DEF OptimizeResume
  <2>2. QED
    BY <1>1, <1>4, <2>1, RewritingKept, OffersSurvive, Zenon DEF ExportInv
<1>5. CASE ListOptimizations
  <2>1. UNCHANGED <<resumeRow, rewritten>>
    BY <1>5 DEF ListOptimizations
  <2>2. QED
    BY <1>1, <1>5, <2>1, PageKeepsRows, ListingKept, Zenon DEF ExportInv
<1>6. ASSUME NEW x \in Source, SelectExport(x)
      PROVE  ExportInv'
  <2>1. UNCHANGED <<resumeRow, rewritten>>
    BY <1>6 DEF SelectExport
  <2>2. QED
    BY <1>1, <1>6, <2>1, PageKeepsRows, SelectionKept, Zenon DEF ExportInv
<1>7. ASSUME NEW f \in Format,
             HandleExport(f) \/ ServeOriginal(f) \/ ServeOptimized(f) \/ ExportEnds(f)
      PROVE  ExportInv'
  <2>1. UNCHANGED <<resumeRow, rewritten>>
    BY <1>7 DEF HandleExport, ServeOriginal, ServeOptimized, ExportEnds
  <2>2. /\ resumeRow.status \in {"parsing", "complete", "deleted"}
        /\ \A s \in AtsScore : rewritten[s].status \in {"none", "complete", "deleted"}
    BY <1>1 DEF RowsInv, RewrittenRow
  <2>3. OffersInv'
    BY <1>1, <1>7, <2>2, RequestKept, ServiceKept, EndKept, Zenon
  <2>4. QED
    BY <1>1, <2>1, <2>3, PageKeepsRows, Zenon DEF ExportInv
<1>8. CASE UNCHANGED exportVars
  <2>1. /\ UNCHANGED <<resumeRow, rewritten>>
        /\ UNCHANGED <<pageReady, exportable, selectedExport, exports, exportError>>
    BY <1>8, Zenon DEF exportVars
  <2>2. QED
    BY <1>1, <2>1, PageKeepsRows, OffersSurvive, Zenon DEF ExportInv
<1>9. QED
  BY <1>2, <1>3, <1>4, <1>5, <1>6, <1>7, <1>8, Zenon DEF ResumeExportNext

(***************************************************************************)
(* Under a complete change log the comparison is right, for any two        *)
(* resumes.                                                                *)
(***************************************************************************)
LEMMA ComparisonIsHonest ==
  ASSUME NEW old \in ResumeData, NEW new \in ResumeData, NEW log, log = HonestLog(old, new)
  PROVE  /\ \A place \in DiffShown(old, new) :
              place \in DiffMarked(old, new, log) <=> Differs(old, new, place)
         /\ \A place \in log \ DiffMarked(old, new, log) :
              place[1] = "experience" /\ place[2] > Len(old.experience)
<1>1. Len(old.experience) \in Nat /\ DOMAIN old.experience = 1 .. Len(old.experience)
      /\ Len(new.experience) \in Nat
  <2>1. /\ old.experience \in Seq([title : Text, company : Text, start : Text, end : Text,
                            current : BOOLEAN, description : Text, highlights : Seq(Text)])
        /\ new.experience \in Seq([title : Text, company : Text, start : Text, end : Text,
                            current : BOOLEAN, description : Text, highlights : Seq(Text)])
    BY DEF ResumeData
  <2>2. QED
    BY <2>1
<1>2. Highlights(new) \subseteq {"experience"} \X (1 .. Len(new.experience)) \X Nat
  BY HighlightsArePlaces
<1>3. DiffShown(old, new) \subseteq {<<"summary">>, <<"skills">>} \cup Highlights(new)
  BY DEF DiffShown
<1>4. ASSUME NEW place \in DiffShown(old, new)
      PROVE  place \in DiffMarked(old, new, log) <=> Differs(old, new, place)
  BY <1>3, Zenon DEF DiffMarked, HonestLog
<1>5. ASSUME NEW place \in log \ DiffMarked(old, new, log)
      PROVE  place[1] = "experience" /\ place[2] > Len(old.experience)
  <2>1. /\ place \notin DiffShown(old, new) /\ Differs(old, new, place)
        /\ place \in {<<"summary">>, <<"skills">>} \cup Highlights(new)
    BY <1>5, Zenon DEF DiffMarked, HonestLog
  <2>2. place # <<"skills">>
    BY <2>1 DEF DiffShown
  <2>3. place # <<"summary">>
    <3>1. SUFFICES ASSUME place = <<"summary">> PROVE FALSE
      OBVIOUS
    <3>2. old.summary = "" /\ new.summary = ""
      BY <2>1, <3>1 DEF DiffShown
    <3>3. place[1] = "summary"
      BY <3>1
    <3>4. PlaceIn(old, place) = <<"">> /\ PlaceIn(new, place) = <<"">>
      BY <3>2, <3>3 DEF PlaceIn
    <3>5. QED
      BY <2>1, <3>1, <3>4, Zenon DEF Differs
  <2>4. place \in Highlights(new) /\ place[2] \notin DOMAIN old.experience
    BY <2>1, <2>2, <2>3 DEF DiffShown
  <2>5. PICK i \in 1 .. Len(new.experience), h \in Nat : place = <<"experience", i, h>>
    BY <1>2, <2>4
  <2>6. QED
    BY <1>1, <2>4, <2>5
<1>6. QED
  BY <1>4, <1>5, Zenon

(***************************************************************************)
(* What the page shows, compares and prints of a resume, for every value   *)
(* of the constants.                                                       *)
(***************************************************************************)
LEMMA ExportInvIsEnough ==
  ASSUME ExportInv
  PROVE  ResumeExportTypeOK /\ ExportsAgree
<1>1. /\ resumeRow.data \in ResumeData
      /\ \A s \in AtsScore : rewritten[s].data \in ResumeData
  BY DEF ExportInv, RowsInv, RewrittenRow
<1>2. Printable \subseteq ResumeData
  BY <1>1 DEF Printable
<1>3. ResumeExportTypeOK
  <2>1. /\ resumeRow.status \in {"parsing", "complete", "deleted"}
        /\ resumeRow.status # "parsing" => IsResumeData(resumeRow.data)
        /\ \A s \in AtsScore :
             /\ rewritten[s].status \in {"none", "complete", "deleted"}
             /\ rewritten[s].status = "none" \/ IsResumeData(rewritten[s].data)
    BY DEF ExportInv, RowsInv, RewrittenRow
  <2>2. /\ pageReady \in BOOLEAN /\ exportable \subseteq AtsScore
        /\ selectedExport \in Source
        /\ exports \in [Format -> [at : {"none", "sent", "printed", "refused"}, of : Source]]
        /\ exportError \in BOOLEAN
    BY DEF ExportInv, OffersInv, Source
  <2>3. QED
    BY <2>1, <2>2, Zenon DEF ResumeExportTypeOK
<1>4. SameOnPaper
  BY SamePaper, Zenon DEF SameOnPaper
<1>5. PlaceholdersStayOut
  BY <1>2, PaperIsAsItIs, Zenon DEF PlaceholdersStayOut, AsItIs
<1>6. OffersAreGood
  BY DEF ExportInv, OffersInv
<1>7. DiffIsHonest
  BY <1>1, ComparisonIsHonest, Zenon DEF DiffIsHonest
<1>8. QED
  BY <1>3, <1>4, <1>5, <1>6, <1>7, Zenon DEF ExportsAgree

(***************************************************************************)
(* Every reachable state of the exports is one of their types, whatever    *)
(* texts the resumes are made of.                                          *)
(***************************************************************************)
THEOREM ExportTypeCorrect == ResumeExportSpec => []ResumeExportTypeOK
<1>1. ResumeExportInit => ExportInv
  BY ExportInit
<1>2. ExportInv /\ [ResumeExportNext]_exportVars => ExportInv'
  BY ExportStep
<1>3. ExportInv => ResumeExportTypeOK
  BY ExportInvIsEnough
<1>4. QED
  BY <1>1, <1>2, <1>3, PTL DEF ResumeExportSpec

(***************************************************************************)
(* resume-pdf.service.ts and resume-docx.service.ts, for every resume: the *)
(* two files say the same, a placeholder stands only where texts are       *)
(* printed as they are, the page offers only what can be exported unless   *)
(* it is deleted since, and the diff marks what has changed.               *)
(***************************************************************************)
THEOREM ExportsStay == ResumeExportSpec => []ExportsAgree
<1>1. ResumeExportInit => ExportInv
  BY ExportInit
<1>2. ExportInv /\ [ResumeExportNext]_exportVars => ExportInv'
  BY ExportStep
<1>3. ExportInv => ExportsAgree
  BY ExportInvIsEnough
<1>4. QED
  BY <1>1, <1>2, <1>3, PTL DEF ResumeExportSpec

-------------------------------------------------------------------------------
(* The parts side by side.                                                 *)

\* A behaviour of the instance that TLC checks is one of the part it starts with.
LEMMA OnePartMoves ==
  MCSpec =>
    \/ [](part = "billing") /\ BillingSpec
    \/ [](part = "quota") /\ QuotaSpec
    \/ [](part = "throttler") /\ ThrottlerSpec
    \/ [](part = "budget") /\ AiFillBudgetSpec
    \/ [](part = "versions") /\ ResumeVersionsSpec
    \/ [](part = "export") /\ ResumeExportSpec
    \/ [](part = "tracker") /\ ApplicationsSpec
<1>1. MCSpec /\ part = "billing" => [](part = "billing") /\ BillingSpec
  <2>1. MCInit => BillingInit
    BY Zenon DEF MCInit
  <2>2. part = "billing" /\ [MCNext]_mcVars => (part = "billing")' /\ [BillingNext]_billingVars
    BY Zenon DEF MCNext, mcVars
  <2>3. QED
    BY <2>1, <2>2, PTL DEF MCSpec, BillingSpec
<1>2. MCSpec /\ part = "quota" => [](part = "quota") /\ QuotaSpec
  <2>1. MCInit => QuotaInit
    BY Zenon DEF MCInit
  <2>2. part = "quota" /\ [MCNext]_mcVars => (part = "quota")' /\ [QuotaNext]_quotaVars
    BY Zenon DEF MCNext, mcVars
  <2>3. QED
    BY <2>1, <2>2, PTL DEF MCSpec, QuotaSpec
<1>3. MCSpec /\ part = "throttler" => [](part = "throttler") /\ ThrottlerSpec
  <2>1. MCInit => ThrottlerInit
    BY Zenon DEF MCInit
  <2>2. part = "throttler" /\ [MCNext]_mcVars => (part = "throttler")' /\ [ThrottlerNext]_throttlerVars
    BY Zenon DEF MCNext, mcVars
  <2>3. QED
    BY <2>1, <2>2, PTL DEF MCSpec, ThrottlerSpec
<1>4. MCSpec /\ part = "budget" => [](part = "budget") /\ AiFillBudgetSpec
  <2>1. MCInit => AiFillBudgetInit
    BY Zenon DEF MCInit
  <2>2. part = "budget" /\ [MCNext]_mcVars => (part = "budget")' /\ [AiFillBudgetNext]_fillBudgetVars
    BY Zenon DEF MCNext, mcVars
  <2>3. QED
    BY <2>1, <2>2, PTL DEF MCSpec, AiFillBudgetSpec
<1>5. MCSpec /\ part = "versions" => [](part = "versions") /\ ResumeVersionsSpec
  <2>1. MCInit => ResumeVersionsInit
    BY Zenon DEF MCInit
  <2>2. part = "versions" /\ [MCNext]_mcVars => (part = "versions")' /\ [ResumeVersionsNext]_versionVars
    BY Zenon DEF MCNext, mcVars
  <2>3. QED
    BY <2>1, <2>2, PTL DEF MCSpec, ResumeVersionsSpec
<1>6. MCSpec /\ part = "export" => [](part = "export") /\ ResumeExportSpec
  <2>1. MCInit => ResumeExportInit
    BY Zenon DEF MCInit
  <2>2. part = "export" /\ [MCNext]_mcVars => (part = "export")' /\ [ResumeExportNext]_exportVars
    BY Zenon DEF MCNext, mcVars
  <2>3. QED
    BY <2>1, <2>2, PTL DEF MCSpec, ResumeExportSpec
<1>7. MCSpec /\ part = "tracker" => [](part = "tracker") /\ ApplicationsSpec
  <2>1. MCInit => ApplicationsInit
    BY Zenon DEF MCInit
  <2>2. part = "tracker" /\ [MCNext]_mcVars => (part = "tracker")' /\ [ApplicationsNext]_applicationsVars
    BY Zenon DEF MCNext, mcVars
  <2>3. QED
    BY <2>1, <2>2, PTL DEF MCSpec, ApplicationsSpec
<1>8. MCInit =>
       \/ part = "billing"
       \/ part = "quota"
       \/ part = "throttler"
       \/ part = "budget"
       \/ part = "versions"
       \/ part = "export"
       \/ part = "tracker"
  BY Zenon DEF MCInit
<1>9. QED
  BY <1>1, <1>2, <1>3, <1>4, <1>5, <1>6, <1>7, <1>8, PTL DEF MCSpec

(***************************************************************************)
(* Whatever part of the API moves, its state is well typed, for any values *)
(* of the constants of all of them.                                        *)
(***************************************************************************)
THEOREM ApiTypeCorrect == MCSpec => []ApiTypesOK
<1>1. part = "billing" /\ BillingTypeOK => ApiTypesOK
  BY DEF ApiTypesOK
<1>2. part = "quota" /\ QuotaTypeOK => ApiTypesOK
  BY DEF ApiTypesOK
<1>3. part = "throttler" /\ ThrottlerTypeOK => ApiTypesOK
  BY DEF ApiTypesOK
<1>4. part = "budget" /\ AiFillBudgetTypeOK => ApiTypesOK
  BY DEF ApiTypesOK
<1>5. part = "versions" /\ ResumeVersionsTypeOK => ApiTypesOK
  BY DEF ApiTypesOK
<1>6. part = "export" /\ ResumeExportTypeOK => ApiTypesOK
  BY DEF ApiTypesOK
<1>7. part = "tracker" /\ ApplicationsTypeOK => ApiTypesOK
  BY DEF ApiTypesOK
<1>8. VersionInv => ResumeVersionsTypeOK
  BY DEF VersionInv
<1>9. QED
  BY <1>1, <1>2, <1>3, <1>4, <1>5, <1>6, <1>7, <1>8, OnePartMoves,
     BillingIsOwn, QuotaTypeCorrect, ThrottlerTypeCorrect, FillTypeCorrect, VersionInductive,
     ExportTypeCorrect, ApplicationsTypeCorrect, PTL

===============================================================================
