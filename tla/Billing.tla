------------------------------- MODULE Billing -------------------------------
(***************************************************************************)
(* Plans, invoices and Stripe (billing/*.ts).  A request of a user, a      *)
(* click of an admin and a webhook are each served by a handler of several *)
(* statements; handlers interleave and any of them may break off.  Stripe  *)
(* sends an event again until a handler has finished with it, and may do   *)
(* so although it was answered.                                            *)
(***************************************************************************)
EXTENDS Integers, FiniteSets

CONSTANTS
  Users, NoUser, Handlers,
  PaidPlans, Free, NoSub,
  Sales, NoSale,     \* ids of Stripe subscriptions
  MaxDay,            \* bound of the calendar
  MaxRequests,       \* bound of the plan requests of one behaviour
  MaxEvents          \* bound of the events Stripe emits

AllPlans    == PaidPlans \cup {Free}
InvoiceDays == 1 .. MaxDay

ASSUME BillingConstantsOK ==
  /\ NoUser \notin Users /\ Free \notin PaidPlans /\ NoSub \notin AllPlans /\ NoSale \notin Sales
  /\ MaxDay \in Nat \ {0} /\ MaxRequests \in Nat /\ MaxEvents \in Nat

VARIABLES
  today,
  enabled,    \* whether STRIPE_SECRET_KEY is set
  subs,       \* the user's row of subscriptions, plan NoSub before it exists
  invoice,    \* the user's invoice of each day
  cache,      \* the plan in quota:limits:<uid>
  price,      \* the plans whose stripe_price_id is stored
  at,         \* handler -> what it is doing
  sale,       \* Stripe's own subscriptions
  checkout,   \* the checkout sessions open at Stripe
  mail,       \* events Stripe keeps sending
  ordered,    \* whether they happen to arrive one by one, in order
  requests,   \* history: how often each invoice was asked for
  confirmed,  \* history: how often one was confirmed
  meddled,    \* history: users whose row something other than Stripe wrote
  sent        \* history: the number of events emitted

rows        == <<subs, invoice, cache, price>>
stripe      == <<enabled, sale, checkout, mail, ordered, sent>>
history     == <<requests, confirmed, meddled>>
billingVars == <<today, rows, at, stripe, history>>

BillingStops == {"idle", "price", "activate", "read", "write", "flag"}

NoEvent == [n |-> 0, type |-> "none", sale |-> NoSale, cancels |-> FALSE]
Events  == [n : 1 .. MaxEvents, sale : Sales, cancels : BOOLEAN,
            type : {"completed", "updated", "deleted", "payment_failed"}]
Idle    == [stop |-> "idle", user |-> NoUser, plan |-> NoSub, event |-> NoEvent]
NoRow   == [plan |-> NoSub, cancels |-> FALSE, sale |-> NoSale]

Resting(h) == at[h] = Idle
Busy(u)    == \E h \in Handlers : at[h].user = u

Goes(h, stop) == at' = [at EXCEPT ![h].stop = stop]
Starts(h, stop, u, plan, event) ==
  at' = [at EXCEPT ![h] = [stop |-> stop, user |-> u, plan |-> plan, event |-> event]]
Ends(h) == at' = [at EXCEPT ![h] = Idle]

Requested(u) == requests' = [requests EXCEPT ![u][today] = @ + 1]
ByHand(u)    == meddled' = meddled \cup {u}

BillingInit ==
  /\ today = 1 /\ enabled \in BOOLEAN
  /\ subs = [u \in Users |-> NoRow]
  /\ invoice = [u \in Users |-> [d \in InvoiceDays |-> [status |-> "none", plan |-> NoSub]]]
  /\ cache = [u \in Users |-> NoSub]
  /\ price = {}
  /\ at = [h \in Handlers |-> Idle]
  /\ sale = [s \in Sales |-> [state |-> "none", user |-> NoUser, plan |-> NoSub, cancels |-> FALSE]]
  /\ checkout = {} /\ mail = {} /\ sent = 0
  /\ ordered \in BOOLEAN
  /\ requests = [u \in Users |-> [d \in InvoiceDays |-> 0]]
  /\ confirmed = [u \in Users |-> [d \in InvoiceDays |-> 0]]
  /\ meddled = {}

-----------------------------------------------------------------------------
(* Users and admins. *)

\* A user without a row is enrolled on the free plan when it is first read.
Enrolled(u) ==
  IF subs[u].plan = NoSub THEN [subs EXCEPT ![u] = [NoRow EXCEPT !.plan = Free]] ELSE subs
GetSubscription(u) ==
  /\ subs[u].plan = NoSub
  /\ subs' = Enrolled(u)
  /\ UNCHANGED <<today, invoice, cache, price, at, stripe, history>>

\* The free plan, or an immediate cancellation: activated at once.
RequestFree(h, u, plan) ==
  /\ Resting(h)
  /\ plan = Free
  /\ Starts(h, "activate", u, plan, NoEvent)
  /\ ByHand(u)
  /\ UNCHANGED <<today, rows, stripe, requests, confirmed>>

\* A paid plan without Stripe: one invoice a day, which the request makes pending.
RequestInvoice(u, plan) ==
  /\ ~enabled /\ plan \in PaidPlans
  /\ \A d \in InvoiceDays : requests[u][d] < MaxRequests
  /\ invoice' = [invoice EXCEPT ![u][today] = [status |-> "pending", plan |-> plan]]
  /\ Requested(u)
  /\ UNCHANGED <<today, subs, cache, price, at, stripe, confirmed, meddled>>

\* (slip: a plan is activated whatever its invoice has become)
ConfirmAny(h, u, d) ==
  /\ Resting(h)
  /\ invoice[u][d].status # "none"
  /\ \A e \in InvoiceDays : confirmed[u][e] <= MaxRequests
  /\ invoice' = [invoice EXCEPT ![u][d].status = "paid"]
  /\ Starts(h, "activate", u, invoice[u][d].plan, NoEvent)
  /\ confirmed' = [confirmed EXCEPT ![u][d] = @ + 1]
  /\ ByHand(u)
  /\ UNCHANGED <<today, subs, cache, price, stripe, requests>>

ConfirmInvoice(h, u, d) ==
  /\ Resting(h)
  /\ invoice[u][d].status = "pending"
  /\ invoice' = [invoice EXCEPT ![u][d].status = "paid"]
  /\ Starts(h, "activate", u, invoice[u][d].plan, NoEvent)
  /\ confirmed' = [confirmed EXCEPT ![u][d] = @ + 1]
  /\ ByHand(u)
  /\ UNCHANGED <<today, subs, cache, price, stripe, requests>>

CancelInvoice(u, d) ==
  /\ invoice[u][d].status = "pending"
  /\ invoice' = [invoice EXCEPT ![u][d].status = "cancelled"]
  /\ UNCHANGED <<today, subs, cache, price, at, stripe, history>>

\* "At the period's end" is a mark on the row, which nothing here acts upon.
CancelLater(u) ==
  /\ subs[u].plan # NoSub
  /\ subs' = [subs EXCEPT ![u].cancels = TRUE]
  /\ UNCHANGED <<today, invoice, cache, price, at, stripe, history>>

NextDay ==
  /\ today + 1 \in InvoiceDays
  /\ today' = today + 1
  /\ UNCHANGED <<rows, at, stripe, history>>

-----------------------------------------------------------------------------
(* What a handler goes on to do. *)

\* activate() and activatePaid(): the row first, then the cache.
ActivateRow(h) ==
  LET do == at[h] IN
  /\ do.stop = "activate"
  /\ subs' = [subs EXCEPT ![do.user] =
       [plan |-> do.plan, cancels |-> FALSE,
        sale |-> IF do.event.type \in {"completed", "updated"} THEN do.event.sale ELSE @.sale]]
  /\ Goes(h, "read")
  /\ UNCHANGED <<today, invoice, cache, price, stripe, history>>

\* refreshQuotaCache: the row is read back, then the limits are written.
ReadRowBack(h) ==
  /\ at[h].stop = "read"
  /\ subs' = Enrolled(at[h].user)
  /\ at' = [at EXCEPT ![h].stop = "write", ![h].plan = subs'[at[h].user].plan]
  /\ UNCHANGED <<today, invoice, cache, price, stripe, history>>

\* Stripe's answer: an event is dropped, or sent once more.
Acked(event) == mail' \in {mail, mail \ {event}}

WriteQuotaLimits(h) ==
  LET do == at[h] IN
  /\ do.stop = "write"
  /\ cache' = [cache EXCEPT ![do.user] = do.plan]
  /\ IF do.event.type = "updated"
     THEN Goes(h, "flag") /\ UNCHANGED mail
     ELSE Ends(h) /\ Acked(do.event)
  /\ UNCHANGED <<today, subs, invoice, price, sale, checkout, enabled, ordered, sent, history>>

Flag(h) ==
  /\ at[h].stop = "flag"
  /\ subs' = [subs EXCEPT ![at[h].user].cancels = at[h].event.cancels]
  /\ Ends(h) /\ Acked(at[h].event)
  /\ UNCHANGED <<today, invoice, cache, price, sale, checkout, enabled, ordered, sent, history>>

BreakOff(h) ==  \* a statement raises, or the process dies: the event comes again
  /\ ~Resting(h)
  /\ Ends(h)
  /\ UNCHANGED <<today, rows, stripe, history>>

-----------------------------------------------------------------------------
(* Stripe. *)

\* createCheckout: the plan's price is made on first use, then the session.
CreateCheckout(h, u, plan) ==
  /\ Resting(h)
  /\ enabled /\ plan \in PaidPlans
  /\ IF plan \in price THEN checkout' = checkout \cup {<<u, plan>>} /\ UNCHANGED at
     ELSE Starts(h, "price", u, plan, NoEvent) /\ UNCHANGED checkout
  /\ UNCHANGED <<today, rows, enabled, sale, mail, ordered, sent, history>>

EnsurePrice(h) ==
  LET do == at[h] IN
  /\ do.stop = "price"
  /\ price' = price \cup {do.plan}
  /\ checkout' = checkout \cup {<<do.user, do.plan>>}
  /\ Ends(h)
  /\ UNCHANGED <<today, subs, invoice, cache, sale, mail, enabled, ordered, sent, history>>

Emit(type, s, cancels) ==
  /\ sent < MaxEvents
  /\ sent' = sent + 1
  /\ mail' = mail \cup {[n |-> sent + 1, type |-> type, sale |-> s, cancels |-> cancels]}

Pay(u, plan, s) ==
  /\ <<u, plan>> \in checkout /\ sale[s].state = "none"
  /\ checkout' = checkout \ {<<u, plan>>}
  /\ sale' = [sale EXCEPT ![s] = [state |-> "live", user |-> u, plan |-> plan, cancels |-> FALSE]]
  /\ Emit("completed", s, FALSE)
  /\ UNCHANGED <<today, rows, at, enabled, ordered, history>>

Change(s, cancels) ==
  /\ sale[s].state = "live"
  /\ sale' = [sale EXCEPT ![s].cancels = cancels]
  /\ Emit("updated", s, cancels)
  /\ UNCHANGED <<today, rows, at, checkout, enabled, ordered, history>>

Terminate(s) ==
  /\ sale[s].state = "live"
  /\ sale' = [sale EXCEPT ![s].state = "ended"]
  /\ Emit("deleted", s, sale[s].cancels)
  /\ UNCHANGED <<today, rows, at, checkout, enabled, ordered, history>>

ChargeFails(s) ==
  /\ sale[s].state = "live"
  /\ Emit("payment_failed", s, sale[s].cancels)
  /\ UNCHANGED <<today, rows, at, sale, checkout, enabled, ordered, history>>

\* Deliveries of an orderly Stripe: the oldest event, when none is being handled.
Comes(event) ==
  ordered => /\ \A other \in mail : event.n <= other.n
             /\ \A h \in Handlers : at[h].event = NoEvent

\* (slip: the end of a subscription is ignored)
WebhookNoDelete(h, event) ==
  LET s == event.sale IN
  /\ Resting(h) /\ event \in mail /\ Comes(event)
  /\ event.type # "payment_failed"
  /\ Starts(h, "activate", sale[s].user, sale[s].plan, event)
  /\ UNCHANGED <<today, rows, stripe, history>>

\* The user and plan are the metadata of the session, copied by Stripe.
Webhook(h, event) ==
  LET s == event.sale IN
  /\ Resting(h) /\ event \in mail /\ Comes(event)
  /\ event.type # "payment_failed"
  /\ Starts(h, "activate", sale[s].user,
            IF event.type = "deleted" THEN Free ELSE sale[s].plan, event)
  /\ UNCHANGED <<today, rows, stripe, history>>

WebhookPaymentFailed(event) ==
  /\ event \in mail /\ Comes(event)
  /\ event.type = "payment_failed"
  /\ subs' = [u \in Users |->
       IF subs[u].sale = event.sale THEN [subs[u] EXCEPT !.cancels = TRUE] ELSE subs[u]]
  /\ Acked(event)
  /\ UNCHANGED <<today, invoice, cache, price, at, sale, checkout, enabled, ordered, sent, history>>

-----------------------------------------------------------------------------

Requests ==
  \E u \in Users :
    \/ GetSubscription(u) \/ CancelLater(u)
    \/ \E plan \in AllPlans, h \in Handlers : RequestFree(h, u, plan) \/ CreateCheckout(h, u, plan)
    \/ \E plan \in PaidPlans : RequestInvoice(u, plan)
    \/ \E d \in InvoiceDays : CancelInvoice(u, d) \/ \E h \in Handlers : ConfirmInvoice(h, u, d)

Handling ==
  \E h \in Handlers :
    \/ EnsurePrice(h) \/ ActivateRow(h) \/ ReadRowBack(h) \/ WriteQuotaLimits(h) \/ Flag(h)
    \/ BreakOff(h)
    \/ \E event \in mail : Webhook(h, event)

AtStripe ==
  \/ \E u \in Users, plan \in PaidPlans, s \in Sales : Pay(u, plan, s)
  \/ \E s \in Sales, cancels \in BOOLEAN : Change(s, cancels)
  \/ \E s \in Sales : Terminate(s) \/ ChargeFails(s)

BillingNext ==
  \/ NextDay \/ Requests \/ Handling \/ AtStripe
  \/ \E event \in mail : WebhookPaymentFailed(event)

BillingSpec == BillingInit /\ [][BillingNext]_billingVars

-----------------------------------------------------------------------------
(* What must hold. *)

\* Types; a handler at rest has no event, and a session is for a paid plan.
BillingTypeOK ==
  /\ today \in InvoiceDays /\ enabled \in BOOLEAN
  /\ subs \in [Users -> [plan : AllPlans \cup {NoSub}, cancels : BOOLEAN,
                       sale : Sales \cup {NoSale}]]
  /\ invoice \in [Users -> [InvoiceDays -> [status : {"none", "pending", "paid", "cancelled"},
                                     plan : PaidPlans \cup {NoSub}]]]
  /\ cache \in [Users -> AllPlans \cup {NoSub}]
  /\ price \subseteq PaidPlans
  /\ at \in [Handlers -> [stop : BillingStops, user : Users \cup {NoUser},
                          plan : AllPlans \cup {NoSub}, event : Events \cup {NoEvent}]]
  /\ \A h \in Handlers : at[h].stop = "idle" <=> Resting(h)
  /\ sale \in [Sales -> [state : {"none", "live", "ended"}, user : Users \cup {NoUser},
                         plan : PaidPlans \cup {NoSub}, cancels : BOOLEAN]]
  /\ checkout \subseteq Users \X PaidPlans
  /\ mail \subseteq Events /\ ordered \in BOOLEAN /\ sent \in 0 .. MaxEvents
  /\ requests \in [Users -> [InvoiceDays -> Nat]] /\ confirmed \in [Users -> [InvoiceDays -> Nat]]
  /\ meddled \subseteq Users

\* An invoice is confirmed no more often than it was asked for, although two
\* admins may click at once, a request of the same day makes a paid or a
\* cancelled invoice pending again, and a confirmation may break off.
ConfirmedOnce ==
  \A u \in Users, d \in InvoiceDays : confirmed[u][d] <= requests[u][d]

\* Stripe's events, repeated but in order, leave the row as Stripe has it, even
\* when handlers break off: for a user with one Stripe subscription whose row
\* nobody else writes, once all events are answered.  (The end of an older
\* subscription, and events out of order, do what they like: neither is told apart.)
Only(s) == sale[s].state # "none" /\ \A t \in Sales \ {s} : sale[t].user # sale[s].user
StripeFollows ==
  \A s \in Sales :
    LET u == sale[s].user IN
    ordered /\ Only(s) /\ mail = {} /\ u \notin meddled /\ ~Busy(u) =>
      /\ subs[u].plan = IF sale[s].state = "live" THEN sale[s].plan ELSE Free
      /\ sale[s].state = "live" /\ sale[s].cancels => subs[u].cancels
==============================================================================
