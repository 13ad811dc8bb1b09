------------------------------ MODULE Payments ------------------------------
(***************************************************************************)
(* Subscriptions paid through Stripe: handlers/stripe.go with db/stripe.go *)
(* and the rows that mobile plans have in users_app_subscriptions.         *)
(*                                                                         *)
(* Stripe is the environment.  It sends an event for each change, delivers *)
(* events in any order, and delivers one again until it was answered with  *)
(* status 200.  An answer of 503 leaves the event pending and, as every    *)
(* handler works in one transaction, changes nothing unless said so below. *)
(* Payloads, currencies, mails and signatures are left out.  A customer is *)
(* named after the subscription whose checkout created it.                 *)
(***************************************************************************)
EXTENDS Integers

CONSTANTS
  Users, Subs,    \* users, Stripe subscription ids
  ApiPrices, MobilePrices,
  MaxEvents,      \* bound on the events Stripe sends
  MaxFaults       \* bound on lost answers

NoCustomer == "none"
NoPrice == "no price"

PaymentsAssumption ==
  /\ {MaxEvents, MaxFaults} \subseteq Nat
  /\ ApiPrices \cap MobilePrices = {} /\ Users # {} /\ NoCustomer \notin Subs

Prices == ApiPrices \cup MobilePrices
Group(p) == IF p \in MobilePrices THEN "mobile" ELSE "api"
NotRead == "not read"  \* no customer.created of that customer is being handled

CustomerKinds == {"customer.created", "customer.deleted"}
Kinds == CustomerKinds \cup {"created", "updated", "deleted", "paid"}
Events == [kind : Kinds, sub : Subs, price : Prices, at : 1 .. MaxEvents]

VARIABLES
  stripe,      \* the subscriptions at Stripe
  gone,        \* customers deleted at Stripe
  pending,     \* events not yet answered with 200
  sent,        \* how many events Stripe has sent
  customerOf,  \* users.stripe_customer_id
  rows,        \* users_stripe_subscriptions by subscription_id
  app,         \* users_app_subscriptions of store "stripe": by subscription id,
               \* whether there is a row, its active and the price of its product
  reading,     \* what the handler of customer.created read as the user's id
  overtaken,   \* subscriptions an event of which was handled before an older one
  lost

vars == <<stripe, gone, pending, sent, customerOf, rows, app, reading, overtaken, lost>>
tables == <<customerOf, rows, app>>

NoRow == [there |-> FALSE, cust |-> NoCustomer, price |-> NoPrice, active |-> FALSE, ended |-> FALSE]
NoApp == [there |-> FALSE, price |-> NoPrice, active |-> FALSE]

Init ==
  /\ stripe = [s \in Subs |-> [user |-> CHOOSE u \in Users : TRUE, price |-> NoPrice,
                               cust |-> NoCustomer, state |-> "unused"]]
  /\ gone = {} /\ pending = {} /\ sent = 0
  /\ customerOf = [u \in Users |-> NoCustomer]
  /\ rows = [s \in Subs |-> NoRow] /\ app = [s \in Subs |-> NoApp]
  /\ reading = [c \in Subs |-> NotRead]
  /\ overtaken = {} /\ lost = 0

Event(kind, s, p, at) == [kind |-> kind, sub |-> s, price |-> p, at |-> at]
Send(events, n) == sent + n <= MaxEvents /\ sent' = sent + n /\ pending' = pending \cup events
\* StripeGetCustomerUserId
Owner(c) == {u \in Users : customerOf[u] = c}

----------------------------------------------------------------------------
(* Checkouts, and what happens at Stripe *)
\* StripeGetUserSubscription, "ORDER BY active desc LIMIT 1" of those not ended
HasActive(u, group) ==
  \E s \in Subs : /\ rows[s].there /\ rows[s].cust = customerOf[u]
                  /\ rows[s].active /\ ~rows[s].ended /\ Group(rows[s].price) = group

\* StripeCreateCheckoutSession, for the customer the user has at this moment
Checkout(u, s, p) ==
  /\ stripe[s].state = "unused" /\ customerOf[u] \notin gone
  /\ ~HasActive(u, Group(p))
  /\ stripe' = [stripe EXCEPT ![s] =
       [user |-> u, price |-> p, cust |-> customerOf[u], state |-> "session"]]
  /\ UNCHANGED <<gone, pending, sent, tables, reading, overtaken, lost>>

\* The user pays.  Without a customer Stripe creates one.
Complete(s) ==
  LET p == stripe[s].price  fresh == stripe[s].cust = NoCustomer
      first == IF fresh THEN {Event("customer.created", s, p, sent + 1)} ELSE {}
      n == IF fresh THEN sent + 1 ELSE sent
  IN /\ stripe[s].state = "session" /\ stripe[s].cust \notin gone
     /\ stripe' = [stripe EXCEPT ![s].state = "open", ![s].cust = IF fresh THEN s ELSE @]
     /\ Send(first \cup {Event("created", s, p, n + 1), Event("paid", s, p, n + 2)}, n + 2 - sent)
     /\ UNCHANGED <<gone, tables, reading, overtaken, lost>>

\* In the customer portal: another plan, of the other group too.
ChangePlan(s, p) ==
  /\ stripe[s].state = "open" /\ stripe[s].price # p
  /\ stripe' = [stripe EXCEPT ![s].price = p]
  /\ Send({Event("updated", s, p, sent + 1)}, 1)
  /\ UNCHANGED <<gone, tables, reading, overtaken, lost>>

Cancel(s) ==
  /\ stripe[s].state = "open"
  /\ stripe' = [stripe EXCEPT ![s].state = "ended"]
  /\ Send({Event("deleted", s, stripe[s].price, sent + 1)}, 1)
  /\ UNCHANGED <<gone, tables, reading, overtaken, lost>>

\* A customer without open subscriptions is removed at Stripe.
DeleteCustomer(c) ==
  /\ c \in {stripe[s].cust : s \in Subs} \ (gone \cup {NoCustomer})
  /\ \A s \in Subs : stripe[s].cust = c => stripe[s].state = "ended"
  /\ gone' = gone \cup {c}
  /\ Send({Event("customer.deleted", c, stripe[c].price, sent + 1)}, 1)
  /\ UNCHANGED <<stripe, tables, reading, overtaken, lost>>

----------------------------------------------------------------------------
(* StripeWebhook: one action per event it handles.  Answered is status     *)
(* 200; when the answer is lost, Stripe will deliver the event again.      *)
Answered(e) ==
  /\ \/ pending' = pending \ {e} /\ UNCHANGED lost
     \/ lost < MaxFaults /\ lost' = lost + 1 /\ UNCHANGED pending
  /\ overtaken' = IF \E f \in pending : f.kind \in Kinds \ CustomerKinds /\ f.sub = e.sub /\ f.at < e.at
                  THEN overtaken \cup {e.sub} ELSE overtaken
  /\ UNCHANGED <<stripe, gone, sent>>

\* StripeUpdateCustomerID reads the user's customer id in its transaction ...
ReadCustomer(e) ==
  LET u == stripe[e.sub].user
  IN /\ e.kind = "customer.created" /\ reading[e.sub] = NotRead
     /\ reading' = [reading EXCEPT ![e.sub] = customerOf[u]]
     /\ UNCHANGED <<stripe, gone, pending, sent, tables, overtaken, lost>>

\* ... and writes it if there was none; 503 if there was another.
WriteCustomer(e) ==
  LET u == stripe[e.sub].user  read == reading[e.sub]
  IN /\ e.kind = "customer.created" /\ read # NotRead
     /\ reading' = [reading EXCEPT ![e.sub] = NotRead]
     /\ \/ /\ read \in {NoCustomer, e.sub}
           /\ customerOf' = IF read = NoCustomer THEN [customerOf EXCEPT ![u] = e.sub] ELSE customerOf
           /\ Answered(e)
        \/ /\ read \notin {NoCustomer, e.sub}
           /\ UNCHANGED <<stripe, gone, pending, sent, customerOf, overtaken, lost>>
     /\ UNCHANGED <<rows, app>>

\* DisableAllSubscriptionsFromStripeUser takes effect.  StripeRemoveCustomer,
\* which would disable them again, take the id from the user and disable the
\* other rows, names a column the last table does not have: it fails, is rolled
\* back, and the answer is 503.
CustomerDeleted(e) ==
  /\ e.kind = "customer.deleted" /\ Owner(e.sub) # {}
  /\ app' = [s \in Subs |-> IF stripe[s].user \in Owner(e.sub) /\ app[s].there
                            THEN [app[s] EXCEPT !.active = FALSE] ELSE app[s]]
  /\ UNCHANGED <<stripe, gone, pending, sent, customerOf, rows, reading, overtaken, lost>>

\* createNewStripeSubscription; nothing when the row is there.  A mobile plan
\* needs the user of the customer, or the answer is 503.
SubscriptionCreated(e) ==
  LET s == e.sub  c == stripe[s].cust
  IN /\ e.kind = "created"
     /\ rows[s].there \/ e.price \in ApiPrices \/ Owner(c) # {}
     /\ rows' = IF rows[s].there THEN rows
                ELSE [rows EXCEPT ![s] = [there |-> TRUE, cust |-> c, price |-> e.price,
                                          active |-> FALSE, ended |-> FALSE]]
     /\ app' = IF rows[s].there \/ e.price \in ApiPrices THEN app
               ELSE [app EXCEPT ![s] = [there |-> TRUE, price |-> e.price, active |-> FALSE]]
     /\ Answered(e)
     /\ UNCHANGED <<customerOf, reading>>

\* 503 when there is no row yet.  A new plan of the same group is mailed about,
\* after the commit: a customer nobody has makes it 503 this time.
SubscriptionUpdated(e) ==
  LET s == e.sub
      mailed == rows[s].price # e.price /\ Group(rows[s].price) = Group(e.price)
  IN /\ e.kind = "updated" /\ rows[s].there
     /\ rows' = [rows EXCEPT ![s].price = e.price, ![s].ended = FALSE]
     /\ app' = IF e.price \in MobilePrices /\ app[s].there
               THEN [app EXCEPT ![s].price = e.price] ELSE app
     /\ IF mailed /\ Owner(rows[s].cust) = {}
        THEN UNCHANGED <<stripe, gone, pending, sent, overtaken, lost>>
        ELSE Answered(e)
     /\ UNCHANGED <<customerOf, reading>>

\* Slip: the end of a subscription is noted, not that it is inactive.
WithEnd(s, active, ended) ==
  IF rows[s].there THEN [rows EXCEPT ![s].active = active \/ @, ![s].ended = ended \/ @] ELSE rows

\* StripeUpdateSubscriptionStatus: without a row an UPDATE of nothing.
WithStatus(s, active, ended) ==
  IF rows[s].there THEN [rows EXCEPT ![s].active = active, ![s].ended = ended \/ @] ELSE rows

\* Slip: the app's row is changed only after the answer to Stripe.
StatusRowOnly(e, active) ==
  /\ rows' = WithStatus(e.sub, active, ~active)
  /\ Answered(e)
  /\ UNCHANGED <<customerOf, app, reading>>

\* Slip: a payment for which the app has no row yet is answered with 200.
StatusAnyway(e, active) ==
  LET s == e.sub
  IN /\ rows' = WithStatus(s, active, ~active)
     /\ app' = IF e.price \in MobilePrices /\ app[s].there THEN [app EXCEPT ![s].active = active] ELSE app
     /\ Answered(e)
     /\ UNCHANGED <<customerOf, reading>>

\* With a mobile plan, GetUserSubscriptionIDByStripe and UpdateUserSubscription:
\* 503 and a rollback when the app has no row.
Status(e, active) ==
  LET s == e.sub
  IN /\ e.price \in MobilePrices => app[s].there
     /\ rows' = WithStatus(s, active, ~active)
     /\ app' = IF e.price \in MobilePrices THEN [app EXCEPT ![s].active = active] ELSE app
     /\ Answered(e)
     /\ UNCHANGED <<customerOf, reading>>

SubscriptionDeleted(e) == e.kind = "deleted" /\ Status(e, FALSE)
InvoicePaid(e) == e.kind = "paid" /\ Status(e, TRUE)

Handle(e) ==
  \/ ReadCustomer(e) \/ WriteCustomer(e) \/ CustomerDeleted(e)
  \/ SubscriptionCreated(e) \/ SubscriptionUpdated(e) \/ SubscriptionDeleted(e) \/ InvoicePaid(e)

Next ==
  \/ \E u \in Users, s \in Subs, p \in Prices : Checkout(u, s, p)
  \/ \E s \in Subs : Complete(s) \/ Cancel(s) \/ DeleteCustomer(s)
  \/ \E s \in Subs, p \in Prices : ChangePlan(s, p)
  \/ \E e \in pending : Handle(e)

\* Stripe delivers every event again until it is answered.
HandleOf(kind, s) == \E e \in pending : e.kind = kind /\ e.sub = s /\ Handle(e)
Fairness == \A s \in Subs, kind \in Kinds : WF_vars(HandleOf(kind, s))
Spec == Init /\ [][Next]_vars /\ Fairness

----------------------------------------------------------------------------
(* Types; a row of the app belongs to a row of users_stripe_subscriptions, *)
(* because createNewStripeSubscription inserts both in one transaction.    *)
TypeOK ==
  /\ stripe \in [Subs -> [user : Users, price : Prices \cup {NoPrice}, cust : Subs \cup {NoCustomer},
                          state : {"unused", "session", "open", "ended"}]]
  /\ gone \subseteq Subs /\ pending \subseteq Events /\ sent \in 0 .. MaxEvents
  /\ customerOf \in [Users -> Subs \cup {NoCustomer}]
  /\ \A s \in Subs : app[s].there => rows[s].there
  /\ reading \in [Subs -> Subs \cup {NoCustomer, NotRead}]
  /\ overtaken \subseteq Subs /\ lost \in 0 .. MaxFaults

(* The two tables agree on who has paid: a mobile plan is active in both   *)
(* or in none, unless a customer of its user was deleted or events         *)
(* overtook each other (the status updates of stripe.go:385-486 share a    *)
(* transaction).  A customer of the user, not of the plan: when two first  *)
(* checkouts made two, the handlers of customer.created may give the user  *)
(* the other one, and its end disables all plans of the user.              *)
TablesAgree ==
  \A s \in Subs :
    /\ app[s].there /\ rows[s].price \in MobilePrices
    /\ s \notin overtaken
    /\ \A t \in Subs : stripe[t].user = stripe[s].user => stripe[t].cust \notin gone
    => app[s].active = rows[s].active /\ app[s].price = rows[s].price

(* Delivered in their order, each repeated at once if its answer is lost,  *)
(* the events leave the row as the subscription is at Stripe: its price, and   *)
(* active as long as it was not cancelled (stripe.go:190-492).             *)
SettledAsAtStripe ==
  \A s \in Subs :
    /\ stripe[s].state \in {"open", "ended"} /\ s \notin overtaken
    /\ \A e \in pending : e.sub # s
    => /\ rows[s].there /\ rows[s].price = stripe[s].price
       /\ rows[s].active = (stripe[s].state = "open")

(* Whatever the order in which the events arrive, a payment for a mobile   *)
(* plan makes it active in the app: a handler that comes too early answers *)
(* 503 and is called again (stripe.go:461-472).  Not for a plan given up   *)
(* meanwhile, nor for a second customer of a user, whose id the user never *)
(* gets.                                                                   *)
PaidBecomesActive ==
  \A s \in Subs :
    (\E e \in pending : e.kind = "paid" /\ e.sub = s /\ e.price \in MobilePrices)
      ~> \/ app[s].there /\ app[s].active
         \/ stripe[s].state = "ended" \/ stripe[s].price \notin MobilePrices
         \/ customerOf[stripe[s].user] \notin {NoCustomer, stripe[s].cust}

=============================================================================
