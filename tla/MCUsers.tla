------------------------------ MODULE MCUsers ------------------------------
(***************************************************************************)
(* The components that serve users, which share no state with each other,  *)
(* checked in one run: plans paid by card, plans of the app stores, the    *)
(* queue of notifications and the watchlist with its subscriptions.  Init  *)
(* picks one of Parts, and only that one moves.                            *)
(***************************************************************************)
EXTENDS Integers

CONSTANTS
  Parts,
  Users, Subs, ApiPrices, MobilePrices, MaxEvents, MaxFaults,
  Receipts, Ethpool, Manual, Requests, AppLimit, MaxErrors, MaxChanges,
  Senders, Hooks, Discords, RetryLimit, MailLimit, MaxRows, MaxCalls, MaxPosts,
  Validators, Tabs, TaxLimit, MaxRequests, MaxFailed

VARIABLES
  active,
  stripe, gone, pending, sent, customerOf, rows, app, reading, overtaken, lost,
  store, appRows, requests, loop, due, answer, errors, changes,
  queue, retries, mails, lock, pc, todo, posts, jobs, handed, faults,
  plan, tags, subs, hooks, running, loose, asked, failed

ofPayments == <<stripe, gone, pending, sent, customerOf, rows, app, reading, overtaken, lost>>
ofReceipts == <<store, appRows, requests, loop, due, answer, errors, changes>>
ofQueue == <<queue, retries, mails, lock, pc, todo, posts, jobs, handed, faults>>
ofWatchlist == <<plan, tags, subs, hooks, running, loose, asked, failed>>
vars == <<active, ofPayments, ofReceipts, ofQueue, ofWatchlist>>

\* All validators belong to one rocket pool node; a free plan has room for none,
\* the limits of a paid plan are one and two.
NodeOf == [v \in Validators |-> "node"]
MaxValidators == [free |-> 0, paid |-> 1]
MaxWebhooks == [free |-> 1, paid |-> 2]

P == INSTANCE Payments
R == INSTANCE StoreReceipts
Q == INSTANCE NotificationQueue
W == INSTANCE Watchlist

ASSUME UsersAssumption ==
       /\ P!PaymentsAssumption /\ R!StoreReceiptsAssumption
       /\ Q!QueueAssumption /\ W!WatchlistAssumption

\* A component that is not picked stays in one of its initial states.
Init ==
  /\ active \in Parts /\ P!Init /\ R!Init /\ Q!Init /\ W!Init
  /\ active # "watchlist" => plan = "free" /\ tags = {} /\ hooks = 0

Payments(Step) == active = "payments" /\ Step /\ UNCHANGED <<active, ofReceipts, ofQueue, ofWatchlist>>
Receipt(Step) == active = "receipts" /\ Step /\ UNCHANGED <<active, ofPayments, ofQueue, ofWatchlist>>
Queue(Step) == active = "queue" /\ Step /\ UNCHANGED <<active, ofPayments, ofReceipts, ofWatchlist>>
Watch(Step) == active = "watchlist" /\ Step /\ UNCHANGED <<active, ofPayments, ofReceipts, ofQueue>>
Next == Payments(P!Next) \/ Receipt(R!Next) \/ Queue(Q!Next) \/ Watch(W!Next)
Spec == Init /\ [][Next]_vars

\* The fairness of each component, for its own steps: only one of them moves, so
\* that steps of two components may share a condition.
Fairness ==
  /\ \A s \in Subs, kind \in P!Kinds : WF_vars(Payments(P!HandleOf(kind, s)))
  /\ WF_vars(Receipt(R!Round) \/ Queue(Q!Goroutines))
  /\ \A q \in Requests : WF_vars(Receipt(R!Verify(q) \/ R!Insert(q)))
  /\ \A s \in Senders : WF_vars(Queue(Q!Sender(s))) /\ WF_vars(Queue(Q!ConnExpires(s)))
FairSpec == Spec /\ Fairness

\* Types; the two tables of card payments tell the same of a plan, and what Stripe
\* has once its events are handled in their order; no user has more rows of app
\* plans than requests at the same time can bring.
RowsAreSound ==
  /\ P!TypeOK /\ R!TypeOK /\ Q!TypeOK /\ W!TypeOK
  /\ P!TablesAgree /\ P!SettledAsAtStripe /\ R!RowLimit

\* No mail or push batch is handed out twice without a fault, and no more mails
\* leave than the limit allows.
MailsAreSound == Q!HandedOnce /\ Q!WithinMailLimit

\* Nobody is told of a validator that is not followed any more, the rows of another
\* network stay, and the limits and thresholds of a plan hold on every page.
WatchlistIsSound ==
  W!UnfollowedIsSilent /\ W!OtherNetworkIsLeft /\ W!LimitsHold /\ W!FreeThresholds

SettlesAsAsked == W!SettlesAsAsked
PaidBecomesActive == P!PaidBecomesActive
RowsFollowTheStore == R!RowsFollowTheStore
RowsLeave == Q!RowsLeave
=============================================================================
