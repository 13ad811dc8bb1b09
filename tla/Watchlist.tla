----------------------------- MODULE Watchlist -----------------------------
(***************************************************************************)
(* The validators a user follows, the events the user is subscribed to and *)
(* the webhooks: handlers/user.go and modals.go, the tax report of         *)
(* validatorRewards.go, and the statements of db/subscriptions.go and      *)
(* db/frontend.go they run.                                                *)
(*                                                                         *)
(* A handler is a plan: the database operations it will run, each one a    *)
(* transaction of its own.  Requests of the user, from two windows, run    *)
(* their plans side by side, and an operation that fails ends its handler. *)
(* One user; the tables are shared with the explorer of another network.   *)
(* Of the events one of each kind that the code tells apart is kept.       *)
(* Sessions, parsing, flashes and the pages' layout are left out.          *)
(***************************************************************************)
EXTENDS Integers, FiniteSets, Sequences, SequencesExt, FiniteSetsExt, Functions

CONSTANTS
  Validators,     \* public keys of validators
  NodeOf,         \* the rocket pool node of each validator's minipool
  Tabs,           \* requests that may run at the same time
  MaxValidators,  \* MaxValidators of the user's plan, by plan
  MaxWebhooks,    \* webhooks allowed, by plan
  TaxLimit,       \* tax reports a user may subscribe to
  MaxRequests, MaxFailed  \* bounds on requests and on failed operations

Plans == {"free", "paid"}
WatchlistAssumption ==
  /\ MaxValidators \in [Plans -> Nat] /\ MaxWebhooks \in [Plans -> Nat]
  /\ {TaxLimit, MaxRequests, MaxFailed} \subseteq Nat
  /\ IsFiniteSet(Validators) /\ IsFiniteSet(Tabs) /\ Tabs # {}
  /\ \A v \in Validators : NodeOf[v] \notin Validators  \* an address is not a key
  /\ "" \notin Validators  \* which stands for all of them

\* Events of a validator, the second with a threshold; of a machine; of an
\* Ethereum client; of a rocket pool node's collateral; of the network; tax reports.
PageEvents == {"slashed", "offline"}
EventNames == PageEvents \cup {"machine", "client", "collateral", "network", "tax"}
Machine == "my machine"
Geth == "geth"
TaxReports == {"report 1", "report 2", "report 3"}
TooShort == "too short"   \* a key that is not 96 characters long
Filters == Validators \cup {NodeOf[v] : v \in Validators}
             \cup TaxReports \cup {Machine, Geth, TooShort, "", "network"}
Home == "home"            \* utils.GetNetwork() of this explorer
Networks == {Home, "other", ""}

VARIABLES
  plan,      \* the user's plan
  tags,      \* users_validators_tags: followed validators of this network
  subs,      \* users_subscriptions: <<network, event, filter>> -> threshold
  hooks,     \* how many webhooks the user has
  running,   \* by tab: the operations still to run, what they should bring about
             \* and whether nothing else was done meanwhile
  loose,     \* validators a request may have named since they were last unfollowed
  asked, failed

vars == <<plan, tags, subs, hooks, running, loose, asked, failed>>

Idle == [ops |-> <<>>, on |-> {}, off |-> {}, alone |-> FALSE]

Init ==
  /\ plan \in Plans /\ hooks \in {0, MaxWebhooks[plan]}
  /\ tags \in {{}, Validators}
  /\ \E es \in {{}, PageEvents} :
       subs = [key \in ({"other"} \X {"slashed"} \X Validators) \cup ({Home} \X es \X tags) |-> "zero"]
  /\ running = [tab \in Tabs |-> Idle]
  /\ loose = {} /\ asked = 0 /\ failed = 0

----------------------------------------------------------------------------
(* The statements *)
IsUserIndexed(e) == e \in {"machine", "client"}
\* AddSubscription leaves the network out when its caller passes none, ...
AddedKey(network, e, f) == <<network, e, f>>

\* ... DeleteSubscription also for the events that belong to the user.
DeletedKey(network, e, f) == <<IF IsUserIndexed(e) THEN "" ELSE network, e, f>>

\* Operations.  A subscription to all followed validators reads the watchlist
\* when it is reached, and becomes one operation for each of them.
Tag(vs) == [op |-> "tag", vs |-> vs]
Untag(v) == [op |-> "untag", vs |-> {v}]
Add(network, e, f, t) == [op |-> "add", key |-> AddedKey(network, e, f), threshold |-> t]
Delete(network, e, f) == [op |-> "delete", keys |-> {DeletedKey(network, e, f)}]
DeleteAll(network, e) == [op |-> "delete", keys |-> {DeletedKey(network, e, f) : f \in Filters}]
Clear(vs) == [op |-> "delete", keys |-> {Home} \X {"slashed"} \X vs]
Forget(keys) == [op |-> "delete", keys |-> keys]
Each(e, list, t) == [op |-> "each", event |-> e, list |-> list, threshold |-> t]
Hook(n) == [op |-> "hook", add |-> n]

\* ON CONFLICT: the threshold of these events is replaced, else the row stays.
Replaces(e) == e \in {"machine", "collateral", "offline"}
WithSub(key, t) ==
  IF key \in DOMAIN subs /\ ~Replaces(key[2]) THEN subs
  ELSE [k \in DOMAIN subs \cup {key} |-> IF k = key THEN t ELSE subs[k]]
Without(keys) == Restrict(subs, DOMAIN subs \ keys)

\* Slip: the rows of the other network go as well.
OfAnyNetwork(vs) == {key \in DOMAIN subs : key[3] \in vs /\ key[1] # ""}

\* The subscriptions RemoveFromWatchlist deletes with the tag, in one transaction.
SubsOf(vs) == {key \in DOMAIN subs : key[3] \in vs /\ key[1] = Home}

\* The first of a list, one more than the limit: the test follows the addition.
Cut(seq) == SubSeq(seq, 1, Min({Len(seq), MaxValidators[plan] + 1}))
Listed(list) == IF list = "nodes" THEN {NodeOf[v] : v \in tags} ELSE tags
Removes == "removes"  \* in the place of a threshold
Expanded(op, order) ==
  [i \in DOMAIN Cut(order) |-> IF op.threshold = Removes THEN Delete(Home, op.event, order[i])
                               ELSE Add(Home, op.event, order[i], op.threshold)]

----------------------------------------------------------------------------
(* Subscribing and unsubscribing by event and filter *)
NetworkOf(e) == IF IsUserIndexed(e) THEN "" ELSE Home

\* Slip: a free plan keeps its own threshold.
OwnAnyway(e, t) == t

\* Plans without thresholds of their own get the fixed one.
Threshold(e, t) == IF plan = "free" /\ e \in {"machine", "offline"} THEN "fixed" ELSE t

\* internUserNotificationsSubscribe
Subscribe(e, f, t) ==
  IF f = "" /\ e # "machine"
  THEN Each(e, IF e = "collateral" THEN "nodes" ELSE "validators", Threshold(e, t))
  ELSE Add(NetworkOf(e), e, f, Threshold(e, t))
\* internUserNotificationsUnsubscribe
Unsubscribe(e, f) ==
  IF f = "" /\ e = "collateral" THEN DeleteAll(Home, e)
  ELSE IF f = "" /\ e # "machine" THEN Each(e, "validators", Removes)
  ELSE Delete(NetworkOf(e), e, f)
\* The page's own way, UserNotificationsUnsubscribe: without a case for the nodes
UnsubscribeOne(e, f) ==
  IF f = "" /\ ~IsUserIndexed(e) THEN Each(e, "validators", Removes) ELSE Delete(NetworkOf(e), e, f)

\* The rows an event and a filter stand for.
Meant(e, f) ==
  IF f # "" \/ e = "machine" THEN {<<NetworkOf(e), e, f>>}
  ELSE {Home} \X {e} \X Listed(IF e = "collateral" THEN "nodes" ELSE "validators")

----------------------------------------------------------------------------
(* Requests *)
Named(ops) == {v \in Validators : \E i \in DOMAIN ops : ops[i].op = "add" /\ ops[i].key[3] = v}
Begin(tab, ops, on, off) ==
  /\ tab = Min({t \in Tabs : running[t].ops = <<>>}) /\ asked < MaxRequests
  /\ running' = [running EXCEPT ![tab] =
       [ops |-> ops, on |-> on, off |-> off, alone |-> TRUE]]
  /\ loose' = loose \cup Named(ops) /\ asked' = asked + 1
  /\ UNCHANGED <<plan, tags, subs, hooks, failed>>

HomeKeys(es, vs) == {Home} \X es \X vs
\* The operations of each member of a set, n of them, one member after the other.
ForAll(n, opsOf) ==
  LET order == SetToSeq(DOMAIN opsOf)
  IN [i \in 1 .. n * Cardinality(DOMAIN opsOf) |-> opsOf[order[((i - 1) \div n) + 1]][((i - 1) % n) + 1]]
Adds(es, key) == ForAll(1, [e \in es |-> <<Add(Home, e, key, "zero")>>])
Subscribes(es, key, t) == ForAll(1, [e \in es |-> <<Subscribe(e, key, t)>>])

\* It subscribes first, then checks the key's length, then follows.
UserValidatorWatchlistAdd(tab, key, es) ==
  Begin(tab, Adds(es, key) \o IF key = TooShort THEN <<>> ELSE <<Tag({key})>>, HomeKeys(es, {key}), {})
UserDashboardWatchlistAdd(tab, vs) == Begin(tab, <<Tag(vs)>>, {}, {})
AddValidatorsAndSubscribe(tab, v, es) ==
  Begin(tab, <<Tag({v})>> \o Subscribes(es, v, "zero"), HomeKeys(es, {v}), {})

UserValidatorWatchlistRemove(tab, v) == Begin(tab, <<Untag(v)>>, {}, HomeKeys(PageEvents, {v}))
\* These go on when a validator fails.
RemoveAllValidatorsAndUnsubscribe(tab, vs) ==
  Begin(tab, ForAll(1, [v \in vs |-> <<Untag(v)>>]), {}, HomeKeys(PageEvents, vs))
UserModalRemoveSelectedValidator(tab, vs) == RemoveAllValidatorsAndUnsubscribe(tab, vs)

\* Slip: the old events are cleared after the new ones are written.
ClearLast(tab, vs, es, t) ==
  Begin(tab, ForAll(Cardinality(es), [v \in vs |-> Subscribes(es, v, t)]) \o <<Clear(vs)>>,
        HomeKeys(es, vs), HomeKeys({"slashed"} \ es, vs))

\* The events it clears are those of a validator but "offline".
UserUpdateSubscriptions(tab, vs, es, t) ==
  Begin(tab, <<Clear(vs)>> \o ForAll(Cardinality(es), [v \in vs |-> Subscribes(es, v, t)]),
        HomeKeys(es, vs), HomeKeys({"slashed"} \ es, vs))
\* A form has a box for each event.
Boxes(all, es, f) ==
  ForAll(1, [e \in all |-> <<IF e \in es THEN Add(Home, e, f, "zero") ELSE Delete(Home, e, f)>>])
UsersModalAddValidator(tab, vs, es) ==
  Begin(tab, ForAll(1 + Cardinality(PageEvents), [v \in vs |-> <<Tag({v})>> \o Boxes(PageEvents, es, v)]),
        HomeKeys(es, vs), HomeKeys(PageEvents \ es, vs))
UserModalManageNotificationModal(tab, vs, es) ==
  Begin(tab, ForAll(Cardinality(PageEvents), [v \in vs |-> Boxes(PageEvents, es, v)]),
        HomeKeys(es, vs), HomeKeys(PageEvents \ es, vs))
UserModalAddNetworkEvent(tab, es) ==
  Begin(tab, Boxes({"network"}, es, "network"),
        HomeKeys(es, {"network"}), HomeKeys({"network"} \ es, {"network"}))

\* What the API is asked for: one event, or two.
Items == ({"slashed", "offline"} \X (Validators \cup {""})) \cup ({"network"} \X {""})
           \cup ({"machine"} \X {Machine, ""}) \cup ({"client"} \X {Geth, ""})
           \cup ({"collateral"} \X ({NodeOf[v] : v \in Validators} \cup {""}))
Lists == {<<item>> : item \in Items} \cup {<<item, <<"offline", "">>>> : item \in {"slashed", "offline"} \X {""}}

\* Of the items without a filter only the first of each event counts.
OnlyOnce(items) ==
  IF Len(items) = 2 /\ items[2][2] = "" /\ items[1][1] = items[2][1] THEN <<items[1]>> ELSE items
Fits == Cardinality(tags) <= MaxValidators[plan] + 1
AllMeant(items) == UNION {Meant(items[i][1], items[i][2]) : i \in DOMAIN items}
MultipleUsersNotificationsSubscribe(tab, items, t) ==
  LET once == OnlyOnce(items)
  IN Begin(tab, [i \in DOMAIN once |-> Subscribe(once[i][1], once[i][2], t)],
           IF Fits THEN AllMeant(items) ELSE {}, {})

\* What a subscription of all validators to client updates wrote has the network
\* in its name and is not found again.
MultipleUsersNotificationsUnsubscribe(tab, items) ==
  LET once == OnlyOnce(items)
  IN Begin(tab, [i \in DOMAIN once |-> Unsubscribe(once[i][1], once[i][2])], {},
           IF Fits THEN {key \in AllMeant(items) : key[1] = Home => key[2] # "client"} ELSE {})
\* It leaves the rows of the nodes, too.
UserNotificationsUnsubscribe(tab, e, f) ==
  Begin(tab, <<UnsubscribeOne(e, f)>>, {},
        IF Fits /\ (f = "" => e # "collateral") THEN Meant(e, f) \ ({Home} \X {"client"} \X Filters) ELSE {})
\* The link in a mail.
UserNotificationsUnsubscribeByHash(tab, keys) == Begin(tab, <<Forget(keys)>>, {}, keys)

\* It counts first.
TaxRows == {key \in DOMAIN subs : key[1] = Home /\ key[2] = "tax"}
RewardNotificationSubscribe(tab, report) ==
  /\ Cardinality(TaxRows) < TaxLimit
  /\ Begin(tab, <<Add(Home, "tax", report, "zero")>>, {<<Home, "tax", report>>}, {})
RewardNotificationUnsubscribe(tab, report) ==
  Begin(tab, <<Delete(Home, "tax", report)>>, {}, {<<Home, "tax", report>>})


\* Slip: one more than allowed.
OneMoreHook(tab) == hooks <= MaxWebhooks[plan] /\ Begin(tab, <<Hook(1)>>, {}, {})

\* It counts and inserts in one transaction, which does not keep another one from
\* counting the same.
UsersAddWebhook(tab) == hooks < MaxWebhooks[plan] /\ Begin(tab, <<Hook(1)>>, {}, {})
UsersDeleteWebhook(tab) == hooks > 0 /\ Begin(tab, <<Hook(-1)>>, {}, {})

----------------------------------------------------------------------------
(* Operations *)
\* What the tab still has to do; the others are not alone any more.
Onward(tab, ops) ==
  running' = [t \in Tabs |-> IF t # tab THEN [running[t] EXCEPT !.alone = FALSE]
                             ELSE IF ops = <<>> THEN Idle ELSE [running[t] EXCEPT !.ops = ops]]
Pending == UNION {Named(running'[t].ops) : t \in Tabs}

RunTag(tab, op) ==
  /\ op.op = "tag" /\ tags' = tags \cup op.vs
  /\ Onward(tab, Tail(running[tab].ops)) /\ UNCHANGED <<subs, hooks, loose>>
\* RemoveFromWatchlist
RunUntag(tab, op) ==
  /\ op.op = "untag" /\ tags' = tags \ op.vs /\ subs' = Without(SubsOf(op.vs))
  /\ Onward(tab, Tail(running[tab].ops))
  /\ loose' = (loose \ op.vs) \cup (op.vs \cap Pending) /\ UNCHANGED hooks
RunAdd(tab, op) ==
  /\ op.op = "add" /\ subs' = WithSub(op.key, op.threshold)
  /\ Onward(tab, Tail(running[tab].ops)) /\ UNCHANGED <<tags, hooks, loose>>
RunDelete(tab, op) ==
  /\ op.op = "delete" /\ subs' = Without(op.keys)
  /\ Onward(tab, Tail(running[tab].ops)) /\ UNCHANGED <<tags, hooks, loose>>
\* GetTaggedValidators; the order of the keys is left open.
RunEach(tab, op) ==
  /\ op.op = "each"
  /\ \E order \in SetToSeqs(Listed(op.list)) :
       Onward(tab, Expanded(op, order) \o Tail(running[tab].ops))
  /\ UNCHANGED <<tags, subs, hooks, loose>>
RunHook(tab, op) ==
  /\ op.op = "hook" /\ hooks' = Max({0, hooks + op.add})
  /\ Onward(tab, Tail(running[tab].ops)) /\ UNCHANGED <<tags, subs, loose>>

Run(tab) ==
  /\ running[tab].ops # <<>>
  /\ LET op == Head(running[tab].ops)
     IN RunTag(tab, op) \/ RunUntag(tab, op) \/ RunAdd(tab, op) \/ RunDelete(tab, op)
          \/ RunEach(tab, op) \/ RunHook(tab, op)
  /\ UNCHANGED <<plan, asked, failed>>

\* An operation fails: the handler answers with an error; only the loops that
\* unfollow go on with the next validator.
Fail(tab) ==
  LET ops == running[tab].ops
  IN /\ ops # <<>> /\ failed < MaxFailed /\ failed' = failed + 1
     /\ running' = [running EXCEPT ![tab] =
          IF Head(ops).op = "untag" /\ Len(ops) > 1 THEN [@ EXCEPT !.ops = Tail(ops), !.off = {}] ELSE Idle]
     /\ UNCHANGED <<plan, tags, subs, hooks, loose, asked>>

AskOfValidators(tab, vs) ==
  \/ UserDashboardWatchlistAdd(tab, vs)
  \/ RemoveAllValidatorsAndUnsubscribe(tab, vs) \/ UserModalRemoveSelectedValidator(tab, vs)
  \/ \E es \in SUBSET PageEvents :
       \/ UserUpdateSubscriptions(tab, vs, es, "own")
       \/ UsersModalAddValidator(tab, vs, es) \/ UserModalManageNotificationModal(tab, vs, es)
AskOfOne(tab, v) ==
  \/ UserValidatorWatchlistRemove(tab, v)
  \/ \E es \in SUBSET PageEvents :
       UserValidatorWatchlistAdd(tab, v, es) \/ AddValidatorsAndSubscribe(tab, v, es)
AskOfEvents(tab) ==
  \/ \E e \in PageEvents : UserValidatorWatchlistAdd(tab, TooShort, {e})
  \/ \E es \in SUBSET {"network"} : UserModalAddNetworkEvent(tab, es)
  \/ \E items \in Lists : \/ MultipleUsersNotificationsSubscribe(tab, items, "own")
                         \/ MultipleUsersNotificationsUnsubscribe(tab, items)
  \/ \E item \in Items : UserNotificationsUnsubscribe(tab, item[1], item[2])
  \/ \E key \in DOMAIN subs : key[1] # "other" /\ UserNotificationsUnsubscribeByHash(tab, {key})
  \/ \E report \in TaxReports :
       RewardNotificationSubscribe(tab, report) \/ RewardNotificationUnsubscribe(tab, report)
  \/ UsersAddWebhook(tab) \/ UsersDeleteWebhook(tab)
Ask(tab) ==
  /\ running[tab].ops = <<>>
  /\ \/ AskOfEvents(tab)
     \/ \E v \in Validators : AskOfOne(tab, v)
     \/ \E vs \in SUBSET Validators \ {{}} : AskOfValidators(tab, vs)

Next == \E tab \in Tabs : Ask(tab) \/ Run(tab) \/ Fail(tab)
Spec == Init /\ [][Next]_vars

----------------------------------------------------------------------------
Thresholds == {"zero", "fixed", "own"}
(* The variables have their types.                                         *)
TypeOK ==
  /\ plan \in Plans /\ tags \subseteq Validators /\ loose \subseteq Validators
  /\ DOMAIN subs \subseteq Networks \X EventNames \X Filters /\ Range(subs) \subseteq Thresholds
  /\ hooks \in Nat /\ asked \in 0 .. MaxRequests /\ failed \in 0 .. MaxFailed

(* A validator the user has unfollowed has no subscription left, unless a  *)
(* request that came later, or was under way, names it: tag and rows go in *)
(* one transaction (subscriptions.go:55-85).                               *)
UnfollowedIsSilent ==
  \A key \in DOMAIN subs : key[1] = Home /\ key[3] \in Validators \ tags => key[3] \in loose

(* What the user has at the other network's explorer is not touched from   *)
(* here, although both explorers share the tables.                         *)
OtherNetworkIsLeft ==
  {key \in DOMAIN subs : key[1] = "other"} = {"other"} \X {"slashed"} \X Validators

(* A limit that is checked before the row is written is passed by no more  *)
(* than the other requests under way (validatorRewards.go:212-224,         *)
(* user.go:2630-2668).                                                     *)
LimitsHold ==
  /\ Cardinality(TaxRows) < TaxLimit + Cardinality(Tabs)
  /\ hooks < MaxWebhooks[plan] + Cardinality(Tabs)

(* A plan without thresholds of its own gets none for a machine, whichever *)
(* page is used (user.go:1826-1837).                                       *)
FreeThresholds ==
  plan = "free" => \A key \in DOMAIN subs : key[2] = "machine" => subs[key] = "fixed"

(* A request that nothing failed in and nothing was done beside has brought *)
(* about what it was for when it ends, however many operations it took: the *)
(* rows it deletes bear the names they were inserted under                  *)
(* (frontend.go:258-297).                                                   *)
SettlesAsAsked ==
  [][\A tab \in Tabs :
       LET was == running[tab]
       IN was.ops # <<>> /\ running'[tab].ops = <<>> /\ was.alone /\ failed' = failed
            => was.on \subseteq DOMAIN subs' /\ was.off \cap DOMAIN subs' = {}]_vars
=============================================================================
