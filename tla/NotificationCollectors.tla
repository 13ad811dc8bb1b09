----------------------- MODULE NotificationCollectors -----------------------
(***************************************************************************)
(* One subscription of services/notifications.go and the round that looks  *)
(* for its events: notificationsSender collects what is due, queues it,    *)
(* stamps users_subscriptions with last_sent_ts and last_sent_epoch and    *)
(* then stores the internal state the offline notices need.                *)
(*                                                                         *)
(* Subscriptions are rows of their own and a round treats each by its own  *)
(* columns, so Init picks the kind of the one that is followed.  A message *)
(* is the epoch it names; texts and the channels are NotificationQueue's.  *)
(* Time is counted in epochs.                                              *)
(***************************************************************************)
EXTENDS Integers, FiniteSets, FiniteSetsExt

CONSTANTS
  Kinds,          \* the kinds of subscriptions looked at
  MaxEpoch,       \* bound on the head
  MinThreshold,   \* 3: least number of epochs before "offline"
  Repeat,         \* 32: epochs between two notices of one offline time
  Window,         \* 5: epochs the proposals are looked back for
  LookBack,       \* 50: epochs the slashings are looked back for
  TooFarBehind,   \* 20 minutes, in epochs
  EpochGap,       \* EpochGap[k]: pause of a kind limited by last_sent_epoch
  TimeGap,        \* TimeGap[k]: pause of a kind limited by last_sent_ts
  MaxProposals,   \* bound on the validator's proposals
  MaxStalls,      \* bound on the epochs without finalisation
  MaxMishaps,     \* bound on failed statements, crashes and incoherent reads
  MaxEdits        \* bound on the user's changes of the subscription

ChainKinds == {"slashed", "proposal", "attestation", "offline"}
EpochKinds == {"machine", "collateral"}
TimeKinds == {"network", "fee", "claim", "sync", "client", "tax"}
Names == ChainKinds \cup EpochKinds \cup TimeKinds

CollectorsAssumption ==
  /\ Kinds \subseteq Names
  /\ {MaxEpoch, MinThreshold, Repeat, Window, LookBack, TooFarBehind,
      MaxProposals, MaxStalls, MaxMishaps, MaxEdits} \subseteq Nat
  /\ Repeat > 0 /\ MaxEpoch >= 2
  /\ EpochGap \in [EpochKinds -> Nat] /\ TimeGap \in [TimeKinds -> Nat]

Never == -1
Thresholds == {MinThreshold, MinThreshold + Repeat}

VARIABLES
  head, fin,   \* latest exported and LatestFinalizedEpoch
  attested,    \* epochs whose attestation of the validator was included
  proposed,    \* epochs with a proposal of the validator
  slashed,     \* epoch the validator was slashed in, or Never
  alarm,       \* whether the outside condition of a kind holds (machine, fee, ...)
  sub,         \* the row of users_subscriptions
  pc,          \* where the round is
  found,       \* notificationsByUserID, the notices of this subscription
  stamps,      \* subByEpoch: the epochs still to be stamped
  told,        \* the notices queued so far; of a limited kind the last one, with
               \* the head at that time
  believed,    \* what the last offline or online notice said
  spent        \* stalls, faults and changes so far

chain == <<head, fin, attested, proposed, slashed, alarm>>
vars == <<chain, sub, pc, found, stamps, told, believed, spent>>

Spend(what, limit) == spent[what] < limit /\ spent' = [spent EXCEPT ![what] = @ + 1]
LastSeen == Max(attested)
Notice(epoch, state) == [epoch |-> epoch, state |-> state]
\* States of a notice: "" leaves internal_state alone, "-" clears it.
Keep == -2
Back == -1

Init ==
  /\ head = 2 /\ fin = 0 /\ attested = {0, 1, 2} /\ proposed = {} /\ slashed = Never
  /\ alarm = FALSE
  /\ \E k \in Kinds, t \in Thresholds :
       sub = [kind |-> k, created |-> 1, epoch |-> Never, ts |-> Never, state |-> Back,
              threshold |-> t]
  /\ pc = "idle" /\ found = {} /\ stamps = {} /\ told = {} /\ believed = "online"
  /\ spent = [stall |-> 0, fault |-> 0, change |-> 0]

----------------------------------------------------------------------------
(* The chain as the exporter saves it. *)

\* An epoch passes; finality follows two epochs behind unless it stalls.
Epoch ==
  /\ head < MaxEpoch /\ head' = head + 1
  /\ \/ fin' = head' - 2 /\ UNCHANGED spent
     \/ fin' = fin /\ Spend("stall", MaxStalls)
  /\ attested' \in {attested \cup {head'}} \cup (IF sub.kind \in {"attestation", "offline"} THEN {attested} ELSE {})
  /\ proposed' \in {proposed, proposed \cup (IF sub.kind = "proposal" /\ Cardinality(proposed) < MaxProposals
                                       THEN {head'} ELSE {})}
  /\ slashed' \in {slashed} \cup (IF sub.kind = "slashed" /\ slashed = Never THEN {head'} ELSE {})
  /\ alarm' \in (IF sub.kind \in TimeKinds \cup EpochKinds THEN BOOLEAN ELSE {FALSE})
  /\ UNCHANGED <<sub, pc, found, stamps, told, believed>>

----------------------------------------------------------------------------
(* What each collector finds: the possible results of one call.            *)
New(epoch) == sub.epoch = Never \/ (sub.epoch < epoch /\ epoch >= sub.created)

\* Slashings in blocks of the last epochs, finalized or not; the subscription
\* must be unstamped or stamped with an epoch above the finalized one.
Slashings ==
  IF fin > 0 /\ slashed > (IF fin > LookBack THEN fin - LookBack ELSE 0)
             /\ (sub.epoch = Never \/ sub.epoch > fin)
  THEN {{Notice(slashed, Keep)}} ELSE {{}}

\* Slip: of several proposals one is kept, as for the attestations.
OneProposal ==
  LET due == {p \in proposed : p >= fin - Window /\ New(p)}
  IN IF due = {} THEN {{}} ELSE {{Notice(e, Keep)} : e \in due}

\* All proposals of the last epochs the subscription was not told of.
Proposals == {{Notice(e, Keep) : e \in {p \in proposed : p >= fin - Window /\ New(p)}}}

\* Three epochs of attestations up to two below the finalized one; of several
\* that were missed one is kept, in the random order of a map.
Attestations ==
  LET missed == {e \in (fin - 4) .. (fin - 2) : e >= 0 /\ e \notin attested /\ New(e)}
  IN IF missed = {} THEN {{}} ELSE {{Notice(e, Keep)} : e \in missed}

Offline ==
  LET away == head - LastSeen
      limit == IF sub.threshold < MinThreshold THEN MinThreshold ELSE sub.threshold
      event == LastSeen + limit + ((away - limit) \div Repeat) * Repeat
  IN IF limit <= away
     THEN IF sub.epoch # Never /\ (sub.epoch = event \/ LastSeen < sub.created)
          THEN {{}} ELSE {{Notice(event, LastSeen)}}
     ELSE IF sub.state = Back THEN {{}} ELSE {{Notice(head, Back)}}

\* Machine alarms and collateral: a pause of some epochs since the last one.
\* currentEpoch - 80 is unsigned for the collateral and wraps on a young chain.
Machine ==
  IF fin > 0 /\ alarm /\ sub.created <= fin
             /\ (sub.epoch = Never \/ sub.epoch < fin - EpochGap["machine"])
  THEN {{Notice(fin, Keep)}} ELSE {{}}

Collateral ==
  LET low == fin - EpochGap["collateral"]
  IN IF alarm /\ (sub.epoch = Never \/ ((low < 0 \/ sub.epoch < low) /\ fin >= sub.created))
     THEN {{Notice(fin, Keep)}} ELSE {{}}

\* A pause since last_sent_ts.  The notice names the epoch of the subscription.
Paused(k) == sub.ts # Never /\ head - sub.ts < TimeGap[k]
Timed(k, condition) ==
  IF condition /\ ~Paused(k) THEN {{Notice(sub.created, Keep)}} ELSE {{}}

\* headepoch - finalizedepoch was not two in the last twenty minutes.
Network == Timed("network", head - fin # 2)
Fee == Timed("fee", alarm)
ClaimRound == Timed("claim", alarm)
SyncCommittee == Timed("sync", alarm)
ClientUpdate == Timed("client", alarm)
TaxReport == Timed("tax", alarm)

Due ==
  CASE sub.kind = "slashed" -> Slashings
    [] sub.kind = "proposal" -> Proposals
    [] sub.kind = "attestation" -> Attestations
    [] sub.kind = "offline" -> Offline
    [] sub.kind = "machine" -> Machine
    [] sub.kind = "collateral" -> Collateral
    [] sub.kind = "network" -> Network
    [] sub.kind = "fee" -> Fee
    [] sub.kind = "claim" -> ClaimRound
    [] sub.kind = "sync" -> SyncCommittee
    [] sub.kind = "client" -> ClientUpdate
    [] sub.kind = "tax" -> TaxReport

----------------------------------------------------------------------------
(* The round *)
Behind == head - fin > TooFarBehind

\* collectNotifications and collectUserDbNotifications
Collect ==
  /\ pc = "idle" /\ ~Behind
  /\ found' \in Due
  /\ pc' = IF found' = {} THEN "idle" ELSE "queue"
  /\ UNCHANGED <<chain, sub, stamps, told, believed, spent>>

\* The epochs table is being written: the coherence check ends the call.  Or a
\* query fails: the collector returns with nothing found.
CollectFails ==
  /\ pc = "idle" /\ ~Behind /\ Spend("fault", MaxMishaps)
  /\ UNCHANGED <<chain, sub, pc, found, stamps, told, believed>>

\* Slip: the state of a notice is taken for its epoch.
QueueState ==
  /\ pc = "queue"
  /\ told' = told \cup {[epoch |-> n.epoch, state |-> n.state, at |-> head] : n \in found}
  /\ stamps' = {n.state : n \in found}
  /\ pc' = "stamp"
  /\ UNCHANGED <<chain, sub, found, believed, spent>>

\* queueNotifications, first part: the rows of the queue.
Queue ==
  /\ pc = "queue"
  /\ told' = IF sub.kind \in ChainKinds
             THEN told \cup {[epoch |-> n.epoch, state |-> n.state, at |-> 0] : n \in found}
             ELSE {[epoch |-> n.epoch, state |-> n.state, at |-> head] : n \in found}
  /\ believed' = IF \E n \in found : n.state = Back THEN "online"
                 ELSE IF \E n \in found : n.state # Keep THEN "offline" ELSE believed
  /\ stamps' = {n.epoch : n \in found}
  /\ pc' = "stamp"
  /\ UNCHANGED <<chain, sub, found, spent>>

\* Slip: only last_sent_ts is written.
StampTime ==
  /\ pc = "stamp" /\ stamps # {}
  /\ \E e \in stamps : stamps' = stamps \ {e} /\ sub' = [sub EXCEPT !.ts = head]
  /\ UNCHANGED <<chain, pc, found, told, believed, spent>>

\* UpdateSubscriptionsLastSent per epoch, in the random order of a map.
Stamp ==
  /\ pc = "stamp" /\ stamps # {}
  /\ \E e \in stamps :
       /\ stamps' = stamps \ {e}
       /\ \/ sub' = [sub EXCEPT !.epoch = e, !.ts = head] /\ UNCHANGED spent
          \/ UNCHANGED sub /\ Spend("fault", MaxMishaps)
  /\ UNCHANGED <<chain, pc, found, told, believed>>

\* Slip: no state is written.
StoreNothing ==
  /\ pc = "stamp" /\ stamps = {}
  /\ pc' = "idle" /\ found' = {}
  /\ UNCHANGED <<chain, sub, stamps, told, believed, spent>>

\* UPDATE users_subscriptions SET internal_state
StoreState ==
  LET states == {n.state : n \in found} \ {Keep}
  IN /\ pc = "stamp" /\ stamps = {}
     /\ \/ /\ IF states = {} THEN UNCHANGED sub
              ELSE \E s \in states : sub' = [sub EXCEPT !.state = s]
           /\ UNCHANGED spent
        \/ states # {} /\ UNCHANGED sub /\ Spend("fault", MaxMishaps)
     /\ pc' = "idle" /\ found' = {}
     /\ UNCHANGED <<chain, stamps, told, believed>>

Crash ==
  /\ pc # "idle" /\ Spend("fault", MaxMishaps)
  /\ pc' = "idle" /\ found' = {} /\ stamps' = {}
  /\ UNCHANGED <<chain, sub, told, believed>>

----------------------------------------------------------------------------
(* The user *)

\* AddSubscription on a row that exists: event_threshold is replaced for some
\* kinds, for the others nothing is done.
ChangeThreshold ==
  /\ sub.kind \in {"offline", "machine", "collateral"}
  /\ Spend("change", MaxEdits)
  /\ \E t \in Thresholds \ {sub.threshold} : sub' = [sub EXCEPT !.threshold = t]
  /\ UNCHANGED <<chain, pc, found, stamps, told, believed>>

Next ==
  \/ Epoch \/ Collect \/ CollectFails \/ Queue \/ Stamp \/ StoreState \/ Crash \/ ChangeThreshold

\* The loop of notificationsSender runs for ever.
Fairness == WF_vars(Collect) /\ WF_vars(Queue) /\ WF_vars(Stamp) /\ WF_vars(StoreState)
Spec == Init /\ [][Next]_vars /\ Fairness

----------------------------------------------------------------------------
(* Types of the state. *)
TypeOK ==
  /\ head \in 0 .. MaxEpoch /\ fin \in 0 .. head /\ attested \subseteq 0 .. head
  /\ proposed \subseteq 0 .. head /\ slashed \in 0 .. head \cup {Never}
  /\ sub \in [kind : Kinds, created : Nat, epoch : Nat \cup {Never}, ts : Nat \cup {Never},
              state : Nat \cup {Back}, threshold : Thresholds]
  /\ pc \in {"idle", "queue", "stamp"} /\ stamps \subseteq Nat
  /\ found \subseteq [epoch : Nat, state : Nat \cup {Back, Keep}]

NoFaults == spent.fault = 0
Collects == pc = "idle" /\ found' # {}
ToldOf(n) == \E t \in told : t.epoch = n.epoch /\ t.state = n.state

(* Nobody is told twice of one missed attestation, one machine alarm or one *)
(* stage of an offline time, nor again of a slashing once its epoch is      *)
(* final, unless a statement failed: what a round stamps keeps later rounds *)
(* from finding the event again.                                            *)
NoRepeat ==
  [][ Collects /\ NoFaults
      /\ \/ sub.kind \in {"attestation", "machine"}
         \/ sub.kind = "offline" /\ spent.change = 0
         \/ sub.kind = "slashed" /\ slashed <= fin
      => \A n \in found' : ~ToldOf(n) ]_vars

(* Between two notices of a limited kind lies the whole pause, however late *)
(* the round queues and stamps what it collected.                           *)
PausesKept ==
  [][ pc = "queue" /\ pc' = "stamp" /\ NoFaults =>
        \A n \in found, t \in told :
          /\ sub.kind \in TimeKinds => head - t.at >= TimeGap[sub.kind]
          /\ sub.kind = "machine" => n.epoch - t.epoch > EpochGap["machine"]
          /\ sub.kind = "collateral" /\ n.epoch >= EpochGap["collateral"]
               => n.epoch - t.epoch > EpochGap["collateral"] ]_vars

(* "Back online" is only said to somebody who was told "offline", and only  *)
(* after an attestation later than the one the offline notice names, unless *)
(* the threshold was changed in between.                                    *)
BackWasAway ==
  [][ Collects /\ NoFaults /\ sub.kind = "offline" =>
        \A n \in found' : n.state = Back =>
          believed = "offline" /\ (spent.change = 0 => LastSeen > sub.state) ]_vars

(* Nobody is told of an event too often, nor of the end of what was not     *)
(* told.                                                                    *)
NotTooOften == NoRepeat /\ PausesKept /\ BackWasAway

(* Whoever was told "offline" is told when it is over (the comment at       *)
(* notifications.go:1573: "as otherwise the user might think they are still *)
(* offline"), if no statement fails and the explorer is not too far behind. *)
ToldWhenBack ==
  (believed = "offline" /\ head - LastSeen < MinThreshold)
    ~> (believed = "online" \/ head - LastSeen >= MinThreshold \/ Behind \/ ~NoFaults)

(* Again and again no proposal is left to tell, in whatever order a round   *)
(* stamps the proposals of several epochs, but those older than the epochs  *)
(* looked back for, unless notices stop because finality lags.              *)
ProposalsTold ==
  []<>(\A e \in proposed : (\E t \in told : t.epoch = e) \/ Behind \/ e + Window < fin)

(* A slashing is told, whatever fails on the way, unless notices stop       *)
(* because finality lags or it is older than the epochs looked back for.    *)
SlashingTold ==
  (slashed # Never) ~> (told # {} \/ Behind \/ fin = 0 \/ slashed + LookBack <= fin)

(* No slashing, no proposal and no end of an offline time is forgotten.     *)
EventsTold == SlashingTold /\ ProposalsTold /\ ToldWhenBack

=============================================================================
