------------------------- MODULE NotificationQueue -------------------------
(***************************************************************************)
(* The notification queue of services/notifications.go: the collector      *)
(* inserts rows, every process with Notifications.Sender set runs a loop   *)
(* that takes advisory lock 500, hands the unsent rows to mail, firebase,  *)
(* the webhooks and discord, removes old rows and gives the lock back.     *)
(* Posts to webhooks run in goroutines that outlive the lock.              *)
(*                                                                         *)
(* A message's content, the address and the url are left out: all mails go *)
(* to one address (the limit counts per address), a hook is its url.  Time *)
(* passes in half hours, and all of it lies within one day of mails_sent.  *)
(***************************************************************************)
EXTENDS Integers, Sequences, FiniteSetsExt

CONSTANTS
  Senders,      \* processes that run notificationSender
  Hooks,        \* rows of users_webhooks with destination "webhook"
  Discords,     \* rows of users_webhooks with destination "webhook_discord"
  RetryLimit,   \* 5 in the code
  MailLimit,    \* Frontend.MaxMailsPerEmailPerDay, 0 for no limit
  MaxRows,      \* bound on the rows ever queued
  MaxCalls,     \* bound on the rows for webhooks and discord among them
  MaxPosts,     \* bound on the posts of one row in flight in one process
  MaxFaults     \* bound on failed statements and crashes

NoHook == "none"  \* of a mail or push row
NoOne == "nobody"

QueueAssumption ==
  /\ {RetryLimit, MailLimit, MaxRows, MaxCalls, MaxPosts, MaxFaults} \subseteq Nat
  /\ RetryLimit > 0 /\ Hooks \cap Discords = {}
  /\ NoHook \notin Hooks \cup Discords /\ NoOne \notin Senders

Hour == 2  \* in half hours
Half == 1
AllHooks == Hooks \cup Discords
Channels == {"email", "push", "webhook", "webhook_discord"}

VARIABLES
  queue,    \* notification_queue by id: whether a row is "unsent", "sent" or
            \* deleted ("gone"), and the half hours since it was created and sent
  retries,  \* users_webhooks.retries
  mails,    \* mails_sent.cnt of the address, and the mails that left
  lock,     \* the process one of whose connections holds advisory lock 500
  pc, todo, \* where each sender is, and the ids it still has to handle
  posts,    \* posts[s][r]: goroutines of process s posting row r to its webhook
  jobs,     \* running discord goroutines
  handed,   \* how often a row was handed to its channel
  faults

vars == <<queue, retries, mails, lock, pc, todo, posts, jobs, handed, faults>>
senderVars == <<pc, todo, lock>>

Ids == 1 .. Len(queue)
Unsent(r) == queue[r].state = "unsent"
\* SELECT ... WHERE sent IS NULL AND channel = c ORDER BY created; ids grow with
\* the time of creation, so that the first of a selection is its lowest id.
Select(c) == {r \in Ids : Unsent(r) /\ queue[r].channel = c}
First(rows) == Min(rows)
Rest(rows) == rows \ {First(rows)}
\* UPDATE notification_queue SET sent = now() WHERE id = ANY(rows)
MarkSent(rows) ==
  queue' = [r \in Ids |-> IF r \in rows /\ queue[r].state # "gone"
                          THEN [queue[r] EXCEPT !.state = "sent", !.since = 0] ELSE queue[r]]
\* DELETE FROM notification_queue WHERE id = ANY(rows)
Deleted(r) == [queue[r] EXCEPT !.state = "gone", !.age = 0, !.since = 0]
MarkGone(rows) == queue' = [r \in Ids |-> IF r \in rows THEN Deleted(r) ELSE queue[r]]
\* The history of hand-overs saturates at one more than is ever allowed.
Once(n) == IF n > MaxFaults + 1 THEN n ELSE n + 1
\* A statement fails: the connection or the database is gone for a moment.
Fault == faults < MaxFaults /\ faults' = faults + 1

Init ==
  /\ queue = <<>> /\ handed = <<>> /\ faults = 0
  /\ retries = [h \in AllHooks |-> 0]
  /\ mails = [counted |-> 0, left |-> 0]
  /\ lock = NoOne
  /\ pc = [s \in Senders |-> "idle"] /\ todo = [s \in Senders |-> {}]
  /\ posts = [s \in Senders |-> [r \in 1 .. MaxRows |-> 0]]
  /\ jobs = {}

----------------------------------------------------------------------------
(* The collector's inserts: a row per mail, push batch and webhook call.  *)
(* A webhook row carries a copy of the hook's retries for good.           *)
Insert(c, h, tries) ==
  /\ Len(queue) < MaxRows
  /\ queue' = Append(queue, [channel |-> c, hook |-> h, tries |-> tries,
                             state |-> "unsent", age |-> 0, since |-> 0])
  /\ handed' = Append(handed, 0)
  /\ UNCHANGED <<retries, mails, senderVars, posts, jobs, faults>>

QueueEmail == Insert("email", NoHook, 0)
QueuePush == Insert("push", NoHook, 0)
\* From RetryLimit on nothing is queued for the hook.  The branch that would
\* reset its retries needs last_sent, which the query does not select.
QueueWebhook(h) ==
  /\ retries[h] < RetryLimit
  /\ Cardinality({r \in Ids : queue[r].hook # NoHook}) < MaxCalls
  /\ Insert(IF h \in Discords THEN "webhook_discord" ELSE "webhook", h, retries[h])

----------------------------------------------------------------------------
(* notificationSender *)
To(s, place, rows) == pc' = [pc EXCEPT ![s] = place] /\ todo' = [todo EXCEPT ![s] = rows]

\* Slip: the lock is requested with pg_try_advisory_lock and its answer ignored.
TryLock(s) ==
  /\ pc[s] = "idle"
  /\ lock' = IF lock = NoOne THEN s ELSE lock
  /\ To(s, "email", Select("email"))
  /\ UNCHANGED <<queue, retries, mails, posts, jobs, handed, faults>>

\* pg_advisory_lock(500), granted to a second call of the same session too.
TakeLock(s) ==
  /\ pc[s] = "idle" /\ lock \in {NoOne, s}
  /\ lock' = s
  /\ To(s, "email", Select("email"))
  /\ UNCHANGED <<queue, retries, mails, posts, jobs, handed, faults>>

\* SELECT pg_advisory_unlock(500).  When dispatching took more than the 30
\* seconds of ctx, the query fails and the connection goes back to the pool
\* with the lock still held by its session.
Unlock(s) ==
  /\ pc[s] = "unlock"
  /\ lock' \in {NoOne, s}
  /\ To(s, "idle", {})
  /\ UNCHANGED <<queue, retries, mails, posts, jobs, handed, faults>>

\* SetConnMaxIdleTime: a pooled connection is closed and its session ends.
ConnExpires(s) ==
  /\ pc[s] = "idle" /\ lock = s
  /\ lock' = NoOne
  /\ UNCHANGED <<queue, retries, mails, pc, todo, posts, jobs, handed, faults>>

----------------------------------------------------------------------------
(* sendEmailNotifications, with SendMailRateLimited per row *)
EmailsDone(s) ==
  /\ pc[s] = "email" /\ todo[s] = {}
  /\ To(s, "push", Select("push"))
  /\ UNCHANGED <<queue, retries, mails, lock, posts, jobs, handed, faults>>

\* Slip: a mail over the limit ends the dispatch, so that it is sent later.
CheckLimitOrStop(s) ==
  /\ pc[s] = "email" /\ todo[s] # {}
  /\ IF MailLimit > 0 /\ mails.counted >= MailLimit
     THEN To(s, "gc", {}) ELSE To(s, "count", todo[s])
  /\ UNCHANGED <<queue, retries, mails, lock, posts, jobs, handed, faults>>

\* GetMailsSentCount: over the limit, the mail is dropped and the row marked.
CheckLimit(s) ==
  /\ pc[s] = "email" /\ todo[s] # {}
  /\ To(s, IF MailLimit > 0 /\ mails.counted >= MailLimit THEN "mark_email" ELSE "count", todo[s])
  /\ UNCHANGED <<queue, retries, mails, lock, posts, jobs, handed, faults>>

\* Slip: a failing CountSentMail does not hold the mail back.
CountMailLoosely(s) ==
  /\ pc[s] = "count"
  /\ To(s, "mail", todo[s])
  /\ \/ mails' = [mails EXCEPT !.counted = @ + 1] /\ UNCHANGED faults
     \/ Fault /\ UNCHANGED mails
  /\ UNCHANGED <<queue, retries, lock, posts, jobs, handed>>

\* CountSentMail: when it fails the mail is not sent, and the row marked.
CountMail(s) ==
  /\ pc[s] = "count"
  /\ \/ /\ mails' = [mails EXCEPT !.counted = @ + 1]
        /\ To(s, "mail", todo[s]) /\ UNCHANGED faults
     \/ Fault /\ To(s, "mark_email", todo[s]) /\ UNCHANGED mails
  /\ UNCHANGED <<queue, retries, lock, posts, jobs, handed>>

\* SendHTMLMail: whatever it returns, the row is marked next.
SendMail(s) ==
  /\ pc[s] = "mail"
  /\ mails' = [mails EXCEPT !.left = @ + 1]
  /\ handed' = [handed EXCEPT ![First(todo[s])] = Once(@)]
  /\ To(s, "mark_email", todo[s])
  /\ UNCHANGED <<queue, retries, lock, posts, jobs, faults>>

\* A failed update ends the dispatch; the rows after it wait for the next one.
MarkRow(s, here, next) ==
  /\ pc[s] = here
  /\ \/ MarkSent({First(todo[s])}) /\ To(s, next, Rest(todo[s])) /\ UNCHANGED faults
     \/ Fault /\ To(s, "gc", {}) /\ UNCHANGED queue
  /\ UNCHANGED <<retries, mails, lock, posts, jobs, handed>>

MarkEmail(s) == MarkRow(s, "mark_email", "email")

----------------------------------------------------------------------------
(* sendPushNotifications *)
\* SendPushBatch: an error is logged, and the row marked all the same.
SendPush(s) ==
  /\ pc[s] = "push" /\ todo[s] # {}
  /\ handed' = [handed EXCEPT ![First(todo[s])] = Once(@)]
  /\ To(s, "mark_push", todo[s])
  /\ UNCHANGED <<queue, retries, mails, lock, posts, jobs, faults>>

MarkPush(s) == MarkRow(s, "mark_push", "push")

----------------------------------------------------------------------------
(* sendWebhookNotifications: a goroutine per row, none of them awaited.  A *)
(* row whose copied retries exceed the limit would be deleted here.        *)
StartPosts(s) ==
  LET rows == Select("webhook")
      due == {r \in rows : queue[r].tries <= RetryLimit}
  IN /\ pc[s] = "push" /\ todo[s] = {}
     /\ \A r \in due : posts[s][r] < MaxPosts
     /\ posts' = [posts EXCEPT ![s] = [r \in 1 .. MaxRows |-> IF r \in due THEN @[r] + 1 ELSE @[r]]]
     /\ MarkGone(rows \ due)
     /\ handed' = [r \in Ids |-> IF r \in due THEN Once(handed[r]) ELSE handed[r]]
     /\ To(s, "discords", {})
     /\ UNCHANGED <<retries, mails, lock, jobs, faults>>

PostEnds(s, r) ==
  /\ posts[s][r] > 0
  /\ posts' = [posts EXCEPT ![s][r] = @ - 1]
  /\ UNCHANGED <<mails, senderVars, jobs, handed>>

\* Status below 400: UPDATE notification_queue SET sent = now() names no row.
PostOk(s, r) ==
  /\ PostEnds(s, r)
  /\ \/ /\ MarkSent(Ids)
        /\ retries' = [retries EXCEPT ![queue[r].hook] = 0]
        /\ UNCHANGED faults
     \/ Fault /\ UNCHANGED <<queue, retries>>

\* No answer or status 400 and more: the row stays as it is.
PostFails(s, r) ==
  /\ PostEnds(s, r)
  /\ retries' = [retries EXCEPT ![queue[r].hook] = IF @ <= RetryLimit THEN @ + 1 ELSE @]
  /\ UNCHANGED <<queue, faults>>

----------------------------------------------------------------------------
(* sendDiscordNotifications: a goroutine per hook with all its rows *)
StartDiscord(s) ==
  LET rows == Select("webhook_discord")
      due == {r \in rows : queue[r].tries <= RetryLimit}
      Of(h) == {r \in due : queue[r].hook = h}
      hooks == {queue[r].hook : r \in due}
  IN /\ pc[s] = "discords"
     /\ \A h \in hooks : Cardinality({j \in jobs : j.by = s /\ j.hook = h}) < MaxPosts
     /\ jobs' = jobs \cup {[by |-> s, hook |-> h, rows |-> Of(h), left |-> Of(h),
                            tries |-> queue[First(Of(h))].tries] : h \in hooks}
     /\ MarkGone(rows \ due)
     /\ To(s, "gc", {})
     /\ UNCHANGED <<retries, mails, lock, posts, handed, faults>>

DiscordPost(j) ==
  /\ j.left # {} /\ j.tries <= RetryLimit
  /\ handed' = [handed EXCEPT ![First(j.left)] = Once(@)]
  /\ \E ok \in BOOLEAN :
       jobs' = (jobs \ {j}) \cup
               {IF ok THEN [j EXCEPT !.left = Rest(@), !.tries = 0]
                      ELSE [j EXCEPT !.tries = @ + 1]}
  /\ UNCHANGED <<queue, retries, mails, senderVars, posts, faults>>

\* The deferred function: it marks all rows of the hook, posted or not.
DiscordEnds(j) ==
  /\ j.left = {} \/ j.tries > RetryLimit
  /\ jobs' = jobs \ {j}
  /\ retries' = [retries EXCEPT ![j.hook] = j.tries]
  /\ MarkSent(j.rows)
  /\ UNCHANGED <<mails, senderVars, posts, handed, faults>>

----------------------------------------------------------------------------
\* garbageCollectNotificationQueue
CollectGarbage(s) ==
  /\ pc[s] = "gc"
  /\ MarkGone({r \in Ids : \/ queue[r].age > Hour
                           \/ queue[r].state = "sent" /\ queue[r].since > Half})
  /\ To(s, "unlock", {})
  /\ UNCHANGED <<retries, mails, lock, posts, jobs, handed, faults>>

\* The process stops: its session and its goroutines end with it.
Crash(s) ==
  /\ pc[s] # "idle" \/ lock = s \/ (\E r \in Ids : posts[s][r] > 0) \/ (\E j \in jobs : j.by = s)
  /\ Fault
  /\ To(s, "idle", {})
  /\ lock' = IF lock = s THEN NoOne ELSE lock
  /\ posts' = [posts EXCEPT ![s] = [r \in 1 .. MaxRows |-> 0]]
  /\ jobs' = {j \in jobs : j.by # s}
  /\ UNCHANGED <<queue, retries, mails, handed>>

\* Half an hour passes; more than the queue tells apart is not counted.
Tick ==
  /\ queue' = [r \in Ids |->
       IF queue[r].state = "gone" THEN queue[r]
       ELSE [queue[r] EXCEPT !.age = IF @ > Hour THEN @ ELSE @ + 1,
                             !.since = IF @ > Half \/ Unsent(r) THEN @ ELSE @ + 1]]
  /\ UNCHANGED <<retries, mails, senderVars, posts, jobs, handed, faults>>

Sender(s) ==
  \/ TakeLock(s) \/ CheckLimit(s) \/ CountMail(s) \/ SendMail(s)
  \/ MarkEmail(s) \/ EmailsDone(s) \/ SendPush(s) \/ MarkPush(s)
  \/ StartPosts(s) \/ StartDiscord(s) \/ CollectGarbage(s) \/ Unlock(s)

Goroutines ==
  \/ \E s \in Senders : \E r \in Ids : PostOk(s, r) \/ PostFails(s, r)
  \/ \E j \in jobs : DiscordPost(j) \/ DiscordEnds(j)

Collector == QueueEmail \/ QueuePush \/ \E h \in AllHooks : QueueWebhook(h)

Next ==
  \/ Collector \/ Goroutines \/ Tick
  \/ \E s \in Senders : Sender(s) \/ ConnExpires(s) \/ Crash(s)

(* The sender loops for ever, the http client of the posts has a timeout, *)
(* and the pool closes idle connections.                                  *)
Fairness ==
  /\ \A s \in Senders : WF_vars(Sender(s)) /\ WF_vars(ConnExpires(s))
  /\ WF_vars(Goroutines)

Spec == Init /\ [][Next]_vars /\ Fairness

----------------------------------------------------------------------------
Places == {"idle", "email", "count", "mail", "mark_email", 
           "push", "mark_push", "discords", "gc", "unlock"}

(* Types of the state; the retries copied into a row are below the limit,  *)
(* so the branches that remove a row above it are never taken.             *)
TypeOK ==
  /\ faults \in 0 .. MaxFaults
  /\ queue \in Seq([channel : Channels, hook : AllHooks \cup {NoHook}, tries : 0 .. RetryLimit - 1,
                    state : {"unsent", "sent", "gone"},
                    age : 0 .. Hour + 1, since : 0 .. Half + 1])
  /\ Len(handed) = Len(queue) /\ \A r \in Ids : handed[r] \in Nat
  /\ retries \in [AllHooks -> 0 .. RetryLimit + 1]
  /\ mails \in [counted : Nat, left : Nat]
  /\ lock \in Senders \cup {NoOne}
  /\ pc \in [Senders -> Places] /\ todo \in [Senders -> SUBSET Ids]
  /\ posts \in [Senders -> [1 .. MaxRows -> 0 .. MaxPosts]]
  /\ \A j \in jobs : j.by \in Senders /\ j.hook \in Discords /\ j.rows \subseteq Ids

(* Two processes never hand the same mail or push batch out twice: only a  *)
(* failed update or a crash between handing out and marking repeats one    *)
(* (the lock over reading the queue and marking its rows, :152-211).       *)
HandedOnce ==
  \A r \in Ids : queue[r].channel \in {"email", "push"} => handed[r] <= 1 + faults

(* The limit of mails per address and day holds although it is read,       *)
(* increased and used in three steps: the lock serialises the callers of   *)
(* SendMailRateLimited (mail.go:87-113).                                   *)
WithinMailLimit == MailLimit > 0 => mails.left <= MailLimit

(* A mail or push row does not wait for ever behind others: whatever mail, *)
(* firebase and the webhooks answer, it is marked, removed or an hour old. *)
RowsLeave ==
  \A r \in 1 .. MaxRows :
    (r \in Ids /\ Unsent(r) /\ queue[r].channel \in {"email", "push"})
      ~> (r \in Ids /\ (Unsent(r) => queue[r].age > Hour))

(* tables.sql:576 of the column sent: "record when the transaction was     *)
(* dispatched": a row with a time there has been handed to its channel.    *)
SentWasDispatched ==
  \A r \in Ids : queue[r].state = "sent" => handed[r] > 0

=============================================================================
