----------------------------- MODULE UsersProofs -----------------------------
(***************************************************************************)
(* Proofs about the components that serve users, in the composition the    *)
(* run checks: whichever of them moves, for every value of the constants.  *)
(***************************************************************************)
EXTENDS MCUsers, Sequences, NumberLemmas

-----------------------------------------------------------------------------
(* The composition *)

\* A step of the composition is a step of one component, and the variables of
\* the others stay.
LEMMA PartSteps ==
    ASSUME [Next]_vars
    PROVE  /\ P!Next \/ UNCHANGED ofPayments
           /\ R!Next \/ UNCHANGED ofReceipts
           /\ Q!Next \/ UNCHANGED ofQueue
           /\ W!Next \/ UNCHANGED ofWatchlist
  BY DEF Next, Payments, Receipt, Queue, Watch, vars, ofPayments, ofReceipts, ofQueue, ofWatchlist

-----------------------------------------------------------------------------
(* The queue of notifications: its table *)

QueueRow == [channel : Q!Channels, hook : Q!AllHooks \cup {Q!NoHook}, tries : 0 .. RetryLimit - 1,
             state : {"unsent", "sent", "gone"}, age : 0 .. Q!Hour + 1, since : 0 .. Q!Half + 1]
QueueTable ==
  /\ queue \in Seq(QueueRow) /\ Len(queue) <= MaxRows
  /\ handed \in Seq(Nat) /\ Len(handed) = Len(queue)
  /\ \A r \in Q!Ids : queue[r].channel = "webhook_discord" => queue[r].hook \in Discords
QueueCounts ==
  /\ faults \in 0 .. MaxFaults /\ retries \in [Q!AllHooks -> 0 .. RetryLimit + 1]
  /\ mails \in [counted : Nat, left : Nat]

\* The rows after a step that adds none: the channel and the hook of a row
\* stay, and a row that has left the queue does not come back.
RowsStay(picked, later) ==
  /\ later \in Seq(QueueRow) /\ Len(later) = Len(picked)
  /\ \A r \in 1 .. Len(picked) :
       /\ later[r].channel = picked[r].channel /\ later[r].hook = picked[r].hook
       /\ later[r].state = "unsent" => picked[r].state = "unsent"

\* The constants of the queue.
LEMMA QueueConstants ==
    /\ RetryLimit \in Nat /\ RetryLimit > 0 /\ MailLimit \in Nat /\ MaxRows \in Nat
    /\ MaxCalls \in Nat /\ MaxPosts \in Nat /\ MaxFaults \in Nat
    /\ Hooks \cap Discords = {} /\ Q!NoHook \notin Hooks \cup Discords
    /\ Q!NoOne \notin Senders
  BY UsersAssumption DEF Q!QueueAssumption

\* A function on the indices of the table is a table.
LEMMA TableOf ==
    ASSUME QueueTable, NEW G, G \in [Q!Ids -> QueueRow]
    PROVE  G \in Seq(QueueRow) /\ Len(G) = Len(queue)
  BY DEF QueueTable, Q!Ids

\* The set of rows, whatever the values of the columns that never change.
LEMMA RowsAre ==
    \E cs, hs, ts : QueueRow = [channel : cs, hook : hs, tries : ts, state : {"unsent", "sent", "gone"},
                                age : 0 .. 3, since : 0 .. 2]
  <1>1. Q!Hour + 1 = 3 /\ Q!Half + 1 = 2
    BY DEF Q!Hour, Q!Half
  <1>2. QueueRow = [channel : Q!Channels, hook : Q!AllHooks \cup {Q!NoHook},
                    tries : 0 .. RetryLimit - 1, state : {"unsent", "sent", "gone"},
                    age : 0 .. 3, since : 0 .. 2]
    BY <1>1 DEF QueueRow
  <1> QED
    BY <1>2, Zenon

\* Rows that are marked as sent stay in every other way.
LEMMA MarkSentStays ==
    ASSUME QueueTable, NEW picked, Q!MarkSent(picked)
    PROVE  RowsStay(queue, queue')
  <1> DEFINE Marked(r) == IF r \in picked /\ queue[r].state # "gone"
                          THEN [queue[r] EXCEPT !.state = "sent", !.since = 0] ELSE queue[r]
  <1>1. queue' = [r \in Q!Ids |-> Marked(r)]
    BY DEF Q!MarkSent
  <1>2. \A r \in Q!Ids : queue[r] \in QueueRow
    BY DEF QueueTable, Q!Ids
  <1>3. \A r \in Q!Ids : /\ Marked(r) \in QueueRow /\ Marked(r).channel = queue[r].channel
                         /\ Marked(r).hook = queue[r].hook
                         /\ Marked(r).state = "unsent" => queue[r].state = "unsent"
    <2> TAKE r \in Q!Ids
    <2>1. queue[r] \in QueueRow
      BY <1>2
    <2>0. PICK cs, hs, ts : QueueRow = [channel : cs, hook : hs, tries : ts,
                                        state : {"unsent", "sent", "gone"},
                                        age : 0 .. 3, since : 0 .. 2]
      BY RowsAre
    <2>2. Marked(r) = queue[r] \/ Marked(r) = [queue[r] EXCEPT !.state = "sent", !.age = queue[r].age,
                                                             !.since = 0]
      BY <2>1 DEF QueueRow
    <2>3. queue[r].age \in 0 .. 3
      BY <2>1 DEF QueueRow, Q!Hour
    <2> HIDE DEF Marked
    <2>4. CASE Marked(r) = queue[r]
      BY <2>1, <2>4
    <2>5. CASE Marked(r) = [queue[r] EXCEPT !.state = "sent", !.age = queue[r].age, !.since = 0]
      <3>1. "sent" \in {"unsent", "sent", "gone"} /\ 0 \in 0 .. 2
        OBVIOUS
      <3>2. /\ Marked(r) \in QueueRow /\ Marked(r).channel = queue[r].channel
            /\ Marked(r).hook = queue[r].hook /\ Marked(r).state = "sent"
        BY ONLY <2>1, <2>3, <2>5, <3>1, <2>0
      <3> QED
        BY <3>2
    <2> QED
      BY <2>2, <2>4, <2>5
  <1> HIDE DEF Marked
  <1>4. queue' \in Seq(QueueRow) /\ Len(queue') = Len(queue)
    BY <1>1, <1>3, TableOf
  <1> QED
    BY <1>1, <1>3, <1>4 DEF RowsStay, Q!Ids

\* So do rows that are deleted.
LEMMA MarkGoneStays ==
    ASSUME QueueTable, NEW picked, Q!MarkGone(picked)
    PROVE  RowsStay(queue, queue')
  <1> DEFINE Marked(r) == IF r \in picked THEN Q!Deleted(r) ELSE queue[r]
  <1>1. queue' = [r \in Q!Ids |-> Marked(r)]
    BY DEF Q!MarkGone
  <1>2. \A r \in Q!Ids : queue[r] \in QueueRow
    BY DEF QueueTable, Q!Ids
  <1>3. \A r \in Q!Ids : /\ Marked(r) \in QueueRow /\ Marked(r).channel = queue[r].channel
                         /\ Marked(r).hook = queue[r].hook
                         /\ Marked(r).state = "unsent" => queue[r].state = "unsent"
    <2> TAKE r \in Q!Ids
    <2>1. queue[r] \in QueueRow
      BY <1>2
    <2>0. PICK cs, hs, ts : QueueRow = [channel : cs, hook : hs, tries : ts,
                                        state : {"unsent", "sent", "gone"},
                                        age : 0 .. 3, since : 0 .. 2]
      BY RowsAre
    <2>2. Marked(r) = queue[r] \/ Marked(r) = [queue[r] EXCEPT !.state = "gone", !.age = 0, !.since = 0]
      BY DEF Q!Deleted
    <2> HIDE DEF Marked
    <2>4. CASE Marked(r) = queue[r]
      BY <2>1, <2>4
    <2>5. CASE Marked(r) = [queue[r] EXCEPT !.state = "gone", !.age = 0, !.since = 0]
      <3>1. "gone" \in {"unsent", "sent", "gone"} /\ 0 \in 0 .. 2 /\ 0 \in 0 .. 3
        OBVIOUS
      <3>2. /\ Marked(r) \in QueueRow /\ Marked(r).channel = queue[r].channel
            /\ Marked(r).hook = queue[r].hook /\ Marked(r).state = "gone"
        BY ONLY <2>1, <2>5, <3>1, <2>0
      <3> QED
        BY <3>2
    <2> QED
      BY <2>2, <2>4, <2>5
  <1> HIDE DEF Marked
  <1>4. queue' \in Seq(QueueRow) /\ Len(queue') = Len(queue)
    BY <1>1, <1>3, TableOf
  <1> QED
    BY <1>1, <1>3, <1>4 DEF RowsStay, Q!Ids

\* Time changes the ages only.
LEMMA TickStays ==
    ASSUME QueueTable, Q!Tick
    PROVE  RowsStay(queue, queue')
  <1> DEFINE Older(r) == IF queue[r].state = "gone" THEN queue[r]
       ELSE [queue[r] EXCEPT !.age = IF @ > Q!Hour THEN @ ELSE @ + 1,
                             !.since = IF @ > Q!Half \/ Q!Unsent(r) THEN @ ELSE @ + 1]
  <1>1. queue' = [r \in Q!Ids |-> Older(r)]
    BY DEF Q!Tick
  <1>2. \A r \in Q!Ids : queue[r] \in QueueRow
    BY DEF QueueTable, Q!Ids
  <1>3. \A r \in Q!Ids : /\ Older(r) \in QueueRow /\ Older(r).channel = queue[r].channel
                         /\ Older(r).hook = queue[r].hook
                         /\ Older(r).state = "unsent" => queue[r].state = "unsent"
    <2> TAKE r \in Q!Ids
    <2>1. queue[r] \in QueueRow
      BY <1>2
    <2>0. PICK cs, hs, ts : QueueRow = [channel : cs, hook : hs, tries : ts,
                                        state : {"unsent", "sent", "gone"},
                                        age : 0 .. 3, since : 0 .. 2]
      BY RowsAre
    <2> DEFINE a == IF queue[r].age > 2 THEN queue[r].age ELSE queue[r].age + 1
               n == IF queue[r].since > 1 \/ Q!Unsent(r) THEN queue[r].since ELSE queue[r].since + 1
               s == queue[r].state
    <2>2. queue[r].age \in 0 .. 3 /\ queue[r].since \in 0 .. 2 /\ s \in {"unsent", "sent", "gone"}
      BY <2>1 DEF QueueRow, Q!Hour, Q!Half
    <2>3. a \in 0 .. 3
      BY <2>2
    <2>4. n \in 0 .. 2
      BY <2>2
    <2>5. Older(r) = queue[r] \/ Older(r) = [queue[r] EXCEPT !.state = s, !.age = a, !.since = n]
      BY <2>1 DEF QueueRow, Q!Hour, Q!Half
    <2> HIDE DEF Older, a, n, s
    <2>6. CASE Older(r) = queue[r]
      BY <2>1, <2>6
    <2>7. CASE Older(r) = [queue[r] EXCEPT !.state = s, !.age = a, !.since = n]
      <3>1. /\ Older(r) \in QueueRow /\ Older(r).channel = queue[r].channel
            /\ Older(r).hook = queue[r].hook /\ Older(r).state = s
        BY ONLY <2>1, <2>2, <2>3, <2>4, <2>7, <2>0
      <3> QED
        BY <3>1 DEF s
    <2> QED
      BY <2>5, <2>6, <2>7
  <1> HIDE DEF Older
  <1>4. queue' \in Seq(QueueRow) /\ Len(queue') = Len(queue)
    BY <1>1, <1>3, TableOf
  <1> QED
    BY <1>1, <1>3, <1>4 DEF RowsStay, Q!Ids

\* Nothing happens to the rows.
LEMMA SameStays ==
    ASSUME QueueTable, UNCHANGED queue
    PROVE  RowsStay(queue, queue')
  BY DEF QueueTable, RowsStay

\* The collector appends one row, which nobody has handed out.
RowAdded ==
  \E row \in QueueRow :
    /\ queue' = Append(queue, row) /\ handed' = Append(handed, 0) /\ Len(queue) < MaxRows
    /\ row.channel = "webhook_discord" => row.hook \in Discords
    /\ UNCHANGED <<retries, mails, pc, todo, lock, posts, jobs, faults>>

\* A row that is queued is well formed.
LEMMA CollectorAdds ==
    ASSUME QueueCounts, Q!Collector
    PROVE  RowAdded
  <1> DEFINE Row(c, h, t) == [channel |-> c, hook |-> h, tries |-> t,
                              state |-> "unsent", age |-> 0, since |-> 0]
  <1>1. ASSUME NEW c \in Q!Channels, NEW h \in Q!AllHooks \cup {Q!NoHook},
               NEW t \in 0 .. RetryLimit - 1, Q!Insert(c, h, t),
               c = "webhook_discord" => h \in Discords
        PROVE  RowAdded
    <2>1. Row(c, h, t) \in QueueRow
      BY DEF QueueRow, Q!Hour, Q!Half
    <2>2. queue' = Append(queue, Row(c, h, t)) /\ Row(c, h, t).channel = c /\ Row(c, h, t).hook = h
      BY <1>1 DEF Q!Insert
    <2> QED
      BY <1>1, <2>1, <2>2 DEF RowAdded, Q!Insert, Q!senderVars
  <1>2. 0 \in 0 .. RetryLimit - 1
    BY QueueConstants
  <1>3. CASE Q!QueueEmail \/ Q!QueuePush
    BY <1>1, <1>2, <1>3 DEF Q!QueueEmail, Q!QueuePush, Q!Channels
  <1>4. ASSUME NEW h \in Q!AllHooks, Q!QueueWebhook(h)
        PROVE  RowAdded
    <2>1. retries[h] \in 0 .. RetryLimit - 1
      <3>1. retries[h] \in 0 .. RetryLimit + 1 /\ retries[h] < RetryLimit
        BY <1>4 DEF QueueCounts, Q!QueueWebhook
      <3> QED
        BY <3>1, QueueConstants
    <2> DEFINE c == IF h \in Discords THEN "webhook_discord" ELSE "webhook"
    <2>2. Q!Insert(c, h, retries[h])
      BY <1>4 DEF Q!QueueWebhook
    <2>3. c \in Q!Channels /\ (c = "webhook_discord" => h \in Discords)
      BY DEF Q!Channels
    <2> HIDE DEF c
    <2> QED
      BY <1>1, <2>1, <2>2, <2>3
  <1> QED
    BY <1>3, <1>4 DEF Q!Collector

-----------------------------------------------------------------------------
(* The queue of notifications: its processes *)

\* Who holds the lock works alone; a row in hand is of the channel of the place.
QueuePlaces ==
  /\ lock \in Senders \cup {Q!NoOne} /\ pc \in [Senders -> Q!Places]
  /\ todo \in [Senders -> SUBSET Q!Ids]
  /\ \A s \in Senders :
       /\ pc[s] # "idle" => lock = s
       /\ pc[s] \in {"count", "mail", "mark_email", "mark_push"} => todo[s] # {}
QueueTodo ==
  \A s \in Senders : \A r \in todo[s] :
    /\ pc[s] \in {"email", "count", "mail", "mark_email"} => queue[r].channel = "email"
    /\ pc[s] \in {"push", "mark_push"} => queue[r].channel = "push"
QueueCalls ==
  /\ posts \in [Senders -> [1 .. MaxRows -> 0 .. MaxPosts]]
  /\ jobs \subseteq [by : Senders, hook : Discords, rows : SUBSET Q!Ids, left : SUBSET Q!Ids,
                     tries : 0 .. RetryLimit + 1]
  /\ \A j \in jobs : j.left \subseteq j.rows
                     /\ \A r \in j.rows : queue[r].channel = "webhook_discord"

\* The first of some rows is one of them.
LEMMA FirstOf ==
    ASSUME QueueTable, NEW picked \in SUBSET Q!Ids, picked # {}
    PROVE  Q!First(picked) \in picked /\ Q!First(picked) \in Q!Ids /\ Q!Rest(picked) = picked \ {Q!First(picked)}
  <1>1. Len(queue) \in Nat /\ picked \subseteq 0 .. Len(queue)
    BY DEF QueueTable, Q!Ids
  <1>2. Min(picked) \in picked
    BY <1>1, MinOfInterval
  <1>3. Q!Min(picked) = Min(picked)
    BY Zenon DEF Q!Min, Min
  <1> QED
    BY <1>2, <1>3 DEF Q!First, Q!Rest

\* A count of hand-overs grows by one, or has reached its end.
LEMMA OnceIs ==
    ASSUME NEW n \in Nat
    PROVE  Q!Once(n) \in Nat /\ Q!Once(n) <= n + 1
  BY QueueConstants DEF Q!Once

\* The table, after a step that adds no row.
TableStays ==
  /\ RowsStay(queue, queue')
  /\ handed' \in Seq(Nat) /\ Len(handed') = Len(handed)

\* A step adds a row or keeps them.
LEMMA TableMoves ==
    ASSUME QueueTable, QueueCounts, QueuePlaces, Q!Next
    PROVE  RowAdded \/ TableStays
  <1>1. CASE Q!Collector
    BY <1>1, CollectorAdds
  <1>2. ASSUME UNCHANGED handed, RowsStay(queue, queue')
        PROVE  TableStays
    BY <1>2 DEF TableStays, QueueTable
  <1>3. CASE Q!Tick
    BY <1>2, <1>3, TickStays DEF Q!Tick
  <1>4. ASSUME NEW s \in Senders, NEW r \in Q!Ids, Q!PostOk(s, r) \/ Q!PostFails(s, r)
        PROVE  TableStays
    <2>1. UNCHANGED handed /\ ((\E picked : Q!MarkSent(picked)) \/ UNCHANGED queue)
      BY <1>4 DEF Q!PostOk, Q!PostFails, Q!PostEnds
    <2> QED
      BY <2>1, <1>2, MarkSentStays, SameStays
  <1>5. ASSUME NEW d, [handed EXCEPT ![d] = Q!Once(@)] = handed'
        PROVE  handed' \in Seq(Nat) /\ Len(handed') = Len(handed)
    <2>1. \A i \in DOMAIN handed : Q!Once(handed[i]) \in Nat
      BY OnceIs DEF QueueTable
    <2> QED
      BY <1>5, <2>1 DEF QueueTable
  <1>6. ASSUME NEW j \in jobs, Q!DiscordPost(j) \/ Q!DiscordEnds(j)
        PROVE  TableStays
    <2>1. CASE Q!DiscordPost(j)
      BY <2>1, <1>5, SameStays DEF Q!DiscordPost, TableStays
    <2>2. CASE Q!DiscordEnds(j)
      BY <2>2, <1>2, MarkSentStays DEF Q!DiscordEnds
    <2> QED
      BY <1>6, <2>1, <2>2
  <1>7. ASSUME NEW s \in Senders, Q!ConnExpires(s) \/ Q!Crash(s)
        PROVE  TableStays
    BY <1>2, <1>7, SameStays DEF Q!ConnExpires, Q!Crash
  <1>8. ASSUME NEW s \in Senders, Q!Sender(s)
        PROVE  TableStays
    <2>1. CASE Q!TakeLock(s) \/ Q!CheckLimit(s) \/ Q!CountMail(s) \/ Q!EmailsDone(s) \/ Q!Unlock(s)
      BY <1>2, <2>1, SameStays
         DEF Q!TakeLock, Q!CheckLimit, Q!CountMail, Q!EmailsDone, Q!Unlock
    <2>2. CASE Q!SendMail(s) \/ Q!SendPush(s)
      BY <2>2, <1>5, SameStays DEF Q!SendMail, Q!SendPush, TableStays
    <2>3. CASE Q!MarkEmail(s) \/ Q!MarkPush(s)
      <3>1. UNCHANGED handed /\ ((\E picked : Q!MarkSent(picked)) \/ UNCHANGED queue)
        BY <2>3 DEF Q!MarkEmail, Q!MarkPush, Q!MarkRow
      <3> QED
        BY <3>1, <1>2, MarkSentStays, SameStays
    <2>4. CASE Q!StartPosts(s)
      <3>1. PICK ready : handed' = [r \in Q!Ids |-> IF r \in ready THEN Q!Once(handed[r]) ELSE handed[r]]
        BY <2>4 DEF Q!StartPosts
      <3>2. \A r \in Q!Ids : handed[r] \in Nat /\ Q!Once(handed[r]) \in Nat
        BY OnceIs DEF QueueTable, Q!Ids
      <3>3. handed' \in [1 .. Len(handed) -> Nat]
        BY <3>1, <3>2 DEF QueueTable, Q!Ids
      <3>4. handed' \in Seq(Nat) /\ Len(handed') = Len(handed)
        BY <3>3 DEF QueueTable
      <3>5. \E picked : Q!MarkGone(picked)
        BY <2>4 DEF Q!StartPosts
      <3> QED
        BY <3>4, <3>5, MarkGoneStays DEF TableStays
    <2>5. CASE Q!StartDiscord(s) \/ Q!CollectGarbage(s)
      <3>1. UNCHANGED handed /\ \E picked : Q!MarkGone(picked)
        BY <2>5 DEF Q!StartDiscord, Q!CollectGarbage
      <3> QED
        BY <1>2, <3>1, MarkGoneStays
    <2> QED
      BY <1>8, <2>1, <2>2, <2>3, <2>4, <2>5 DEF Q!Sender
  <1> QED
    BY <1>1, <1>3, <1>4, <1>6, <1>7, <1>8 DEF Q!Next, Q!Goroutines

\* The table keeps its type, and its old rows their place.
LEMMA QueueTableStep ==
    ASSUME QueueTable, QueueCounts, QueuePlaces, Q!Next
    PROVE  /\ QueueTable' /\ Q!Ids \subseteq Q!Ids'
           /\ \A r \in Q!Ids : queue'[r].channel = queue[r].channel
  <1>1. CASE RowAdded
    <2>1. PICK row \in QueueRow :
            /\ queue' = Append(queue, row) /\ handed' = Append(handed, 0) /\ Len(queue) < MaxRows
            /\ row.channel = "webhook_discord" => row.hook \in Discords
      BY <1>1 DEF RowAdded
    <2>2. /\ queue' \in Seq(QueueRow) /\ Len(queue') = Len(queue) + 1
          /\ handed' \in Seq(Nat) /\ Len(handed') = Len(handed) + 1
          /\ Len(queue) \in Nat
      BY <2>1 DEF QueueTable
    <2>3. /\ \A r \in 1 .. Len(queue) : queue'[r] = queue[r]
          /\ queue'[Len(queue) + 1] = row
      BY <2>1 DEF QueueTable
    <2>4. Len(queue') <= MaxRows
      BY <2>1, <2>2, QueueConstants
    <2>5. ASSUME NEW r \in 1 .. Len(queue'), queue'[r].channel = "webhook_discord"
          PROVE  queue'[r].hook \in Discords
      <3>1. r \in 1 .. Len(queue) \/ r = Len(queue) + 1
        BY <2>2
      <3> QED
        BY <2>1, <2>3, <2>5, <3>1 DEF QueueTable, Q!Ids
    <2> QED
      BY <2>2, <2>3, <2>4, <2>5 DEF QueueTable, Q!Ids
  <1>2. CASE TableStays
    BY <1>2 DEF TableStays, RowsStay, QueueTable, Q!Ids
  <1> QED
    BY <1>1, <1>2, TableMoves

\* The counters keep their types.
LEMMA QueueCountsStep ==
    ASSUME QueueTable, QueueCounts, QueuePlaces, QueueCalls, Q!Next
    PROVE  QueueCounts'
  <1>1. ASSUME faults' = faults \/ Q!Fault
        PROVE  faults' \in 0 .. MaxFaults
    BY <1>1, QueueConstants DEF QueueCounts, Q!Fault
  <1>2. ASSUME UNCHANGED <<retries, mails>>, faults' = faults \/ Q!Fault
        PROVE  QueueCounts'
    BY <1>1, <1>2 DEF QueueCounts
  <1>3. ASSUME NEW h, NEW n \in 0 .. RetryLimit + 1, retries' = [retries EXCEPT ![h] = n]
        PROVE  retries' \in [Q!AllHooks -> 0 .. RetryLimit + 1]
    BY <1>3 DEF QueueCounts
  <1>4. ASSUME NEW s \in Senders, Q!Sender(s) \/ Q!ConnExpires(s) \/ Q!Crash(s)
        PROVE  QueueCounts'
    <2>1. CASE Q!CountMail(s)
      <3>1. mails' \in [counted : Nat, left : Nat] /\ UNCHANGED retries
        BY <2>1 DEF Q!CountMail, QueueCounts
      <3> QED
        BY <2>1, <1>1, <3>1 DEF Q!CountMail, QueueCounts
    <2>2. CASE Q!SendMail(s)
      BY <2>2 DEF Q!SendMail, QueueCounts
    <2>3. CASE Q!MarkEmail(s) \/ Q!MarkPush(s) \/ Q!Crash(s)
      BY <1>2, <2>3 DEF Q!MarkEmail, Q!MarkPush, Q!MarkRow, Q!Crash
    <2>4. CASE Q!TakeLock(s) \/ Q!CheckLimit(s) \/ Q!EmailsDone(s) \/ Q!SendPush(s) \/ Q!StartPosts(s)
      BY <1>2, <2>4 DEF Q!TakeLock, Q!CheckLimit, Q!EmailsDone, Q!SendPush, Q!StartPosts
    <2>5. CASE Q!StartDiscord(s) \/ Q!CollectGarbage(s) \/ Q!Unlock(s) \/ Q!ConnExpires(s)
      BY <1>2, <2>5 DEF Q!StartDiscord, Q!CollectGarbage, Q!Unlock, Q!ConnExpires
    <2> QED
      BY <1>4, <2>1, <2>2, <2>3, <2>4, <2>5 DEF Q!Sender
  <1>5. ASSUME NEW s \in Senders, NEW r \in Q!Ids, Q!PostOk(s, r)
        PROVE  QueueCounts'
    <2>1. retries' \in [Q!AllHooks -> 0 .. RetryLimit + 1]
      <3>1. CASE UNCHANGED retries
        BY <3>1 DEF QueueCounts
      <3>2. CASE retries' = [retries EXCEPT ![queue[r].hook] = 0]
        <4>1. 0 \in 0 .. RetryLimit + 1
          BY QueueConstants
        <4> QED
          BY <3>2, <4>1, <1>3
      <3> QED
        BY <1>5, <3>1, <3>2 DEF Q!PostOk
    <2>2. (faults' = faults \/ Q!Fault) /\ UNCHANGED mails
      BY <1>5 DEF Q!PostOk, Q!PostEnds
    <2> QED
      BY <1>1, <2>1, <2>2 DEF QueueCounts
  <1>6. ASSUME NEW s \in Senders, NEW r \in Q!Ids, Q!PostFails(s, r)
        PROVE  QueueCounts'
    <2>1. retries' = [retries EXCEPT ![queue[r].hook] = IF @ <= RetryLimit THEN @ + 1 ELSE @]
          /\ UNCHANGED <<mails, faults>>
      BY <1>6 DEF Q!PostFails, Q!PostEnds
    <2>2. retries \in [Q!AllHooks -> 0 .. RetryLimit + 1]
      BY DEF QueueCounts
    <2>3. \A n \in 0 .. RetryLimit + 1 : (IF n <= RetryLimit THEN n + 1 ELSE n) \in 0 .. RetryLimit + 1
      BY QueueConstants
    <2>4. retries' \in [Q!AllHooks -> 0 .. RetryLimit + 1]
      BY <2>1, <2>2, <2>3
    <2> QED
      BY <2>1, <2>4 DEF QueueCounts
  <1>7. ASSUME NEW j \in jobs, Q!DiscordPost(j) \/ Q!DiscordEnds(j)
        PROVE  QueueCounts'
    <2>1. CASE Q!DiscordPost(j)
      BY <2>1, <1>2 DEF Q!DiscordPost
    <2>2. CASE Q!DiscordEnds(j)
      <3>1. j.tries \in 0 .. RetryLimit + 1
        BY DEF QueueCalls
      <3>2. retries' \in [Q!AllHooks -> 0 .. RetryLimit + 1]
        BY <2>2, <3>1, <1>3 DEF Q!DiscordEnds
      <3> QED
        BY <2>2, <3>2 DEF Q!DiscordEnds, QueueCounts
    <2> QED
      BY <1>7, <2>1, <2>2
  <1>8. CASE Q!Tick
    BY <1>8, <1>2 DEF Q!Tick
  <1>9. CASE Q!Collector
    BY <1>9, <1>2, CollectorAdds DEF RowAdded
  <1> QED
    BY <1>4, <1>5, <1>6, <1>7, <1>8, <1>9 DEF Q!Next, Q!Goroutines

\* A sender moves to a place while it alone works.
LEMMA SenderMoves ==
    ASSUME QueuePlaces, Q!Ids \subseteq Q!Ids',
           NEW s \in Senders, NEW place \in Q!Places, NEW ids \in SUBSET Q!Ids,
           Q!To(s, place, ids), lock' \in {lock, s, Q!NoOne},
           lock' # lock => lock \in {s, Q!NoOne},
           place # "idle" => lock' = s,
           place \in {"count", "mail", "mark_email", "mark_push"} => ids # {}
    PROVE  QueuePlaces'
  <1>1. pc' \in [Senders -> Q!Places] /\ todo' \in [Senders -> SUBSET Q!Ids]
    BY DEF Q!To, QueuePlaces
  <1>2. todo' \in [Senders -> SUBSET (Q!Ids')]
    BY <1>1
  <1>3. ASSUME NEW z \in Senders, z # s
        PROVE  /\ pc'[z] # "idle" => lock' = z
               /\ pc'[z] \in {"count", "mail", "mark_email", "mark_push"} => todo'[z] # {}
    <2>1. pc'[z] = pc[z] /\ todo'[z] = todo[z]
      BY <1>3 DEF Q!To, QueuePlaces
    <2> QED
      BY <1>3, <2>1, QueueConstants DEF QueuePlaces
  <1>4. pc'[s] = place /\ todo'[s] = ids
    BY DEF Q!To, QueuePlaces
  <1>5. lock' \in Senders \cup {Q!NoOne}
    BY DEF QueuePlaces
  <1> QED
    BY <1>1, <1>2, <1>3, <1>4, <1>5 DEF QueuePlaces

\* Selected rows are rows of the channel.
LEMMA SelectIs ==
    ASSUME NEW c
    PROVE  Q!Select(c) \in SUBSET Q!Ids /\ \A r \in Q!Select(c) : queue[r].channel = c /\ Q!Unsent(r)
  BY DEF Q!Select

\* Where a step of a sender leads, and with which rows.
Leads(s, place, ids) ==
  /\ Q!To(s, place, ids) /\ place \in Q!Places /\ ids \in SUBSET Q!Ids
  /\ lock' \in {lock, s, Q!NoOne} /\ (lock' # lock => lock \in {s, Q!NoOne})
  /\ place # "idle" => lock' = s
  /\ place \in {"count", "mail", "mark_email", "mark_push"} => ids # {}
  /\ \/ ids = {}
     \/ place = "email" /\ ids = Q!Select("email") /\ pc[s] = "idle"
     \/ place = "push" /\ ids = Q!Select("push") /\ pc[s] = "email"
     \/ pc[s] = "email" /\ place \in {"mark_email", "count"} /\ ids = todo[s]
     \/ pc[s] = "count" /\ place \in {"mark_email", "mail"} /\ ids = todo[s]
     \/ pc[s] = "mail" /\ place = "mark_email" /\ ids = todo[s]
     \/ pc[s] = "mark_email" /\ place = "email" /\ ids = Q!Rest(todo[s])
     \/ pc[s] = "push" /\ place = "mark_push" /\ ids = todo[s]
     \/ pc[s] = "mark_push" /\ place = "push" /\ ids = Q!Rest(todo[s])

\* Every step of a sender leads somewhere.
LEMMA SenderLeads ==
    ASSUME QueueTable, QueuePlaces, NEW s \in Senders, Q!Sender(s) \/ Q!Crash(s)
    PROVE  \E place, ids : Leads(s, place, ids)
  <1>1. todo[s] \in SUBSET Q!Ids /\ {} \in SUBSET Q!Ids
    BY DEF QueuePlaces
  <1>2. pc[s] # "idle" => lock = s
    BY DEF QueuePlaces
  <1>3. CASE Q!TakeLock(s)
    <2>1. Leads(s, "email", Q!Select("email"))
      BY <1>3, SelectIs DEF Q!TakeLock, Leads, Q!Places
    <2> QED
      BY <2>1
  <1>4. CASE Q!CheckLimit(s)
    <2>1. Leads(s, "mark_email", todo[s]) \/ Leads(s, "count", todo[s])
      BY <1>4, <1>1, <1>2 DEF Q!CheckLimit, Leads, Q!Places
    <2> QED
      BY <2>1
  <1>5. CASE Q!CountMail(s)
    <2>1. todo[s] # {}
      BY <1>5 DEF Q!CountMail, QueuePlaces
    <2>2. Leads(s, "mark_email", todo[s]) \/ Leads(s, "mail", todo[s])
      BY <1>5, <1>1, <1>2, <2>1 DEF Q!CountMail, Leads, Q!Places
    <2> QED
      BY <2>2
  <1>6. CASE Q!SendMail(s)
    <2>1. todo[s] # {}
      BY <1>6 DEF Q!SendMail, QueuePlaces
    <2>2. Leads(s, "mark_email", todo[s])
      BY <1>6, <1>1, <1>2, <2>1 DEF Q!SendMail, Leads, Q!Places
    <2> QED
      BY <2>2
  <1>7. CASE Q!MarkEmail(s) \/ Q!MarkPush(s)
    <2>1. todo[s] # {}
      BY <1>7 DEF Q!MarkEmail, Q!MarkPush, Q!MarkRow, QueuePlaces
    <2>2. Q!Rest(todo[s]) \in SUBSET Q!Ids
      BY <2>1, <1>1, FirstOf
    <2>3. \/ Leads(s, "email", Q!Rest(todo[s])) \/ Leads(s, "push", Q!Rest(todo[s]))
          \/ Leads(s, "gc", {})
      BY <1>7, <1>1, <1>2, <2>2 DEF Q!MarkEmail, Q!MarkPush, Q!MarkRow, Leads, Q!Places
    <2> QED
      BY <2>3
  <1>8. CASE Q!EmailsDone(s)
    <2>1. Leads(s, "push", Q!Select("push"))
      BY <1>8, <1>2, SelectIs DEF Q!EmailsDone, Leads, Q!Places
    <2> QED
      BY <2>1
  <1>9. CASE Q!SendPush(s)
    <2>1. Leads(s, "mark_push", todo[s])
      BY <1>9, <1>1, <1>2 DEF Q!SendPush, Leads, Q!Places
    <2> QED
      BY <2>1
  <1>10. CASE Q!StartPosts(s) \/ Q!StartDiscord(s) \/ Q!CollectGarbage(s)
    <2>1. Leads(s, "discords", {}) \/ Leads(s, "gc", {}) \/ Leads(s, "unlock", {})
      BY <1>10, <1>1, <1>2
         DEF Q!StartPosts, Q!StartDiscord, Q!CollectGarbage, Leads, Q!Places
    <2> QED
      BY <2>1
  <1>11. CASE Q!Unlock(s) \/ Q!Crash(s)
    <2>1. Leads(s, "idle", {})
      BY <1>11, <1>1, <1>2 DEF Q!Unlock, Q!Crash, Leads, Q!Places
    <2> QED
      BY <2>1
  <1> QED
    BY <1>3, <1>4, <1>5, <1>6, <1>7, <1>8, <1>9, <1>10, <1>11 DEF Q!Sender

\* The other steps leave every sender where it is.
LEMMA OthersStay ==
    ASSUME QueueCounts, Q!Next
    PROVE  \/ \E s \in Senders : Q!Sender(s) \/ Q!Crash(s)
           \/ UNCHANGED <<pc, todo>> /\ (lock' # lock => lock' = Q!NoOne
                                           /\ \E s \in Senders : lock = s /\ pc[s] = "idle")
  <1>1. CASE Q!Collector
    BY <1>1, CollectorAdds DEF RowAdded
  <1>2. CASE Q!Goroutines
    BY <1>2 DEF Q!Goroutines, Q!PostOk, Q!PostFails, Q!PostEnds, Q!DiscordPost, Q!DiscordEnds,
                Q!senderVars
  <1>3. CASE Q!Tick
    BY <1>3 DEF Q!Tick, Q!senderVars
  <1>4. ASSUME NEW s \in Senders, Q!ConnExpires(s)
        PROVE  UNCHANGED <<pc, todo>> /\ lock' = Q!NoOne /\ lock = s /\ pc[s] = "idle"
    BY <1>4 DEF Q!ConnExpires
  <1> QED
    BY <1>1, <1>2, <1>3, <1>4 DEF Q!Next

\* The senders keep their places in order.
LEMMA QueuePlacesStep ==
    ASSUME QueueTable, QueueCounts, QueuePlaces, Q!Next
    PROVE  QueuePlaces'
  <1>1. Q!Ids \subseteq Q!Ids'
    BY QueueTableStep
  <1>2. ASSUME NEW s \in Senders, Q!Sender(s) \/ Q!Crash(s)
        PROVE  QueuePlaces'
    <2>1. PICK place, ids : Leads(s, place, ids)
      BY <1>2, SenderLeads
    <2> QED
      BY <1>1, <2>1, SenderMoves DEF Leads
  <1>3. CASE UNCHANGED <<pc, todo>> /\ (lock' # lock => lock' = Q!NoOne
                                           /\ \E s \in Senders : lock = s /\ pc[s] = "idle")
    BY <1>1, <1>3 DEF QueuePlaces
  <1> QED
    BY <1>2, <1>3, OthersStay

\* The rows a sender has to handle are of the channel it is at.
LEMMA QueueTodoStep ==
    ASSUME QueueTable, QueueCounts, QueuePlaces, QueueTodo, Q!Next
    PROVE  QueueTodo'
  <1>1. \A r \in Q!Ids : queue'[r].channel = queue[r].channel
    BY QueueTableStep
  <1>2. ASSUME NEW s \in Senders, Q!Sender(s) \/ Q!Crash(s)
        PROVE  QueueTodo'
    <2>1. PICK place, ids : Leads(s, place, ids)
      BY <1>2, SenderLeads
    <2>2. ASSUME NEW z \in Senders, z # s
          PROVE  pc'[z] = pc[z] /\ todo'[z] = todo[z] /\ todo[z] \subseteq Q!Ids
      BY <2>1, <2>2 DEF Leads, Q!To, QueuePlaces
    <2>3. pc'[s] = place /\ todo'[s] = ids /\ todo[s] \subseteq Q!Ids /\ ids \subseteq Q!Ids
      BY <2>1 DEF Leads, Q!To, QueuePlaces
    <2>4. pc[s] \in {"mark_email", "mark_push"} => Q!Rest(todo[s]) \subseteq todo[s]
      BY <2>3, FirstOf DEF QueuePlaces
    <2>5. ASSUME NEW r \in ids
          PROVE  /\ place \in {"email", "count", "mail", "mark_email"} => queue[r].channel = "email"
                 /\ place \in {"push", "mark_push"} => queue[r].channel = "push"
      <3>1. CASE place = "email" /\ ids = Q!Select("email") /\ pc[s] = "idle"
        BY <3>1, <2>5, SelectIs
      <3>2. CASE place = "push" /\ ids = Q!Select("push") /\ pc[s] = "email"
        BY <3>2, <2>5, SelectIs
      <3>3. CASE pc[s] \in {"email", "count", "mail", "mark_email"} /\ r \in todo[s]
                 /\ place \in {"email", "count", "mail", "mark_email"}
        BY <3>3 DEF QueueTodo
      <3>4. CASE pc[s] \in {"push", "mark_push"} /\ r \in todo[s] /\ place \in {"push", "mark_push"}
        BY <3>4 DEF QueueTodo
      <3>5. ids # {}
        BY <2>5
      <3> QED
        BY <3>1, <3>2, <3>3, <3>4, <3>5, <2>1, <2>4, <2>5 DEF Leads
    <2>6. ASSUME NEW z \in Senders, NEW r \in todo'[z]
          PROVE  /\ pc'[z] \in {"email", "count", "mail", "mark_email"} => queue'[r].channel = "email"
                 /\ pc'[z] \in {"push", "mark_push"} => queue'[r].channel = "push"
      BY <1>1, <2>2, <2>3, <2>5, <2>6 DEF QueueTodo
    <2> QED
      BY <2>6 DEF QueueTodo
  <1>3. CASE UNCHANGED <<pc, todo>>
    BY <1>1, <1>3 DEF QueueTodo, QueuePlaces
  <1> QED
    BY <1>2, <1>3, OthersStay

\* The goroutines carry rows of their own channel.
LEMMA QueueCallsStep ==
    ASSUME QueueTable, QueueCounts, QueuePlaces, QueueCalls, Q!Next
    PROVE  QueueCalls'
  <1> DEFINE Job(ids) == [by : Senders, hook : Discords, rows : SUBSET ids, left : SUBSET ids,
                          tries : 0 .. RetryLimit + 1]
             Fine(j) == j.left \subseteq j.rows /\ \A r \in j.rows : queue[r].channel = "webhook_discord"
  <1>1. Q!Ids \subseteq Q!Ids' /\ \A r \in Q!Ids : queue'[r].channel = queue[r].channel
    BY QueueTableStep
  <1>2. /\ posts \in [Senders -> [1 .. MaxRows -> 0 .. MaxPosts]]
        /\ jobs \subseteq Job(Q!Ids) /\ \A j \in jobs : Fine(j)
    BY DEF QueueCalls
  <1>3. ASSUME posts' \in [Senders -> [1 .. MaxRows -> 0 .. MaxPosts]],
               \A j \in jobs' : j \in Job(Q!Ids) /\ Fine(j)
        PROVE  QueueCalls'
    <2>1. \A j \in jobs' : j \in Job(Q!Ids')
      <3>1. Job(Q!Ids) \subseteq Job(Q!Ids')
        BY <1>1
      <3> QED
        BY <1>3, <3>1
    <2>2. \A j \in jobs' : \A r \in j.rows : queue'[r].channel = "webhook_discord"
      BY <1>1, <1>3
    <2> QED
      BY <1>3, <2>1, <2>2 DEF QueueCalls
  <1>4. CASE jobs' \subseteq jobs /\ UNCHANGED posts
    BY <1>2, <1>3, <1>4
  <1>5. ASSUME NEW s \in Senders, Q!Sender(s) \/ Q!ConnExpires(s) \/ Q!Crash(s)
        PROVE  QueueCalls'
    <2>1. CASE Q!StartPosts(s)
      <3>1. PICK ready \in SUBSET Q!Ids :
              /\ \A r \in ready : posts[s][r] < MaxPosts
              /\ posts' = [posts EXCEPT ![s] =
                             [r \in 1 .. MaxRows |-> IF r \in ready THEN @[r] + 1 ELSE @[r]]]
        BY <2>1, SelectIs DEF Q!StartPosts
      <3>2. posts[s] \in [1 .. MaxRows -> 0 .. MaxPosts]
        BY <1>2
      <3> DEFINE row == [r \in 1 .. MaxRows |-> IF r \in ready THEN posts[s][r] + 1 ELSE posts[s][r]]
      <3>3. row \in [1 .. MaxRows -> 0 .. MaxPosts]
        BY <3>1, <3>2, QueueConstants
      <3>4. posts' = [posts EXCEPT ![s] = row]
        BY <3>1
      <3> HIDE DEF row
      <3>5. posts' \in [Senders -> [1 .. MaxRows -> 0 .. MaxPosts]]
        BY <1>2, <3>3, <3>4
      <3> QED
        BY <1>2, <1>3, <2>1, <3>5 DEF Q!StartPosts
    <2>2. CASE Q!StartDiscord(s)
      <3> DEFINE found == Q!Select("webhook_discord")
                 ready == {r \in found : queue[r].tries <= RetryLimit}
                 Of(h) == {r \in ready : queue[r].hook = h}
                 theHooks == {queue[r].hook : r \in ready}
                 New(h) == [by |-> s, hook |-> h, rows |-> Of(h), left |-> Of(h),
                            tries |-> queue[Q!First(Of(h))].tries]
      <3>1. jobs' = jobs \cup {New(h) : h \in theHooks} /\ UNCHANGED posts
        BY <2>2 DEF Q!StartDiscord
      <3>2. ASSUME NEW h \in theHooks
            PROVE  New(h) \in Job(Q!Ids) /\ Fine(New(h))
        <4>1. Of(h) \in SUBSET Q!Ids /\ Of(h) # {}
          BY SelectIs
        <4>2. \A r \in Of(h) : queue[r].channel = "webhook_discord"
          BY SelectIs
        <4>3. h \in Discords
          BY SelectIs DEF QueueTable
        <4>4. queue[Q!First(Of(h))].tries \in 0 .. RetryLimit + 1
          <5> HIDE DEF Of
          <5>1. Q!First(Of(h)) \in Q!Ids
            BY <4>1, FirstOf
          <5>2. \A r \in Q!Ids : queue[r] \in QueueRow
            BY DEF QueueTable, Q!Ids
          <5>3. \A r \in Q!Ids : queue[r].tries \in 0 .. RetryLimit - 1
            BY <5>2 DEF QueueRow
          <5>4. queue[Q!First(Of(h))].tries \in 0 .. RetryLimit - 1
            BY <5>1, <5>3
          <5> QED
            BY <5>4, QueueConstants
        <4> HIDE DEF Of
        <4> QED
          BY <4>1, <4>2, <4>3, <4>4
      <3> HIDE DEF New, theHooks
      <3>3. \A j \in jobs' : j \in Job(Q!Ids) /\ Fine(j)
        BY <1>2, <3>1, <3>2
      <3> QED
        BY <1>2, <1>3, <3>1, <3>3
    <2>3. CASE Q!Crash(s)
      <3>1. posts' = [posts EXCEPT ![s] = [r \in 1 .. MaxRows |-> 0]] /\ jobs' \subseteq jobs
        BY <2>3 DEF Q!Crash
      <3>2. [r \in 1 .. MaxRows |-> 0] \in [1 .. MaxRows -> 0 .. MaxPosts]
        BY QueueConstants
      <3>3. posts' \in [Senders -> [1 .. MaxRows -> 0 .. MaxPosts]]
        BY <1>2, <3>1, <3>2
      <3> QED
        BY <1>2, <1>3, <3>1, <3>3
    <2>4. CASE \/ Q!TakeLock(s) \/ Q!CheckLimit(s) \/ Q!CountMail(s) \/ Q!SendMail(s)
               \/ Q!MarkEmail(s) \/ Q!EmailsDone(s) \/ Q!SendPush(s) \/ Q!MarkPush(s)
               \/ Q!CollectGarbage(s) \/ Q!Unlock(s) \/ Q!ConnExpires(s)
      BY <1>4, <2>4 DEF Q!TakeLock, Q!CheckLimit, Q!CountMail, Q!SendMail, Q!MarkEmail, Q!EmailsDone,
                        Q!SendPush, Q!MarkPush, Q!MarkRow, Q!CollectGarbage, Q!Unlock, Q!ConnExpires
    <2> QED
      BY <1>5, <2>1, <2>2, <2>3, <2>4 DEF Q!Sender
  <1>6. ASSUME NEW s \in Senders, NEW r \in Q!Ids, Q!PostEnds(s, r)
        PROVE  QueueCalls'
    <2>1. posts' = [posts EXCEPT ![s][r] = @ - 1] /\ posts[s][r] > 0 /\ UNCHANGED jobs
      BY <1>6 DEF Q!PostEnds
    <2>2. posts[s] \in [1 .. MaxRows -> 0 .. MaxPosts] /\ r \in 1 .. MaxRows
      BY <1>2, QueueConstants DEF QueueTable, Q!Ids
    <2>3. posts[s][r] - 1 \in 0 .. MaxPosts
      BY <2>1, <2>2, QueueConstants
    <2>4. [posts[s] EXCEPT ![r] = @ - 1] \in [1 .. MaxRows -> 0 .. MaxPosts]
      BY <2>2, <2>3
    <2>5. posts' \in [Senders -> [1 .. MaxRows -> 0 .. MaxPosts]]
      BY <1>2, <2>1, <2>4
    <2> QED
      BY <1>2, <1>3, <2>1, <2>5
  <1>7. ASSUME NEW j \in jobs, Q!DiscordPost(j)
        PROVE  QueueCalls'
    <2>1. PICK ok \in BOOLEAN :
            jobs' = (jobs \ {j}) \cup {IF ok THEN [j EXCEPT !.left = Q!Rest(@), !.tries = 0]
                                             ELSE [j EXCEPT !.tries = @ + 1]}
      BY <1>7 DEF Q!DiscordPost
    <2>2. j \in Job(Q!Ids) /\ Fine(j) /\ j.left # {} /\ j.tries <= RetryLimit
      BY <1>2, <1>7 DEF Q!DiscordPost
    <2>3. Q!Rest(j.left) \subseteq j.left
      BY <2>2, FirstOf
    <2>4. 0 \in 0 .. RetryLimit + 1 /\ j.tries + 1 \in 0 .. RetryLimit + 1
      BY <2>2, QueueConstants
    <2>5. [j EXCEPT !.left = Q!Rest(@), !.tries = 0] \in Job(Q!Ids)
          /\ Fine([j EXCEPT !.left = Q!Rest(@), !.tries = 0])
      BY <2>2, <2>3, <2>4
    <2>6. [j EXCEPT !.tries = @ + 1] \in Job(Q!Ids) /\ Fine([j EXCEPT !.tries = @ + 1])
      BY <2>2, <2>4
    <2> HIDE DEF Job, Fine
    <2>7. \A z \in jobs' : z \in Job(Q!Ids) /\ Fine(z)
      BY <1>2, <2>1, <2>5, <2>6
    <2> QED
      BY <1>2, <1>3, <1>7, <2>7 DEF Q!DiscordPost
  <1>8. ASSUME NEW j \in jobs, Q!DiscordEnds(j)
        PROVE  QueueCalls'
    BY <1>4, <1>8 DEF Q!DiscordEnds
  <1>9. CASE Q!Tick
    BY <1>4, <1>9 DEF Q!Tick
  <1>10. CASE Q!Collector
    BY <1>4, <1>10, CollectorAdds DEF RowAdded
  <1> HIDE DEF Job, Fine
  <1> QED
    BY <1>5, <1>6, <1>7, <1>8, <1>9, <1>10 DEF Q!Next, Q!Goroutines, Q!PostOk, Q!PostFails

-----------------------------------------------------------------------------
(* The queue of notifications: nothing is handed out twice *)

\* A row between its hand-over and its mark, and the rows a sender has ahead of it.
InHand(r) == \E s \in Senders : pc[s] \in {"mark_email", "mark_push"} /\ r = Q!First(todo[s])
Ahead(r) ==
  \E s \in Senders :
    \/ pc[s] \in {"mark_email", "mark_push"} /\ r \in Q!Rest(todo[s])
    \/ pc[s] \in {"email", "count", "mail", "push"} /\ r \in todo[s]

\* A mail or push row was handed out once more than faults, and when it can be
\* handed out again, no more often than there were faults.
QueueHanded ==
  \A r \in Q!Ids : queue[r].channel \in {"email", "push"} =>
    /\ handed[r] <= 1 + faults
    /\ Q!Unsent(r) => InHand(r) \/ handed[r] <= faults
    /\ Ahead(r) => handed[r] <= faults

\* Of the mails that were counted at most the last one has not left.
QueueMails ==
  /\ mails.left <= mails.counted /\ (MailLimit > 0 => mails.counted <= MailLimit)
  /\ \A s \in Senders : /\ pc[s] = "count" => MailLimit = 0 \/ mails.counted < MailLimit
                        /\ pc[s] = "mail" => mails.left < mails.counted

\* A step that hands out no mail or push row.
LEMMA NothingHanded ==
    ASSUME QueueTable, QueueCounts, QueueHanded, TableStays, faults' \in {faults, faults + 1},
           \A r \in Q!Ids : queue[r].channel \in {"email", "push"} => handed'[r] = handed[r],
           \A r \in Q!Ids : InHand(r) /\ Q!Unsent(r)' => InHand(r)' \/ faults' = faults + 1,
           \A r \in Q!Ids : Ahead(r)' => Ahead(r) \/ (Q!Unsent(r) /\ ~ InHand(r)) \/ faults' = faults + 1
    PROVE  QueueHanded'
  <1>1. Q!Ids' = Q!Ids /\ \A r \in Q!Ids : queue'[r].channel = queue[r].channel
                                           /\ (Q!Unsent(r)' => Q!Unsent(r))
    BY DEF TableStays, RowsStay, Q!Ids, Q!Unsent, QueueTable
  <1>2. faults \in Nat
    BY DEF QueueCounts
  <1>3. \A r \in Q!Ids : handed[r] \in Nat
    BY DEF QueueTable, Q!Ids
  <1>4. ASSUME NEW r \in Q!Ids, queue'[r].channel \in {"email", "push"}
        PROVE  /\ handed'[r] <= 1 + faults'
               /\ Q!Unsent(r)' => InHand(r)' \/ handed'[r] <= faults'
               /\ Ahead(r)' => handed'[r] <= faults'
    <2>1. /\ handed[r] <= 1 + faults
          /\ Q!Unsent(r) => InHand(r) \/ handed[r] <= faults
          /\ Ahead(r) => handed[r] <= faults
      BY <1>1, <1>4 DEF QueueHanded
    <2>2. handed'[r] = handed[r] /\ handed[r] \in Nat
      BY <1>1, <1>3, <1>4
    <2>3. /\ InHand(r) /\ Q!Unsent(r)' => InHand(r)' \/ faults' = faults + 1
          /\ Ahead(r)' => Ahead(r) \/ (Q!Unsent(r) /\ ~ InHand(r)) \/ faults' = faults + 1
          /\ Q!Unsent(r)' => Q!Unsent(r)
      BY <1>1
    <2>4. handed[r] <= faults \/ faults' = faults + 1 => handed'[r] <= faults'
      BY <1>2, <2>1, <2>2
    <2>5. handed'[r] <= 1 + faults'
      BY <1>2, <2>1, <2>2
    <2> QED
      BY <2>1, <2>3, <2>4, <2>5, Zenon
  <1> QED
    BY <1>1, <1>4 DEF QueueHanded

\* A step that hands out the first row a sender has ahead of it.
LEMMA FirstHanded ==
    ASSUME QueueTable, QueueCounts, QueueHanded, QueuePlaces, NEW s \in Senders,
           pc[s] \in {"mail", "push"}, todo[s] # {}, UNCHANGED <<queue, faults>>,
           handed' = [handed EXCEPT ![Q!First(todo[s])] = Q!Once(@)],
           NEW place \in {"mark_email", "mark_push"}, Leads(s, place, todo[s])
    PROVE  QueueHanded'
  <1>0. PICK f : f = Q!First(todo[s])
    OBVIOUS
  <1>1. f \in Q!Ids /\ f \in todo[s] /\ Q!Rest(todo[s]) = todo[s] \ {f}
    BY <1>0, FirstOf DEF QueuePlaces
  <1>2. faults \in Nat /\ \A r \in Q!Ids : handed[r] \in Nat
    BY DEF QueueCounts, QueueTable, Q!Ids
  <1>3. \A z \in Senders : z # s => pc[z] = "idle" /\ pc'[z] = "idle"
    BY DEF QueuePlaces, Leads, Q!To
  <1>4. pc'[s] = place /\ todo'[s] = todo[s]
    BY DEF QueuePlaces, Leads, Q!To
  <1>5. Q!Ids' = Q!Ids
    BY DEF Q!Ids
  <1>6. \A r : /\ ~ InHand(r) /\ InHand(f)'
               /\ Ahead(r)' => r \in todo[s] \ {f}
               /\ r \in todo[s] => Ahead(r)
    BY <1>0, <1>1, <1>3, <1>4 DEF InHand, Ahead
  <1>7. DOMAIN handed = Q!Ids
    BY DEF QueueTable, Q!Ids
  <1>8. ASSUME NEW r \in Q!Ids, queue[r].channel \in {"email", "push"}
        PROVE  /\ handed'[r] <= 1 + faults
               /\ Q!Unsent(r) => InHand(r)' \/ handed'[r] <= faults
               /\ Ahead(r)' => handed'[r] <= faults
    <2>1. /\ handed[r] <= 1 + faults /\ (Q!Unsent(r) => handed[r] <= faults)
          /\ Ahead(r) => handed[r] <= faults
      BY <1>6, <1>8 DEF QueueHanded
    <2>2. CASE r = f
      <3>1. handed'[f] = Q!Once(handed[f])
        BY <1>0, <1>1, <1>7
      <3>2. handed'[f] <= handed[f] + 1 /\ handed'[f] \in Nat
        BY <1>1, <1>2, <3>1, OnceIs
      <3>3. handed[f] <= faults
        BY <1>1, <1>6, <2>1, <2>2
      <3>4. handed'[f] <= 1 + faults
        BY <1>1, <1>2, <3>2, <3>3
      <3> QED
        BY <1>6, <2>2, <3>4
    <2>3. CASE r # f
      <3>1. handed'[r] = handed[r]
        BY <1>0, <1>7, <2>3
      <3>2. Ahead(r)' => Ahead(r)
        BY <1>6
      <3> QED
        BY <2>1, <3>1, <3>2
    <2> QED
      BY <2>2, <2>3
  <1>9. \A r \in Q!Ids : Q!Unsent(r)' <=> Q!Unsent(r)
    BY DEF Q!Unsent
  <1> QED
    BY <1>5, <1>8, <1>9 DEF QueueHanded

\* The steps of one sender.
LEMMA SenderHands ==
    ASSUME QueueTable, QueueCounts, QueuePlaces, QueueTodo, QueueHanded,
           NEW s \in Senders, Q!Sender(s), TableStays
    PROVE  QueueHanded'
  <1>1. \A z \in Senders : z # s => pc[z] = "idle" /\ pc'[z] = "idle"
    <2>1. pc[s] # "idle" \/ Q!TakeLock(s)
      BY DEF Q!Sender, Q!CheckLimit, Q!CountMail, Q!SendMail, Q!MarkEmail, Q!EmailsDone, Q!SendPush,
             Q!MarkPush, Q!MarkRow, Q!StartPosts, Q!StartDiscord, Q!CollectGarbage, Q!Unlock
    <2>2. lock \in {Q!NoOne, s}
      BY <2>1 DEF Q!TakeLock, QueuePlaces
    <2>3. \A z \in Senders : z # s => pc[z] = "idle"
      BY <2>2, QueueConstants DEF QueuePlaces
    <2>4. \E place, ids : Q!To(s, place, ids)
      BY SenderLeads DEF Leads
    <2>5. \A z \in Senders : z # s => pc'[z] = pc[z]
      BY <2>4 DEF Q!To, QueuePlaces
    <2> QED
      BY <2>3, <2>5
  <1>2. pc \in [Senders -> Q!Places] /\ todo \in [Senders -> SUBSET Q!Ids]
    BY DEF QueuePlaces
  <1>3. CASE Q!SendMail(s) \/ Q!SendPush(s)
    <2>1. /\ pc[s] \in {"mail", "push"} /\ todo[s] # {} /\ UNCHANGED <<queue, faults>>
          /\ handed' = [handed EXCEPT ![Q!First(todo[s])] = Q!Once(@)]
      BY <1>3 DEF Q!SendMail, Q!SendPush, QueuePlaces
    <2>2. Leads(s, "mark_email", todo[s]) \/ Leads(s, "mark_push", todo[s])
      <3>1. lock = s /\ todo[s] \in SUBSET Q!Ids
        BY <2>1, <1>2 DEF QueuePlaces
      <3> QED
        BY <1>3, <2>1, <3>1 DEF Q!SendMail, Q!SendPush, Leads, Q!Places
    <2> QED
      BY <2>1, <2>2, FirstHanded
  <1>4. ASSUME faults' \in {faults, faults + 1},
               \A r \in Q!Ids : queue[r].channel \in {"email", "push"} => handed'[r] = handed[r],
               \A r \in Q!Ids : InHand(r) /\ Q!Unsent(r)' => InHand(r)' \/ faults' = faults + 1,
               \A r \in Q!Ids : Ahead(r)' =>
                 Ahead(r) \/ (Q!Unsent(r) /\ ~ InHand(r)) \/ faults' = faults + 1
        PROVE  QueueHanded'
    BY <1>4, NothingHanded
  <1>5. ASSUME UNCHANGED <<handed, faults>>, pc[s] \notin {"mark_email", "mark_push"},
               \A r \in Q!Ids : Ahead(r)' => Ahead(r) \/ Q!Unsent(r)
        PROVE  QueueHanded'
    <2>1. \A r : ~ InHand(r)
      BY <1>1, <1>5 DEF InHand
    <2> QED
      BY <1>4, <1>5, <2>1
  <1>6. CASE Q!TakeLock(s) \/ Q!EmailsDone(s)
    <2>1. /\ todo' = [todo EXCEPT ![s] = Q!Select("email")]
          \/ todo' = [todo EXCEPT ![s] = Q!Select("push")]
      BY <1>6 DEF Q!TakeLock, Q!EmailsDone, Q!To
    <2>2. \A r \in todo'[s] : Q!Unsent(r)
      BY <1>2, <2>1, SelectIs
    <2>3. \A r \in Q!Ids : Ahead(r)' => Q!Unsent(r)
      <3>1. pc'[s] \notin {"mark_email", "mark_push"}
        BY <1>2, <1>6 DEF Q!TakeLock, Q!EmailsDone, Q!To
      <3> QED
        BY <1>1, <2>2, <3>1 DEF Ahead
    <2> QED
      BY <1>5, <1>6, <2>3 DEF Q!TakeLock, Q!EmailsDone
  <1>7. CASE Q!CheckLimit(s) \/ Q!CountMail(s)
    <2>1. /\ pc[s] \in {"email", "count"} /\ todo'[s] = todo[s] /\ todo[s] # {}
          /\ pc'[s] \in {"count", "mail", "mark_email"} /\ UNCHANGED handed
          /\ faults' \in {faults, faults + 1}
      BY <1>2, <1>7 DEF Q!CheckLimit, Q!CountMail, Q!To, Q!Fault, QueuePlaces
    <2>2. Q!Rest(todo[s]) \subseteq todo[s]
      BY <1>2, <2>1, FirstOf
    <2>3. \A r \in Q!Ids : Ahead(r)' => Ahead(r)
      BY <1>1, <2>1, <2>2 DEF Ahead
    <2>4. \A r : ~ InHand(r)
      BY <1>1, <2>1 DEF InHand
    <2> QED
      BY <1>4, <2>1, <2>3, <2>4
  <1>8. ASSUME NEW here \in {"mark_email", "mark_push"}, NEW next \in {"email", "push"},
               Q!MarkRow(s, here, next)
        PROVE  QueueHanded'
    <2>1. CASE Q!MarkSent({Q!First(todo[s])}) /\ Q!To(s, next, Q!Rest(todo[s])) /\ UNCHANGED faults
      <3>1. pc[s] = here /\ pc'[s] = next /\ todo'[s] = Q!Rest(todo[s]) /\ UNCHANGED handed
        BY <1>2, <1>8, <2>1 DEF Q!MarkRow, Q!To
      <3>2. \A r \in Q!Ids : Ahead(r)' => Ahead(r)
        BY <1>1, <3>1 DEF Ahead
      <3>3. ASSUME NEW r \in Q!Ids, InHand(r)
            PROVE  ~ Q!Unsent(r)'
        <4>1. r = Q!First(todo[s])
          BY <1>1, <3>3 DEF InHand
        <4>2. queue[r] \in QueueRow
          BY DEF QueueTable, Q!Ids
        <4>3. queue'[r].state # "unsent"
          <5>1. PICK cs, hs, ts : QueueRow = [channel : cs, hook : hs, tries : ts,
                                              state : {"unsent", "sent", "gone"},
                                              age : 0 .. 3, since : 0 .. 2]
            BY RowsAre
          <5>2. queue'[r] = IF queue[r].state # "gone"
                            THEN [queue[r] EXCEPT !.state = "sent", !.since = 0] ELSE queue[r]
            BY <2>1, <4>1 DEF Q!MarkSent
          <5> QED
            BY ONLY <4>2, <5>1, <5>2
        <4> QED
          BY <4>3 DEF Q!Unsent
      <3> QED
        BY <1>4, <2>1, <3>1, <3>2, <3>3
    <2>2. CASE Q!Fault
      <3>1. faults' = faults + 1 /\ UNCHANGED handed
        BY <1>8, <2>2 DEF Q!MarkRow, Q!Fault
      <3> QED
        BY <1>4, <3>1
    <2> QED
      BY <1>8, <2>1, <2>2 DEF Q!MarkRow
  <1>9. CASE Q!MarkEmail(s) \/ Q!MarkPush(s)
    BY <1>8, <1>9 DEF Q!MarkEmail, Q!MarkPush
  <1>10. ASSUME pc[s] \notin {"mark_email", "mark_push"},
                pc'[s] \notin {"mark_email", "mark_push", "email", "count", "mail", "push"},
                UNCHANGED faults,
                \A r \in Q!Ids : queue[r].channel \in {"email", "push"} => handed'[r] = handed[r]
         PROVE  QueueHanded'
    <2>1. \A r : ~ InHand(r) /\ ~ Ahead(r)'
      BY <1>1, <1>10 DEF InHand, Ahead
    <2> QED
      BY <1>4, <1>10, <2>1
  <1>11. CASE Q!StartDiscord(s) \/ Q!CollectGarbage(s) \/ Q!Unlock(s)
    BY <1>2, <1>10, <1>11 DEF Q!StartDiscord, Q!CollectGarbage, Q!Unlock, Q!To
  <1>12. CASE Q!StartPosts(s)
    <2>1. \A r \in Q!Ids : queue[r].channel \in {"email", "push"} => handed'[r] = handed[r]
      <3>1. PICK ready \in SUBSET Q!Select("webhook") :
              handed' = [r \in Q!Ids |-> IF r \in ready THEN Q!Once(handed[r]) ELSE handed[r]]
        BY <1>12 DEF Q!StartPosts
      <3>2. \A r \in ready : queue[r].channel = "webhook"
        BY SelectIs
      <3> QED
        BY <3>1, <3>2
    <2> QED
      BY <1>2, <1>10, <1>12, <2>1 DEF Q!StartPosts, Q!To
  <1> QED
    BY <1>3, <1>6, <1>7, <1>9, <1>11, <1>12 DEF Q!Sender

\* The other steps.
LEMMA OthersHand ==
    ASSUME QueueTable, QueueCounts, QueuePlaces, QueueCalls, QueueHanded, Q!Next, TableStays,
           ~ \E s \in Senders : Q!Sender(s)
    PROVE  QueueHanded'
  <1>1. CASE \E s \in Senders : Q!Crash(s)
    <2>1. faults' = faults + 1 /\ UNCHANGED handed
      BY <1>1 DEF Q!Crash, Q!Fault
    <2> QED
      BY <2>1, NothingHanded
  <1>2. ASSUME ~ \E s \in Senders : Q!Crash(s),
               \A r \in Q!Ids : queue[r].channel \in {"email", "push"} => handed'[r] = handed[r],
               faults' \in {faults, faults + 1}
        PROVE  QueueHanded'
    <2>1. UNCHANGED <<pc, todo>>
      BY <1>2, OthersStay
    <2>2. \A r : (InHand(r)' <=> InHand(r)) /\ (Ahead(r)' <=> Ahead(r))
      BY <2>1 DEF InHand, Ahead
    <2> QED
      BY <1>2, <2>2, NothingHanded
  <1>3. ASSUME NEW j \in jobs, Q!DiscordPost(j)
        PROVE  QueueHanded'
    <2>1. handed' = [handed EXCEPT ![Q!First(j.left)] = Q!Once(@)] /\ UNCHANGED faults
          /\ j.left # {}
      BY <1>3 DEF Q!DiscordPost
    <2>2. j.left \in SUBSET Q!Ids /\ j.left \subseteq j.rows
          /\ \A r \in j.rows : queue[r].channel = "webhook_discord"
      BY DEF QueueCalls
    <2>3. Q!First(j.left) \in j.left
      BY <2>1, <2>2, FirstOf
    <2>4. \A r \in Q!Ids : queue[r].channel \in {"email", "push"} => handed'[r] = handed[r]
      BY <2>1, <2>2, <2>3 DEF QueueTable, Q!Ids
    <2> QED
      BY <1>1, <1>2, <2>1, <2>4
  <1>4. CASE UNCHANGED handed /\ faults' \in {faults, faults + 1}
    BY <1>1, <1>2, <1>4
  <1>5. CASE Q!Tick \/ (\E s \in Senders : Q!ConnExpires(s)) \/ \E j \in jobs : Q!DiscordEnds(j)
    BY <1>4, <1>5 DEF Q!Tick, Q!ConnExpires, Q!DiscordEnds
  <1>6. CASE \E s \in Senders : \E r \in Q!Ids : Q!PostOk(s, r) \/ Q!PostFails(s, r)
    BY <1>4, <1>6 DEF Q!PostOk, Q!PostFails, Q!PostEnds, Q!Fault
  <1>7. CASE Q!Collector
    <2>1. RowAdded
      BY <1>7, CollectorAdds
    <2>2. Len(queue') = Len(queue) + 1 /\ Len(queue') = Len(queue)
      BY <2>1 DEF RowAdded, TableStays, RowsStay, QueueTable
    <2> QED
      BY <2>2 DEF QueueTable
  <1> QED
    BY <1>1, <1>3, <1>5, <1>6, <1>7 DEF Q!Next, Q!Goroutines

\* A row that is queued was handed to nobody.
LEMMA AddedHands ==
    ASSUME QueueTable, QueueCounts, QueuePlaces, QueueHanded, RowAdded
    PROVE  QueueHanded'
  <1>1. PICK row \in QueueRow :
          queue' = Append(queue, row) /\ handed' = Append(handed, 0)
          /\ UNCHANGED <<pc, todo, faults>>
    BY DEF RowAdded
  <1>2. /\ Q!Ids' = Q!Ids \cup {Len(queue) + 1} /\ Len(queue) \in Nat
        /\ \A r \in Q!Ids : queue'[r] = queue[r] /\ handed'[r] = handed[r]
        /\ handed'[Len(queue) + 1] = 0 /\ faults \in Nat
    BY <1>1 DEF QueueTable, QueueCounts, Q!Ids
  <1>3. \A r : (InHand(r)' <=> InHand(r)) /\ (Ahead(r)' <=> Ahead(r))
    BY <1>1 DEF InHand, Ahead
  <1>4. \A r \in Q!Ids : Q!Unsent(r)' <=> Q!Unsent(r)
    BY <1>2 DEF Q!Unsent
  <1>5. ASSUME NEW r \in Q!Ids', queue'[r].channel \in {"email", "push"}
        PROVE  /\ handed'[r] <= 1 + faults'
               /\ Q!Unsent(r)' => InHand(r)' \/ handed'[r] <= faults'
               /\ Ahead(r)' => handed'[r] <= faults'
    <2>1. CASE r \in Q!Ids
      BY <1>1, <1>2, <1>3, <1>4, <1>5, <2>1 DEF QueueHanded
    <2>2. CASE r = Len(queue) + 1
      <3>1. handed'[Len(queue) + 1] = 0
        BY <1>2
      <3>2. handed'[r] = 0
        BY ONLY <2>2, <3>1
      <3>3. PICK n \in Nat : faults' = n
        BY <1>1, <1>2
      <3>4. 0 <= n /\ 0 <= 1 + n
        OBVIOUS
      <3> QED
        BY <3>2, <3>3, <3>4
    <2> QED
      BY <1>2, <2>1, <2>2
  <1> QED
    BY <1>5 DEF QueueHanded

\* Nothing is handed out twice but for a fault.
LEMMA QueueHandedStep ==
    ASSUME QueueTable, QueueCounts, QueuePlaces, QueueTodo, QueueCalls, QueueHanded, Q!Next
    PROVE  QueueHanded'
  BY TableMoves, AddedHands, SenderHands, OthersHand

-----------------------------------------------------------------------------
(* The queue of notifications: the limit of mails, and the whole *)

\* The mails that leave were counted while the limit was not reached.
LEMMA QueueMailsStep ==
    ASSUME QueueTable, QueueCounts, QueuePlaces, QueueMails, Q!Next
    PROVE  QueueMails'
  <1>1. mails.counted \in Nat /\ mails.left \in Nat /\ MailLimit \in Nat
    BY QueueConstants DEF QueueCounts
  <1>2. ASSUME UNCHANGED <<mails, pc>>
        PROVE  QueueMails'
    BY <1>2 DEF QueueMails
  <1>3. CASE Q!Collector
    BY <1>2, <1>3, CollectorAdds DEF RowAdded
  <1>4. CASE Q!Goroutines
    BY <1>2, <1>4 DEF Q!Goroutines, Q!PostOk, Q!PostFails, Q!PostEnds, Q!DiscordPost, Q!DiscordEnds,
                      Q!senderVars
  <1>5. CASE Q!Tick \/ \E s \in Senders : Q!ConnExpires(s)
    BY <1>2, <1>5 DEF Q!Tick, Q!senderVars, Q!ConnExpires
  <1>6. ASSUME NEW s \in Senders, UNCHANGED mails,
               \E place, ids : Q!To(s, place, ids) /\ place \notin {"count", "mail"}
        PROVE  QueueMails'
    <2>1. \A z \in Senders : pc'[z] = pc[z] \/ pc'[z] \notin {"count", "mail"}
      BY <1>6 DEF Q!To, QueuePlaces
    <2> QED
      BY <1>6, <2>1 DEF QueueMails
  <1>7. ASSUME NEW s \in Senders, Q!Sender(s) \/ Q!Crash(s), ~ Q!CheckLimit(s), ~ Q!CountMail(s),
               ~ Q!SendMail(s)
        PROVE  QueueMails'
    <2>1. CASE \/ Q!TakeLock(s) \/ Q!EmailsDone(s) \/ Q!SendPush(s) \/ Q!StartPosts(s)
               \/ Q!StartDiscord(s) \/ Q!CollectGarbage(s) \/ Q!Unlock(s) \/ Q!Crash(s)
      BY <1>6, <2>1 DEF Q!TakeLock, Q!EmailsDone, Q!SendPush, Q!StartPosts, Q!StartDiscord,
                        Q!CollectGarbage, Q!Unlock, Q!Crash
    <2>2. CASE Q!MarkEmail(s) \/ Q!MarkPush(s)
      BY <1>6, <2>2 DEF Q!MarkEmail, Q!MarkPush, Q!MarkRow
    <2> QED
      BY <1>7, <2>1, <2>2 DEF Q!Sender
  <1>8. ASSUME NEW s \in Senders, Q!CheckLimit(s) \/ Q!CountMail(s) \/ Q!SendMail(s)
        PROVE  QueueMails'
    <2>1. /\ pc[s] \in {"email", "count", "mail"} /\ \E place, ids : Q!To(s, place, ids)
      BY <1>8 DEF Q!CheckLimit, Q!CountMail, Q!SendMail
    <2>2. \A z \in Senders : z # s => pc'[z] = "idle"
      BY <2>1 DEF Q!To, QueuePlaces
    <2>3. ASSUME mails' \in [counted : Nat, left : Nat], mails'.left <= mails'.counted,
                 MailLimit > 0 => mails'.counted <= MailLimit,
                 pc'[s] = "count" => MailLimit = 0 \/ mails'.counted < MailLimit,
                 pc'[s] = "mail" => mails'.left < mails'.counted
          PROVE  QueueMails'
      BY <2>2, <2>3 DEF QueueMails
    <2>4. mails \in [counted : Nat, left : Nat]
      BY DEF QueueCounts
    <2>5. /\ mails.left <= mails.counted /\ (MailLimit > 0 => mails.counted <= MailLimit)
          /\ pc[s] = "count" => MailLimit = 0 \/ mails.counted < MailLimit
          /\ pc[s] = "mail" => mails.left < mails.counted
      BY DEF QueueMails
    <2>6. CASE Q!CheckLimit(s)
      <3>1. /\ UNCHANGED mails
            /\ \/ pc'[s] = "mark_email"
               \/ pc'[s] = "count" /\ ~ (MailLimit > 0 /\ mails.counted >= MailLimit)
        BY <2>6 DEF Q!CheckLimit, Q!To, QueuePlaces
      <3> QED
        BY <1>1, <2>3, <2>4, <2>5, <3>1
    <2>7. CASE Q!CountMail(s)
      <3>1. \/ mails' = [mails EXCEPT !.counted = @ + 1] /\ pc'[s] = "mail"
            \/ UNCHANGED mails /\ pc'[s] = "mark_email"
        BY <2>7 DEF Q!CountMail, Q!To, QueuePlaces
      <3>2. pc[s] = "count"
        BY <2>7 DEF Q!CountMail
      <3> QED
        BY <1>1, <2>3, <2>4, <2>5, <3>1, <3>2
    <2>8. CASE Q!SendMail(s)
      <3>1. mails' = [mails EXCEPT !.left = @ + 1] /\ pc'[s] = "mark_email" /\ pc[s] = "mail"
        BY <2>8 DEF Q!SendMail, Q!To, QueuePlaces
      <3> QED
        BY <1>1, <2>3, <2>4, <2>5, <3>1
    <2> QED
      BY <1>8, <2>6, <2>7, <2>8
  <1> QED
    BY <1>3, <1>4, <1>5, <1>7, <1>8 DEF Q!Next

QueueInv ==
  /\ QueueTable /\ QueueCounts /\ QueuePlaces /\ QueueTodo /\ QueueCalls
  /\ QueueHanded /\ QueueMails

\* The queue is empty at the start.
LEMMA QueueInvInit ==
    ASSUME Init
    PROVE  QueueInv
  <1>1. /\ queue = <<>> /\ handed = <<>> /\ faults = 0
        /\ retries = [h \in Q!AllHooks |-> 0]
        /\ mails = [counted |-> 0, left |-> 0]
        /\ lock = Q!NoOne
        /\ pc = [s \in Senders |-> "idle"] /\ todo = [s \in Senders |-> {}]
        /\ posts = [s \in Senders |-> [r \in 1 .. MaxRows |-> 0]]
        /\ jobs = {}
    BY DEF Init, Q!Init
  <1>2. Q!Ids = {} /\ QueueTable
    BY <1>1, QueueConstants DEF QueueTable, Q!Ids
  <1>3. QueueCounts /\ QueueMails
    BY <1>1, QueueConstants DEF QueueCounts, QueueMails
  <1>4. QueuePlaces /\ QueueTodo
    BY <1>1, QueueConstants DEF QueuePlaces, QueueTodo, Q!Places
  <1>5. QueueCalls /\ QueueHanded
    BY <1>1, <1>2, QueueConstants DEF QueueCalls, QueueHanded
  <1> QED
    BY <1>2, <1>3, <1>4, <1>5 DEF QueueInv

\* Every step keeps the invariant.
LEMMA QueueInvStep ==
    ASSUME QueueInv, [Next]_vars
    PROVE  QueueInv'
  <1>1. CASE Q!Next
    <2>1. QueueTable' /\ QueueCounts'
      BY <1>1, QueueTableStep, QueueCountsStep DEF QueueInv
    <2>2. QueuePlaces' /\ QueueTodo'
      BY <1>1, QueuePlacesStep, QueueTodoStep DEF QueueInv
    <2>3. QueueCalls' /\ QueueHanded' /\ QueueMails'
      BY <1>1, QueueCallsStep, QueueHandedStep, QueueMailsStep DEF QueueInv
    <2> QED
      BY <2>1, <2>2, <2>3 DEF QueueInv
  <1>2. CASE UNCHANGED ofQueue
    <2>1. UNCHANGED <<queue, retries, mails, lock, pc, todo, posts, jobs, handed, faults>>
      BY <1>2 DEF ofQueue
    <2>2. Q!Ids' = Q!Ids /\ \A r : /\ Q!Unsent(r)' <=> Q!Unsent(r)
                                   /\ InHand(r)' <=> InHand(r)
                                   /\ Ahead(r)' <=> Ahead(r)
      BY <2>1 DEF Q!Ids, Q!Unsent, InHand, Ahead
    <2>3. QueueTable' /\ QueueCounts' /\ QueuePlaces' /\ QueueTodo'
      BY <2>1, <2>2 DEF QueueInv, QueueTable, QueueCounts, QueuePlaces, QueueTodo
    <2>4. QueueCalls' /\ QueueHanded' /\ QueueMails'
      BY <2>1, <2>2 DEF QueueInv, QueueCalls, QueueHanded, QueueMails
    <2> QED
      BY <2>3, <2>4 DEF QueueInv
  <1> QED
    BY <1>1, <1>2, PartSteps

\* What the invariant says of the queue's types and properties.
LEMMA QueueInvImplies ==
    ASSUME QueueInv
    PROVE  Q!TypeOK /\ MailsAreSound
  <1>1. Q!HandedOnce
    BY DEF QueueInv, QueueHanded, Q!HandedOnce
  <1>2. Q!WithinMailLimit
    <2>1. mails.counted \in Nat /\ mails.left \in Nat /\ MailLimit \in Nat
      BY QueueConstants DEF QueueInv, QueueCounts
    <2> QED
      BY <2>1 DEF QueueInv, QueueMails, Q!WithinMailLimit
  <1>3. \A r \in Q!Ids : handed[r] \in Nat
    BY DEF QueueInv, QueueTable, Q!Ids
  <1>4. queue \in Seq([channel : Q!Channels, hook : Q!AllHooks \cup {Q!NoHook},
                       tries : 0 .. RetryLimit - 1, state : {"unsent", "sent", "gone"},
                       age : 0 .. Q!Hour + 1, since : 0 .. Q!Half + 1])
    BY DEF QueueInv, QueueTable, QueueRow
  <1>5. \A j \in jobs : j.by \in Senders /\ j.hook \in Discords /\ j.rows \subseteq Q!Ids
    BY DEF QueueInv, QueueCalls
  <1>6. Q!TypeOK
    BY <1>3, <1>4, <1>5
       DEF Q!TypeOK, QueueInv, QueueTable, QueueCounts, QueuePlaces, QueueCalls
  <1> QED
    BY <1>1, <1>2, <1>6 DEF MailsAreSound

-----------------------------------------------------------------------------
(* Plans paid by card: what fits together for one subscription *)

AppPrices == P!Prices \cup {P!NoPrice}
PlanRow == [there : BOOLEAN, cust : Subs \cup {P!NoCustomer}, price : AppPrices,
            active : BOOLEAN, ended : BOOLEAN]
AppRow == [there : BOOLEAN, price : AppPrices, active : BOOLEAN]
PlanEvent == [kind : P!Kinds \ P!CustomerKinds, sub : Subs, price : P!Prices, at : Nat]

\* Events of a subscription: "created" is the oldest and "deleted" the last one.
EventsFit(deal, own) ==
  /\ own \subseteq PlanEvent
  /\ \A e, f \in own :
       /\ e.kind = "created" /\ e # f => e.at < f.at
       /\ f.kind = "deleted" /\ e # f => e.at < f.at
       /\ e.kind = "created" /\ f.kind = "paid" => e.price = f.price
  /\ \A e \in own : e.kind = "deleted" => deal.state = "ended" /\ e.price = deal.price

\* The rows, while no event has overtaken another one.
PriceFits(deal, own, row) ==
  /\ \A e \in own : e.kind = "updated" /\ (\A f \in own : f.kind = "updated" => f.at <= e.at)
                      => e.price = deal.price
  /\ (\A e \in own : e.kind # "updated") =>
       /\ row.there = TRUE => row.price = deal.price
       /\ \A e \in own : e.kind = "created" => e.price = deal.price
ActiveFits(deal, own, row) ==
  /\ deal.state = "open" /\ (\A e \in own : e.kind # "paid") => row.active = TRUE
  /\ deal.state = "ended" /\ (\A e \in own : e.kind # "deleted")
       => row.active = FALSE /\ own = {}
AppFits(deal, own, row, mine) ==
  \/ mine.active = row.active
  \/ deal.state = "ended" /\ (\A e \in own : e.kind # "updated") /\ row.price \in ApiPrices

\* In any order.
RowsFit(deal, own, row, mine) ==
  /\ row \in PlanRow /\ mine \in AppRow /\ deal.state \in {"unused", "session", "open", "ended"}
  /\ row.there = FALSE => row = P!NoRow /\ mine = P!NoApp
  /\ deal.state \in {"unused", "session"} => row.there = FALSE /\ own = {}
  /\ deal.state \in {"open", "ended"} /\ (\A e \in own : e.kind # "created") => row.there = TRUE
  /\ mine.there = TRUE => /\ \A e \in own : e.kind = "paid" => e.price \in MobilePrices
                          /\ row.price \in MobilePrices => mine.price = row.price

\* Of one subscription: overtaken by a younger event or not, a customer of its
\* user removed or not.
PlanFits(deal, own, row, mine, over, excused) ==
  /\ EventsFit(deal, own) /\ RowsFit(deal, own, row, mine)
  /\ over => deal.state \in {"open", "ended"}
  /\ ~ over => PriceFits(deal, own, row) /\ ActiveFits(deal, own, row)
  /\ ~ over /\ mine.there = TRUE => excused \/ AppFits(deal, own, row, mine)

\* Stripe's prices are of one group, and no customer's name means none.
LEMMA PaymentConstants ==
    /\ MaxEvents \in Nat /\ MaxFaults \in Nat /\ ApiPrices \cap MobilePrices = {}
    /\ Users # {} /\ P!NoCustomer \notin Subs
    /\ P!Prices = ApiPrices \cup MobilePrices
    /\ P!Kinds = {"customer.created", "customer.deleted", "created", "updated", "deleted", "paid"}
    /\ P!CustomerKinds = {"customer.created", "customer.deleted"}
  BY UsersAssumption DEF P!PaymentsAssumption, P!Prices, P!Kinds, P!CustomerKinds

\* The empty rows.
LEMMA NoRows ==
    /\ P!NoRow \in PlanRow /\ P!NoApp \in AppRow
    /\ P!NoRow.there = FALSE /\ P!NoRow.active = FALSE
    /\ P!NoApp.there = FALSE
  BY DEF P!NoRow, P!NoApp, PlanRow, AppRow, AppPrices, P!NoPrice, P!NoCustomer

\* The events left when one was handled, and whether it overtook an older one.
HandledTo(own, e, later, over, overLater) ==
  /\ e \in own /\ later \in {own, own \ {e}}
  /\ overLater <=> over \/ \E f \in own : f.at < e.at

\* Handling an event leaves the others as they were.
LEMMA EventsKept ==
    ASSUME NEW b, NEW own, NEW e, NEW later, NEW over \in BOOLEAN, NEW overLater \in BOOLEAN,
           EventsFit(b, own), HandledTo(own, e, later, over, overLater)
    PROVE  EventsFit(b, later) /\ later \subseteq own
  BY DEF EventsFit, HandledTo

\* The price of the row when an update was handled, or when another event was and
\* the row kept its price.
LEMMA PriceKept ==
    ASSUME NEW b, NEW own, NEW e, NEW later, NEW row, NEW after,
           EventsFit(b, own), PriceFits(b, own, row), e \in own, later \in {own, own \ {e}},
           ~ \E f \in own : f.at < e.at,
           \/ e.kind = "updated" /\ after.price = e.price
           \/ /\ e.kind # "updated" /\ (row.there = TRUE => after.price = row.price)
              /\ row.there # TRUE /\ after.there = TRUE => after.price = e.price /\ e.kind = "created"
    PROVE  PriceFits(b, later, after)
  <1>1. \A f \in own : f.at \in Nat /\ e.at <= f.at
    BY DEF EventsFit, PlanEvent
  <1>2. CASE e.kind # "updated"
    <2>1. \A f \in own : f.kind = "updated" => f \in later
      BY <1>2
    <2>2. \A f \in later : f.kind = "updated" /\ (\A g \in later : g.kind = "updated" => g.at <= f.at)
                             => f.price = b.price
      BY <2>1 DEF PriceFits
    <2>3. ASSUME \A f \in later : f.kind # "updated"
          PROVE  /\ after.there = TRUE => after.price = b.price
                 /\ \A f \in later : f.kind = "created" => f.price = b.price
      BY <1>2, <2>1, <2>3 DEF PriceFits
    <2> QED
      BY <2>2, <2>3 DEF PriceFits
  <1>3. CASE e.kind = "updated"
    <2>1. \A f \in own : f.kind # "created"
      BY <1>1, <1>3 DEF EventsFit, PlanEvent
    <2>2. ASSUME NEW f \in later, f.kind = "updated",
                 \A g \in later : g.kind = "updated" => g.at <= f.at
          PROVE  f.price = b.price
      BY <1>1, <2>2 DEF PriceFits
    <2>3. ASSUME \A f \in later : f.kind # "updated"
          PROVE  after.price = b.price
      <3>1. \A f \in own : f.kind = "updated" => f = e
        BY <2>3
      <3>2. e.price = b.price
        BY <1>1, <1>3, <3>1 DEF PriceFits
      <3> QED
        BY <1>3, <3>2
    <2> QED
      BY <2>1, <2>2, <2>3 DEF PriceFits
  <1> QED
    BY <1>2, <1>3

\* What the handlers make of the row of a subscription and that of the app.
CreatedTo(row, mine, e, c, after, mineAfter) ==
  \/ row.there = TRUE /\ after = row /\ mineAfter = mine
  \/ /\ row.there = FALSE
     /\ after = [there |-> TRUE, cust |-> c, price |-> e.price, active |-> FALSE, ended |-> FALSE]
     /\ \/ e.price \in ApiPrices /\ mineAfter = mine
        \/ e.price \in MobilePrices
           /\ mineAfter = [there |-> TRUE, price |-> e.price, active |-> FALSE]
UpdatedTo(row, mine, e, after, mineAfter) ==
  /\ after = [row EXCEPT !.price = e.price, !.ended = FALSE]
  /\ mineAfter = IF e.price \in MobilePrices /\ mine.there
                 THEN [mine EXCEPT !.price = e.price] ELSE mine
StatusTo(row, mine, e, a, n, after, mineAfter) ==
  /\ (e.kind = "paid" /\ a = TRUE) \/ (e.kind = "deleted" /\ a = FALSE)
  /\ e.price \in MobilePrices => mine.there
  /\ after = IF row.there THEN [row EXCEPT !.active = a, !.ended = n] ELSE row
  /\ mineAfter = IF e.price \in MobilePrices THEN [mine EXCEPT !.active = a] ELSE mine

\* A subscription is created: a row, and one of the app for a mobile plan.
LEMMA CreatedFits ==
    ASSUME NEW b, NEW own, NEW row, NEW mine, NEW over \in BOOLEAN, NEW excused \in BOOLEAN,
           PlanFits(b, own, row, mine, over, excused),
           NEW e, NEW later, NEW overLater \in BOOLEAN, HandledTo(own, e, later, over, overLater),
           e.kind = "created", NEW c \in Subs \cup {P!NoCustomer}, NEW after, NEW mineAfter,
           CreatedTo(row, mine, e, c, after, mineAfter)
    PROVE  PlanFits(b, later, after, mineAfter, overLater, excused)
  <1>1. /\ EventsFit(b, own) /\ RowsFit(b, own, row, mine) /\ e \in own /\ later \in {own, own \ {e}}
        /\ EventsFit(b, later) /\ later \subseteq own
    BY EventsKept DEF PlanFits, HandledTo
  <1>2. \A f \in own : f.at \in Nat /\ e.at <= f.at
    BY <1>1 DEF EventsFit, PlanEvent
  <1>3. overLater <=> over
    BY <1>1, <1>2 DEF HandledTo
  <1>4. b.state \in {"open", "ended"} /\ e.price \in P!Prices
    BY <1>1 DEF EventsFit, PlanEvent, RowsFit
  <1>5. \A f \in own : f.kind # "created" => f \in later
    BY <1>1
  <1>8. ~ \E f \in own : f.at < e.at
    BY <1>1, <1>2 DEF EventsFit, PlanEvent
  <1>6. CASE row.there = TRUE /\ after = row /\ mineAfter = mine
    <2>1. RowsFit(b, later, after, mineAfter)
      BY <1>1, <1>4, <1>6 DEF RowsFit
    <2>2. ~ over => PriceFits(b, later, after)
      <3>1. ~ over => PriceFits(b, own, row)
        BY DEF PlanFits
      <3>2. row.there \in BOOLEAN
        BY <1>1 DEF RowsFit, PlanRow
      <3> QED
        BY ONLY <1>1, <1>8, <1>6, <3>1, <3>2, PriceKept, e.kind = "created"
    <2>3. ActiveFits(b, own, row) => ActiveFits(b, later, after)
      BY <1>1, <1>5, <1>6 DEF ActiveFits
    <2>4. AppFits(b, own, row, mine) => AppFits(b, later, after, mineAfter)
      BY <1>1, <1>6 DEF AppFits
    <2> QED
      BY <1>1, <1>3, <1>6, <2>1, <2>2, <2>3, <2>4 DEF PlanFits
  <1>7. ASSUME row.there = FALSE,
               after = [there |-> TRUE, cust |-> c, price |-> e.price, active |-> FALSE, ended |-> FALSE],
               \/ e.price \in ApiPrices /\ mineAfter = mine
               \/ e.price \in MobilePrices
                  /\ mineAfter = [there |-> TRUE, price |-> e.price, active |-> FALSE]
        PROVE  PlanFits(b, later, after, mineAfter, overLater, excused)
    <2>1. /\ after \in PlanRow /\ after.there = TRUE /\ after.price = e.price /\ after.active = FALSE
      BY <1>4, <1>7 DEF PlanRow, AppPrices
    <2>2. row = P!NoRow /\ mine = P!NoApp
      BY <1>1, <1>7 DEF RowsFit
    <2>3. CASE e.price \in ApiPrices /\ mineAfter = mine
      <3>1. mineAfter.there = FALSE /\ mineAfter \in AppRow
        BY <2>2, <2>3, NoRows
      <3>2. RowsFit(b, later, after, mineAfter)
        BY <1>1, <1>4, <2>1, <3>1 DEF RowsFit
      <3>3. ~ over => PriceFits(b, later, after)
        <4>1. ~ over => PriceFits(b, own, row)
          BY DEF PlanFits
        <4> QED
          BY ONLY <1>1, <1>8, <1>7, <2>1, <4>1, PriceKept, e.kind = "created"
      <3>4. ActiveFits(b, own, row) => ActiveFits(b, later, after)
        BY <1>1, <1>5, <2>1, <2>2, NoRows DEF ActiveFits
      <3> QED
        BY <1>1, <1>3, <1>4, <3>1, <3>2, <3>3, <3>4 DEF PlanFits
    <2>4. CASE e.price \in MobilePrices
               /\ mineAfter = [there |-> TRUE, price |-> e.price, active |-> FALSE]
      <3>1. mineAfter \in AppRow /\ mineAfter.there = TRUE /\ mineAfter.price = e.price
            /\ mineAfter.active = FALSE
        BY <1>4, <2>4 DEF AppRow, AppPrices
      <3>2. \A f \in later : f.kind = "paid" => f.price \in MobilePrices
        BY <1>1, <2>4 DEF EventsFit
      <3>3. RowsFit(b, later, after, mineAfter)
        BY <1>1, <1>4, <2>1, <3>1, <3>2 DEF RowsFit
      <3>4. ~ over => PriceFits(b, later, after)
        <4>1. ~ over => PriceFits(b, own, row)
          BY DEF PlanFits
        <4> QED
          BY ONLY <1>1, <1>8, <1>7, <2>1, <4>1, PriceKept, e.kind = "created"
      <3>5. ActiveFits(b, own, row) => ActiveFits(b, later, after)
        BY <1>1, <1>5, <2>1, <2>2, NoRows DEF ActiveFits
      <3>6. AppFits(b, later, after, mineAfter)
        BY <2>1, <3>1 DEF AppFits
      <3> QED
        BY <1>1, <1>3, <1>4, <3>3, <3>4, <3>5, <3>6 DEF PlanFits
    <2> QED
      BY <1>7, <2>3, <2>4
  <1> QED
    BY <1>6, <1>7 DEF CreatedTo

\* A subscription is updated: another price, in the row and in that of the app.
LEMMA UpdatedFits ==
    ASSUME NEW b, NEW own, NEW row, NEW mine, NEW over \in BOOLEAN, NEW excused \in BOOLEAN,
           PlanFits(b, own, row, mine, over, excused),
           NEW e, NEW later, NEW overLater \in BOOLEAN, HandledTo(own, e, later, over, overLater),
           e.kind = "updated", NEW after, NEW mineAfter, row.there = TRUE,
           UpdatedTo(row, mine, e, after, mineAfter)
    PROVE  PlanFits(b, later, after, mineAfter, overLater, excused)
  <1>1. /\ EventsFit(b, own) /\ RowsFit(b, own, row, mine) /\ e \in own /\ later \in {own, own \ {e}}
        /\ EventsFit(b, later) /\ later \subseteq own
    BY EventsKept DEF PlanFits, HandledTo
  <1>2. b.state \in {"open", "ended"} /\ e.price \in P!Prices
    BY <1>1 DEF EventsFit, PlanEvent, RowsFit
  <1>3. \A f \in own : f.kind # "updated" => f \in later
    BY <1>1
  <1>4. row \in PlanRow /\ mine \in AppRow
    BY <1>1 DEF RowsFit
  <1>5. after \in PlanRow /\ after.there = TRUE /\ after.price = e.price /\ after.active = row.active
    BY <1>2, <1>4 DEF PlanRow, AppPrices, UpdatedTo
  <1>6. /\ mineAfter \in AppRow /\ mineAfter.there = mine.there /\ mineAfter.active = mine.active
        /\ mine.there = TRUE /\ e.price \in MobilePrices => mineAfter.price = e.price
    BY <1>2, <1>4 DEF AppRow, AppPrices, UpdatedTo
  <1>7. RowsFit(b, later, after, mineAfter)
    BY <1>1, <1>2, <1>5, <1>6 DEF RowsFit
  <1>8. ASSUME ~ overLater
        PROVE  ~ over /\ ~ \E f \in own : f.at < e.at
    BY <1>8 DEF HandledTo
  <1>9. ~ overLater => PriceFits(b, later, after)
    BY <1>1, <1>5, <1>8, PriceKept DEF PlanFits
  <1>10. ActiveFits(b, own, row) => ActiveFits(b, later, after)
    BY <1>1, <1>3, <1>5 DEF ActiveFits
  <1>11. AppFits(b, own, row, mine) => AppFits(b, later, after, mineAfter)
    BY <1>1, <1>5, <1>6 DEF AppFits
  <1> QED
    BY <1>1, <1>2, <1>6, <1>7, <1>8, <1>9, <1>10, <1>11 DEF PlanFits

\* A payment or the end: the status, in the row and in that of the app.
LEMMA StatusFits ==
    ASSUME NEW b, NEW own, NEW row, NEW mine, NEW over \in BOOLEAN, NEW excused \in BOOLEAN,
           PlanFits(b, own, row, mine, over, excused),
           NEW e, NEW later, NEW overLater \in BOOLEAN, HandledTo(own, e, later, over, overLater),
           NEW after, NEW mineAfter, NEW a \in BOOLEAN, NEW n \in BOOLEAN,
           StatusTo(row, mine, e, a, n, after, mineAfter)
    PROVE  PlanFits(b, later, after, mineAfter, overLater, excused)
  <1>0. /\ (e.kind = "paid" /\ a = TRUE) \/ (e.kind = "deleted" /\ a = FALSE)
        /\ e.price \in MobilePrices => mine.there
        /\ after = IF row.there THEN [row EXCEPT !.active = a, !.ended = n] ELSE row
        /\ mineAfter = IF e.price \in MobilePrices THEN [mine EXCEPT !.active = a] ELSE mine
    BY DEF StatusTo
  <1>1. /\ EventsFit(b, own) /\ RowsFit(b, own, row, mine) /\ e \in own /\ later \in {own, own \ {e}}
        /\ EventsFit(b, later) /\ later \subseteq own
    BY EventsKept DEF PlanFits, HandledTo
  <1>2. b.state \in {"open", "ended"} /\ e.price \in P!Prices
    BY <1>1 DEF EventsFit, PlanEvent, RowsFit
  <1>3. \A f \in own : f # e => f \in later
    BY <1>1
  <1>4. row \in PlanRow /\ mine \in AppRow
    BY <1>1 DEF RowsFit
  <1>5. /\ after \in PlanRow /\ after.there = row.there /\ after.price = row.price
        /\ row.there = TRUE => after.active = a
        /\ row.there # TRUE => after = row
    BY <1>0, <1>4 DEF PlanRow
  <1>6. /\ mineAfter \in AppRow /\ mineAfter.there = mine.there /\ mineAfter.price = mine.price
        /\ e.price \in MobilePrices => mineAfter.active = a
        /\ e.price \notin MobilePrices => mineAfter = mine
    BY <1>0, <1>4 DEF AppRow
  <1>7. e.price \in MobilePrices => mine.there = TRUE /\ row.there = TRUE
    BY <1>0, <1>1, <1>4, NoRows DEF AppRow, PlanRow, RowsFit
  <1>8. RowsFit(b, later, after, mineAfter)
    <2>1. row.there = FALSE => after = P!NoRow /\ mineAfter = P!NoApp
      BY <1>1, <1>5, <1>6, <1>7 DEF RowsFit
    <2>2. (\A f \in later : f.kind # "created") => \A f \in own : f.kind # "created"
      BY <1>0, <1>3
    <2>3. mine.there = TRUE =>
            /\ \A f \in later : f.kind = "paid" => f.price \in MobilePrices
            /\ row.price \in MobilePrices => mine.price = row.price
      BY <1>1 DEF RowsFit
    <2>4. (\A f \in own : f.kind # "created") => row.there = TRUE
      BY <1>1, <1>2 DEF RowsFit
    <2> QED
      BY <1>1, <1>2, <1>5, <1>6, <2>1, <2>2, <2>3, <2>4 DEF RowsFit
  <1>9. ASSUME ~ overLater
        PROVE  /\ ~ over /\ ~ \E f \in own : f.at < e.at
               /\ \A f \in own : f.kind # "created"
               /\ row.there = TRUE
    <2>1. ~ over /\ ~ \E f \in own : f.at < e.at
      BY <1>9 DEF HandledTo
    <2>2. \A f \in own : f.kind # "created"
      BY <1>0, <1>1, <2>1 DEF EventsFit
    <2> QED
      BY <1>1, <1>2, <2>1, <2>2 DEF RowsFit
  <1>10. ~ overLater => PriceFits(b, later, after)
    <2>1. ~ over => PriceFits(b, own, row)
      BY DEF PlanFits
    <2>2. e.kind # "updated" /\ e.kind # "created"
      BY <1>0
    <2>3. row.there \in BOOLEAN
      BY <1>4 DEF PlanRow
    <2> QED
      BY ONLY <1>1, <1>5, <1>9, <2>1, <2>2, <2>3, PriceKept
  <1>11. ASSUME ~ overLater
         PROVE  ActiveFits(b, later, after)
    <2>1. ActiveFits(b, own, row) /\ after.active = a
      BY <1>5, <1>9, <1>11 DEF PlanFits
    <2>2. CASE e.kind = "paid" /\ a = TRUE
      <3>1. \A f \in own : f.kind = "deleted" => f \in later
        BY <1>3, <2>2
      <3> QED
        BY <1>1, <2>1, <2>2, <3>1 DEF ActiveFits
    <2>3. CASE e.kind = "deleted" /\ a = FALSE
      <3>1. own = {e} /\ b.state = "ended"
        <4>1. \A f \in own : f # e => f.at < e.at
          BY <1>1, <2>3 DEF EventsFit
        <4> QED
          BY <1>1, <1>9, <1>11, <2>3, <4>1 DEF EventsFit
      <3> QED
        BY <1>1, <2>1, <2>3, <3>1 DEF ActiveFits
    <2> QED
      BY <1>0, <2>2, <2>3
  <1>12. ASSUME ~ overLater, mineAfter.there = TRUE
         PROVE  excused \/ AppFits(b, later, after, mineAfter)
    <2>1. CASE e.price \in MobilePrices
      BY <1>5, <1>6, <1>9, <1>12, <2>1 DEF AppFits
    <2>2. CASE e.price \notin MobilePrices
      <3>1. e.kind = "deleted"
        BY <1>0, <1>1, <1>6, <1>12, <2>2 DEF RowsFit
      <3>2. own = {e} /\ b.state = "ended" /\ e.price = b.price
        <4>1. \A f \in own : f # e => f.at < e.at
          BY <1>1, <3>1 DEF EventsFit
        <4> QED
          BY <1>1, <1>9, <1>12, <3>1, <4>1 DEF EventsFit
      <3>3. row.price = b.price
        BY <1>9, <1>12, <3>1, <3>2 DEF PlanFits, PriceFits
      <3>4. after.price \in ApiPrices
        BY <1>2, <1>5, <2>2, <3>2, <3>3, PaymentConstants
      <3> QED
        BY <1>1, <3>1, <3>2, <3>4 DEF AppFits
    <2> QED
      BY <2>1, <2>2
  <1>13. overLater => b.state \in {"open", "ended"}
    BY <1>2
  <1> QED
    BY <1>1, <1>8, <1>10, <1>11, <1>12, <1>13 DEF PlanFits

\* A checkout: the subscription gets its user and its price.
LEMMA CheckoutFits ==
    ASSUME NEW b, NEW own, NEW row, NEW mine, NEW over \in BOOLEAN, NEW excused \in BOOLEAN,
           PlanFits(b, own, row, mine, over, excused), b.state = "unused",
           NEW deal, deal.state = "session", NEW now \in BOOLEAN
    PROVE  PlanFits(deal, own, row, mine, over, now)
  <1>1. own = {} /\ ~ over /\ row = P!NoRow /\ mine = P!NoApp /\ row \in PlanRow /\ mine \in AppRow
    BY DEF PlanFits, RowsFit
  <1>2. EventsFit(deal, own) /\ RowsFit(deal, own, row, mine) /\ PriceFits(deal, own, row)
        /\ ActiveFits(deal, own, row)
    BY <1>1, NoRows DEF EventsFit, RowsFit, PriceFits, ActiveFits
  <1> QED
    BY <1>1, <1>2, NoRows DEF PlanFits

\* A session is paid: the first two events of the subscription are under way.
LEMMA CompletedFits ==
    ASSUME NEW b, NEW own, NEW row, NEW mine, NEW over \in BOOLEAN, NEW excused \in BOOLEAN,
           PlanFits(b, own, row, mine, over, excused), b.state = "session",
           NEW deal, deal.state = "open", NEW now \in BOOLEAN, NEW s \in Subs, NEW p \in P!Prices,
           deal.price = p, NEW n \in Nat, NEW first, NEW second,
           first = [kind |-> "created", sub |-> s, price |-> p, at |-> n],
           second = [kind |-> "paid", sub |-> s, price |-> p, at |-> n + 1]
    PROVE  PlanFits(deal, own \cup {first, second}, row, mine, over, now)
  <1>1. own = {} /\ ~ over /\ row = P!NoRow /\ mine = P!NoApp /\ row \in PlanRow /\ mine \in AppRow
    BY DEF PlanFits, RowsFit
  <1>2. first \in PlanEvent /\ second \in PlanEvent
    BY PaymentConstants DEF PlanEvent
  <1>3. EventsFit(deal, {first, second})
    BY <1>2 DEF EventsFit
  <1>4. RowsFit(deal, {first, second}, row, mine) /\ PriceFits(deal, {first, second}, row)
        /\ ActiveFits(deal, {first, second}, row)
    BY <1>1, NoRows DEF RowsFit, PriceFits, ActiveFits
  <1> QED
    BY <1>1, <1>3, <1>4, NoRows DEF PlanFits

\* Another plan: the youngest event bears its price.
LEMMA ChangedFits ==
    ASSUME NEW b, NEW own, NEW row, NEW mine, NEW over \in BOOLEAN, NEW excused \in BOOLEAN,
           PlanFits(b, own, row, mine, over, excused), b.state = "open",
           NEW deal, deal.state = "open", NEW s \in Subs, NEW p \in P!Prices,
           deal.price = p, NEW n \in Nat, \A f \in own : f.at < n, NEW e,
           e = [kind |-> "updated", sub |-> s, price |-> p, at |-> n]
    PROVE  PlanFits(deal, own \cup {e}, row, mine, over, excused)
  <1>1. EventsFit(b, own) /\ RowsFit(b, own, row, mine)
    BY DEF PlanFits
  <1>2. /\ e \in PlanEvent /\ e.kind = "updated" /\ e.at = n /\ e.price = p
    BY PaymentConstants DEF PlanEvent
  <1>3. \A f \in own : f.kind # "deleted"
    BY <1>1 DEF EventsFit
  <1>4. \A f \in own : f.at \in Nat
    BY <1>1 DEF EventsFit, PlanEvent
  <1>5. EventsFit(deal, own \cup {e})
    BY <1>1, <1>2, <1>3, <1>4 DEF EventsFit
  <1>6. RowsFit(deal, own \cup {e}, row, mine)
    BY <1>1, <1>2 DEF RowsFit
  <1>7. PriceFits(deal, own \cup {e}, row)
    BY <1>2, <1>4 DEF PriceFits
  <1>8. ActiveFits(b, own, row) => ActiveFits(deal, own \cup {e}, row)
    BY <1>2 DEF ActiveFits
  <1>9. AppFits(b, own, row, mine) => AppFits(deal, own \cup {e}, row, mine)
    BY DEF AppFits
  <1> QED
    BY <1>5, <1>6, <1>7, <1>8, <1>9 DEF PlanFits

\* The end: the last event of the subscription.
LEMMA CancelledFits ==
    ASSUME NEW b, NEW own, NEW row, NEW mine, NEW over \in BOOLEAN, NEW excused \in BOOLEAN,
           PlanFits(b, own, row, mine, over, excused), b.state = "open",
           NEW deal, deal.state = "ended", NEW s \in Subs, NEW p \in P!Prices,
           deal.price = p, b.price = p, NEW n \in Nat, \A f \in own : f.at < n, NEW e,
           e = [kind |-> "deleted", sub |-> s, price |-> p, at |-> n]
    PROVE  PlanFits(deal, own \cup {e}, row, mine, over, excused)
  <1>1. EventsFit(b, own) /\ RowsFit(b, own, row, mine)
    BY DEF PlanFits
  <1>2. /\ e \in PlanEvent /\ e.kind = "deleted" /\ e.at = n /\ e.price = p
    BY PaymentConstants DEF PlanEvent
  <1>3. \A f \in own : f.kind # "deleted"
    BY <1>1 DEF EventsFit
  <1>4. \A f \in own : f.at \in Nat
    BY <1>1 DEF EventsFit, PlanEvent
  <1>5. EventsFit(deal, own \cup {e})
    BY <1>1, <1>2, <1>3, <1>4 DEF EventsFit
  <1>6. RowsFit(deal, own \cup {e}, row, mine)
    BY <1>1, <1>2 DEF RowsFit
  <1>7. PriceFits(b, own, row) => PriceFits(deal, own \cup {e}, row)
    <2>1. \A f \in own \cup {e} : f.kind \in {"updated", "created"} => f \in own
      BY <1>2
    <2> QED
      BY <2>1 DEF PriceFits
  <1>8. ActiveFits(deal, own \cup {e}, row)
    BY <1>2 DEF ActiveFits
  <1>9. AppFits(b, own, row, mine) => AppFits(deal, own \cup {e}, row, mine)
    BY DEF AppFits
  <1> QED
    BY <1>5, <1>6, <1>7, <1>8, <1>9 DEF PlanFits

\* The user's customer is removed: the app's row is disabled.
LEMMA DisabledFits ==
    ASSUME NEW b, NEW own, NEW row, NEW mine, NEW over \in BOOLEAN, NEW excused \in BOOLEAN,
           PlanFits(b, own, row, mine, over, excused), mine.there,
           NEW mineAfter, mineAfter = [mine EXCEPT !.active = FALSE]
    PROVE  PlanFits(b, own, row, mineAfter, over, TRUE)
  <1>1. RowsFit(b, own, row, mine) /\ mine \in AppRow /\ row \in PlanRow
    BY DEF PlanFits, RowsFit
  <1>2. mineAfter \in AppRow /\ mineAfter.there = mine.there /\ mineAfter.price = mine.price
    BY <1>1 DEF AppRow
  <1>3. mine.there = TRUE
    BY <1>1 DEF AppRow
  <1>4. row.there # FALSE
    BY <1>1, <1>3, NoRows DEF RowsFit
  <1>5. RowsFit(b, own, row, mineAfter)
    BY <1>1, <1>2, <1>4 DEF RowsFit
  <1> QED
    BY <1>5 DEF PlanFits

\* An event of the customer overtakes one of the subscription, or the user loses
\* a customer.
LEMMA SameFits ==
    ASSUME NEW b, NEW own, NEW row, NEW mine, NEW over \in BOOLEAN, NEW excused \in BOOLEAN,
           PlanFits(b, own, row, mine, over, excused),
           NEW overLater \in BOOLEAN, NEW now \in BOOLEAN,
           over => overLater, overLater => over \/ own # {}, excused => now
    PROVE  PlanFits(b, own, row, mine, overLater, now)
  <1>1. EventsFit(b, own) /\ RowsFit(b, own, row, mine)
    BY DEF PlanFits
  <1>2. own # {} => b.state \in {"open", "ended"}
    BY <1>1 DEF RowsFit
  <1> QED
    BY <1>1, <1>2 DEF PlanFits

-----------------------------------------------------------------------------
(* Plans paid by card: the steps *)

Deal == [user : Users, price : AppPrices, cust : Subs \cup {P!NoCustomer},
         state : {"unused", "session", "open", "ended"}]
Own(s) == {e \in pending : e.sub = s /\ e.kind \notin P!CustomerKinds}
Excused(s) == \E t \in Subs : stripe[t].user = stripe[s].user /\ stripe[t].cust \in gone
Fits(s) == PlanFits(stripe[s], Own(s), rows[s], app[s], s \in overtaken, Excused(s))
PlansFit == \A s \in Subs : Fits(s)

PayTypes ==
  /\ stripe \in [Subs -> Deal] /\ gone \subseteq Subs
  /\ pending \subseteq P!Events /\ sent \in 0 .. MaxEvents /\ \A e \in pending : e.at <= sent
  /\ customerOf \in [Users -> Subs \cup {P!NoCustomer}]
  /\ rows \in [Subs -> PlanRow] /\ app \in [Subs -> AppRow]
  /\ reading \in [Subs -> Subs \cup {P!NoCustomer, P!NotRead}]
  /\ overtaken \subseteq Subs /\ lost \in 0 .. MaxFaults

\* A customer is known by a checkout of the same user that was paid.
Known(c) == stripe[c].cust = c /\ stripe[c].state \in {"open", "ended"}
PayCustomers ==
  /\ \A s \in Subs : /\ stripe[s].state = "unused" => stripe[s].cust = P!NoCustomer
                     /\ stripe[s].state # "unused" => stripe[s].price \in P!Prices
                     /\ stripe[s].cust \in Subs => Known(stripe[s].cust)
  /\ \A u \in Users : customerOf[u] \in Subs => Known(customerOf[u]) /\ stripe[customerOf[u]].user = u
  /\ \A e \in pending : /\ e.kind = "customer.created" => Known(e.sub)
                        /\ e.kind = "customer.deleted" => e.sub \in gone

\* A subscription nothing happens to.
LEMMA PlanStays ==
    ASSUME NEW s \in Subs, Fits(s), stripe'[s] = stripe[s], Own(s)' = Own(s), rows'[s] = rows[s],
           app'[s] = app[s], s \in overtaken => s \in overtaken',
           s \in overtaken' => s \in overtaken \/ Own(s) # {}, Excused(s) => Excused(s)'
    PROVE  Fits(s)'
  <1>1. PICK over \in BOOLEAN, excused \in BOOLEAN, overLater \in BOOLEAN, now \in BOOLEAN :
          /\ over <=> s \in overtaken
          /\ excused <=> Excused(s)
          /\ overLater <=> s \in overtaken'
          /\ now <=> Excused(s)'
    OBVIOUS
  <1>2. PlanFits(stripe[s], Own(s), rows[s], app[s], over, excused)
    BY <1>1 DEF Fits, PlanFits
  <1>3. PlanFits(stripe[s], Own(s), rows[s], app[s], overLater, now)
    BY <1>1, <1>2, SameFits
  <1> QED
    BY <1>1, <1>3 DEF Fits, PlanFits

\* An update whose mail finds no user is committed, and the event comes again.
LEMMA UpdatedAnyway ==
    ASSUME NEW b, NEW own, NEW row, NEW mine, NEW over \in BOOLEAN, NEW excused \in BOOLEAN,
           PlanFits(b, own, row, mine, over, excused),
           NEW e, e \in own, e.kind = "updated", NEW after, NEW mineAfter, row.there = TRUE,
           UpdatedTo(row, mine, e, after, mineAfter)
    PROVE  PlanFits(b, own, after, mineAfter, over, excused)
  <1>1. EventsFit(b, own) /\ RowsFit(b, own, row, mine)
    BY DEF PlanFits
  <1>2. e.price \in P!Prices /\ row \in PlanRow /\ mine \in AppRow
    BY <1>1 DEF EventsFit, PlanEvent, RowsFit
  <1>3. after \in PlanRow /\ after.there = TRUE /\ after.price = e.price /\ after.active = row.active
    BY <1>2 DEF PlanRow, AppPrices, UpdatedTo
  <1>4. /\ mineAfter \in AppRow /\ mineAfter.there = mine.there /\ mineAfter.active = mine.active
        /\ mine.there = TRUE /\ e.price \in MobilePrices => mineAfter.price = e.price
    BY <1>2 DEF AppRow, AppPrices, UpdatedTo
  <1>5. RowsFit(b, own, after, mineAfter)
    BY <1>1, <1>3, <1>4 DEF RowsFit
  <1>6. PriceFits(b, own, row) => PriceFits(b, own, after)
    BY DEF PriceFits
  <1>7. ActiveFits(b, own, row) => ActiveFits(b, own, after)
    BY <1>3 DEF ActiveFits
  <1>8. AppFits(b, own, row, mine) => AppFits(b, own, after, mineAfter)
    BY <1>3, <1>4 DEF AppFits
  <1> QED
    BY <1>1, <1>4, <1>5, <1>6, <1>7, <1>8 DEF PlanFits

\* An answer of 200 leaves the other subscriptions as they were.
LEMMA AnsweredIs ==
    ASSUME PayTypes, NEW e \in pending, P!Answered(e)
    PROVE  /\ \A s \in Subs : s # e.sub => Own(s)' = Own(s) /\ (s \in overtaken' <=> s \in overtaken)
           /\ e.kind \in P!CustomerKinds => Own(e.sub)' = Own(e.sub)
           /\ e.sub \in overtaken' <=> e.sub \in overtaken \/ \E f \in Own(e.sub) : f.at < e.at
           /\ e.kind \notin P!CustomerKinds =>
                e \in Own(e.sub) /\ Own(e.sub)' \in {Own(e.sub), Own(e.sub) \ {e}}
           /\ \A s \in Subs : Excused(s)' <=> Excused(s)
  <1>1. pending' = pending \/ pending' = pending \ {e}
    BY DEF P!Answered
  <1>2. overtaken' = IF \E f \in pending : f.kind \in P!Kinds \ P!CustomerKinds /\ f.sub = e.sub /\ f.at < e.at
                     THEN overtaken \cup {e.sub} ELSE overtaken
    BY DEF P!Answered
  <1>3. (\E f \in pending : f.kind \in P!Kinds \ P!CustomerKinds /\ f.sub = e.sub /\ f.at < e.at)
          <=> \E f \in Own(e.sub) : f.at < e.at
    BY DEF Own, PayTypes, P!Events
  <1>4. UNCHANGED <<stripe, gone>>
    BY DEF P!Answered
  <1>5. \A s \in Subs : Excused(s)' <=> Excused(s)
    BY <1>4 DEF Excused
  <1>6. \A s \in Subs : s # e.sub => Own(s)' = Own(s)
    BY <1>1 DEF Own
  <1>7. e.kind \in P!CustomerKinds => Own(e.sub)' = Own(e.sub)
    BY <1>1 DEF Own
  <1>8. e.kind \notin P!CustomerKinds =>
          e \in Own(e.sub) /\ Own(e.sub)' \in {Own(e.sub), Own(e.sub) \ {e}}
    BY <1>1 DEF Own
  <1> QED
    BY <1>2, <1>3, <1>5, <1>6, <1>7, <1>8

\* The other subscriptions, when an event was answered.
LEMMA AnsweredOthers ==
    ASSUME PayTypes, PlansFit, NEW e \in pending, P!Answered(e),
           \A s \in Subs : s # e.sub => rows'[s] = rows[s] /\ app'[s] = app[s],
           Fits(e.sub)'
    PROVE  PlansFit'
  <1>1. UNCHANGED stripe
    BY DEF P!Answered
  <1>2. ASSUME NEW s \in Subs, s # e.sub
        PROVE  Fits(s)'
    BY <1>1, <1>2, AnsweredIs, PlanStays DEF PlansFit
  <1> QED
    BY <1>2 DEF PlansFit

\* The values a subscription's invariant speaks of before and after an event of it.
LEMMA FitsBy ==
    ASSUME NEW s \in Subs, NEW over \in BOOLEAN, NEW excused \in BOOLEAN,
           over <=> s \in overtaken, excused <=> Excused(s)
    PROVE  Fits(s) <=> PlanFits(stripe[s], Own(s), rows[s], app[s], over, excused)
  BY DEF Fits, PlanFits

\* The same in the next state.
LEMMA FitsByThen ==
    ASSUME NEW s \in Subs, NEW over \in BOOLEAN, NEW excused \in BOOLEAN,
           over <=> s \in overtaken', excused <=> Excused(s)'
    PROVE  Fits(s)' <=> PlanFits(stripe'[s], Own(s)', rows'[s], app'[s], over, excused)
  BY DEF Fits, PlanFits

\* Events of a subscription that were handled.
LEMMA HandlersFit ==
    ASSUME PayTypes, PlansFit, NEW e \in pending,
           P!SubscriptionCreated(e) \/ P!SubscriptionUpdated(e)
             \/ P!SubscriptionDeleted(e) \/ P!InvoicePaid(e)
    PROVE  PlansFit'
  <1>1. PICK s \in Subs : s = e.sub
    BY DEF PayTypes, P!Events
  <1>2. e.kind \notin P!CustomerKinds
    BY PaymentConstants DEF P!SubscriptionCreated, P!SubscriptionUpdated, P!SubscriptionDeleted,
                            P!InvoicePaid
  <1>3. PICK over \in BOOLEAN, excused \in BOOLEAN, overLater \in BOOLEAN, now \in BOOLEAN :
          /\ over <=> s \in overtaken
          /\ excused <=> Excused(s)
          /\ overLater <=> s \in overtaken'
          /\ now <=> Excused(s)'
    OBVIOUS
  <1>4. PlanFits(stripe[s], Own(s), rows[s], app[s], over, excused)
    BY <1>1, <1>3, FitsBy DEF PlansFit
  <1>5. UNCHANGED stripe /\ rows \in [Subs -> PlanRow] /\ app \in [Subs -> AppRow]
        /\ stripe[s].cust \in Subs \cup {P!NoCustomer} /\ e.price \in P!Prices
    BY <1>1 DEF PayTypes, Deal, P!Events, P!SubscriptionCreated, P!SubscriptionUpdated,
           P!SubscriptionDeleted, P!InvoicePaid, P!Status, P!Answered
  <1>6. rows[s].there \in BOOLEAN
    BY <1>5 DEF PlanRow
  <1>7. ASSUME P!Answered(e)
        PROVE  HandledTo(Own(s), e, Own(s)', over, overLater) /\ (now <=> excused)
    BY <1>1, <1>2, <1>3, <1>7, AnsweredIs DEF HandledTo
  <1>8. ASSUME P!Answered(e), PlanFits(stripe[s], Own(s)', rows'[s], app'[s], overLater, excused),
               \A t \in Subs : t # s => rows'[t] = rows[t] /\ app'[t] = app[t]
        PROVE  PlansFit'
    <2>1. Fits(s)'
      BY <1>3, <1>5, <1>7, <1>8, FitsByThen
    <2> QED
      BY <1>1, <1>8, <2>1, AnsweredOthers
  <1>9. CASE P!SubscriptionCreated(e)
    <2>1. /\ P!Answered(e) /\ e.kind = "created"
          /\ rows' = IF rows[s].there THEN rows
                     ELSE [rows EXCEPT ![s] = [there |-> TRUE, cust |-> stripe[s].cust, price |-> e.price,
                                               active |-> FALSE, ended |-> FALSE]]
          /\ app' = IF rows[s].there \/ e.price \in ApiPrices THEN app
                    ELSE [app EXCEPT ![s] = [there |-> TRUE, price |-> e.price, active |-> FALSE]]
      BY <1>1, <1>9 DEF P!SubscriptionCreated
    <2>2. \A t \in Subs : t # s => rows'[t] = rows[t] /\ app'[t] = app[t]
      BY <1>5, <2>1
    <2>3. CreatedTo(rows[s], app[s], e, stripe[s].cust, rows'[s], app'[s])
      BY <1>5, <1>6, <2>1, PaymentConstants DEF CreatedTo
    <2>4. PlanFits(stripe[s], Own(s)', rows'[s], app'[s], overLater, excused)
      BY ONLY <1>4, <1>5, <1>7, <2>1, <2>3, CreatedFits
    <2> QED
      BY <1>8, <2>1, <2>2, <2>4
  <1>10. CASE P!SubscriptionUpdated(e)
    <2>1. /\ e.kind = "updated" /\ rows[s].there
          /\ rows' = [rows EXCEPT ![s].price = e.price, ![s].ended = FALSE]
          /\ app' = IF e.price \in MobilePrices /\ app[s].there
                    THEN [app EXCEPT ![s].price = e.price] ELSE app
          /\ P!Answered(e) \/ UNCHANGED <<stripe, gone, pending, overtaken>>
      BY <1>1, <1>10 DEF P!SubscriptionUpdated
    <2>2. \A t \in Subs : t # s => rows'[t] = rows[t] /\ app'[t] = app[t]
      BY <1>5, <2>1
    <2>3. e.kind = "updated" /\ rows[s].there = TRUE
      BY <1>6, <2>1
    <2>4. UpdatedTo(rows[s], app[s], e, rows'[s], app'[s])
      BY <1>5, <2>1 DEF UpdatedTo
    <2>5. CASE P!Answered(e)
      <3>0. HandledTo(Own(s), e, Own(s)', over, overLater)
        BY <1>7, <2>5
      <3>2. PICK b, own, row, mine, later, after, mineAfter :
              /\ b = stripe[s] /\ own = Own(s) /\ row = rows[s] /\ mine = app[s]
              /\ later = Own(s)' /\ after = rows'[s] /\ mineAfter = app'[s]
        OBVIOUS
      <3>3. /\ PlanFits(b, own, row, mine, over, excused) /\ HandledTo(own, e, later, over, overLater)
            /\ row.there = TRUE /\ UpdatedTo(row, mine, e, after, mineAfter)
        BY ONLY <1>4, <2>3, <2>4, <3>0, <3>2
      <3>4. PlanFits(b, later, after, mineAfter, overLater, excused)
        BY ONLY <2>3, <3>3, over \in BOOLEAN, overLater \in BOOLEAN, excused \in BOOLEAN, UpdatedFits
      <3>1. PlanFits(stripe[s], Own(s)', rows'[s], app'[s], overLater, excused)
        BY ONLY <3>2, <3>4
      <3> QED
        BY <1>8, <2>2, <2>5, <3>1
    <2>6. CASE UNCHANGED <<stripe, gone, pending, overtaken>>
      <3>1. \A t \in Subs : /\ Own(t)' = Own(t) /\ (Excused(t)' <=> Excused(t))
                            /\ t \in overtaken' <=> t \in overtaken
        BY <2>6 DEF Own, Excused
      <3>2. e \in Own(s)
        BY <1>1, <1>2 DEF Own
      <3>3. PlanFits(stripe[s], Own(s), rows'[s], app'[s], over, excused)
        BY ONLY <1>4, <2>3, <2>4, <3>2, UpdatedAnyway
      <3>4. Fits(s)'
        BY <1>3, <1>5, <3>1, <3>3, FitsByThen
      <3>5. ASSUME NEW t \in Subs, t # s
            PROVE  Fits(t)'
        BY <1>5, <2>2, <3>1, <3>5, PlanStays DEF PlansFit
      <3> QED
        BY <3>4, <3>5 DEF PlansFit
    <2> QED
      BY <2>1, <2>5, <2>6
  <1>11. ASSUME NEW a \in BOOLEAN, NEW n \in BOOLEAN, P!Answered(e),
                (e.kind = "paid" /\ a = TRUE) \/ (e.kind = "deleted" /\ a = FALSE),
                e.price \in MobilePrices => app[s].there,
                rows' = IF rows[s].there THEN [rows EXCEPT ![s].active = a, ![s].ended = n] ELSE rows,
                app' = IF e.price \in MobilePrices THEN [app EXCEPT ![s].active = a] ELSE app
         PROVE  PlansFit'
    <2>1. \A t \in Subs : t # s => rows'[t] = rows[t] /\ app'[t] = app[t]
      BY <1>5, <1>11
    <2>2. rows'[s] = IF rows[s].there THEN [rows[s] EXCEPT !.active = a, !.ended = n] ELSE rows[s]
      BY <1>5, <1>11
    <2>3. app'[s] = IF e.price \in MobilePrices THEN [app[s] EXCEPT !.active = a] ELSE app[s]
      BY <1>5, <1>11
    <2>4. StatusTo(rows[s], app[s], e, a, n, rows'[s], app'[s])
      BY <1>11, <2>2, <2>3 DEF StatusTo
    <2>5. PlanFits(stripe[s], Own(s)', rows'[s], app'[s], overLater, excused)
      BY <1>4, <1>7, <1>11, <2>4, StatusFits
    <2> QED
      BY <1>8, <1>11, <2>1, <2>5
  <1>12. CASE P!SubscriptionDeleted(e)
    <2>1. PICK n \in BOOLEAN : n = (TRUE \/ rows[s].ended)
      OBVIOUS
    <2>2. rows' = IF rows[s].there THEN [rows EXCEPT ![s].active = FALSE, ![s].ended = n] ELSE rows
      BY <1>1, <1>12, <2>1 DEF P!SubscriptionDeleted, P!Status, P!WithStatus
    <2> QED
      BY <1>1, <1>11, <1>12, <2>2 DEF P!SubscriptionDeleted, P!Status
  <1>13. CASE P!InvoicePaid(e)
    <2>1. PICK n \in BOOLEAN : n = (FALSE \/ rows[s].ended)
      OBVIOUS
    <2>2. rows' = IF rows[s].there THEN [rows EXCEPT ![s].active = TRUE, ![s].ended = n] ELSE rows
      BY <1>1, <1>13, <2>1 DEF P!InvoicePaid, P!Status, P!WithStatus
    <2> QED
      BY <1>1, <1>11, <1>13, <2>2 DEF P!InvoicePaid, P!Status
  <1> QED
    BY <1>9, <1>10, <1>12, <1>13

\* An answer of 200, to the types.
LEMMA AnsweredTypes ==
    ASSUME PayTypes, NEW e \in pending, P!Answered(e)
    PROVE  /\ pending' \subseteq pending /\ UNCHANGED <<stripe, gone, sent>>
           /\ overtaken' \subseteq Subs /\ lost' \in 0 .. MaxFaults
  <1>1. e.sub \in Subs
    BY DEF PayTypes, P!Events
  <1>2. lost' = lost \/ (lost < MaxFaults /\ lost' = lost + 1)
    BY DEF P!Answered
  <1>3. lost' \in 0 .. MaxFaults
    BY <1>2, PaymentConstants DEF PayTypes
  <1> QED
    BY <1>1, <1>3 DEF P!Answered, PayTypes

\* Events sent by Stripe, to the types.
LEMMA SentTypes ==
    ASSUME PayTypes, NEW events, NEW n \in Nat, P!Send(events, n),
           \A e \in events : /\ e \in [kind : P!Kinds, sub : Subs, price : P!Prices, at : Nat]
                             /\ sent < e.at /\ e.at <= sent + n
    PROVE  /\ pending' \subseteq P!Events /\ sent' \in 0 .. MaxEvents
           /\ \A e \in pending' : e.at <= sent'
  <1>1. sent' = sent + n /\ pending' = pending \cup events /\ sent + n <= MaxEvents /\ sent \in Nat
    BY DEF P!Send, PayTypes
  <1>2. sent' \in 0 .. MaxEvents
    BY <1>1, PaymentConstants
  <1>3. \A e \in events : e \in P!Events
    BY <1>1, <1>2, PaymentConstants DEF P!Events
  <1>4. \A e \in pending : e \in P!Events /\ e.at <= sent'
    BY <1>1, <1>2 DEF PayTypes, P!Events
  <1> QED
    BY <1>1, <1>2, <1>3, <1>4

\* The events a paid session sends: the first two of the subscription, and before
\* them that of its customer if there was none.
CompleteSent(s, n, first, second, before) ==
  /\ n \in {sent, sent + 1} /\ stripe[s].price \in P!Prices
  /\ first = [kind |-> "created", sub |-> s, price |-> stripe[s].price, at |-> n + 1]
  /\ second = [kind |-> "paid", sub |-> s, price |-> stripe[s].price, at |-> n + 2]
  /\ \A e \in before :
       /\ e \in [kind : P!Kinds, sub : Subs, price : P!Prices, at : Nat]
       /\ e.kind = "customer.created" /\ e.sub = s /\ e.at = sent + 1
       /\ n = sent + 1 /\ stripe[s].cust = P!NoCustomer
  /\ P!Send(before \cup {first, second}, n + 2 - sent)

\* They are sent when the session is paid.
LEMMA CompleteSends ==
    ASSUME PayTypes, PayCustomers, NEW s \in Subs, P!Complete(s)
    PROVE  \E n, first, second, before : CompleteSent(s, n, first, second, before)
  <1>1. stripe[s].price \in P!Prices /\ sent \in Nat
    BY DEF PayCustomers, PayTypes, P!Complete
  <1>2. PICK n \in Nat : n = IF stripe[s].cust = P!NoCustomer THEN sent + 1 ELSE sent
    BY <1>1
  <1>3. PICK before : before = IF stripe[s].cust = P!NoCustomer
                               THEN {P!Event("customer.created", s, stripe[s].price, sent + 1)} ELSE {}
    OBVIOUS
  <1>4. PICK first, second :
          /\ first = [kind |-> "created", sub |-> s, price |-> stripe[s].price, at |-> n + 1]
          /\ second = [kind |-> "paid", sub |-> s, price |-> stripe[s].price, at |-> n + 2]
    OBVIOUS
  <1>5. P!Send(before \cup {first, second}, n + 2 - sent)
    BY <1>2, <1>3, <1>4 DEF P!Complete, P!Event
  <1>6. \A e \in before :
          /\ e \in [kind : P!Kinds, sub : Subs, price : P!Prices, at : Nat]
          /\ e.kind = "customer.created" /\ e.sub = s /\ e.at = sent + 1
          /\ n = sent + 1 /\ stripe[s].cust = P!NoCustomer
    BY <1>1, <1>2, <1>3, PaymentConstants DEF P!Event
  <1>7. n \in {sent, sent + 1}
    BY <1>2
  <1>8. CompleteSent(s, n, first, second, before)
    BY <1>1, <1>4, <1>5, <1>6, <1>7 DEF CompleteSent
  <1> QED
    BY <1>8

\* Stripe opens a subscription, of a new customer or of the one it has.
LEMMA DealsOpened ==
    ASSUME NEW deals \in [Subs -> Deal], NEW s \in Subs, NEW c \in Subs \cup {P!NoCustomer}
    PROVE  [deals EXCEPT ![s].state = "open", ![s].cust = c] \in [Subs -> Deal]
  <1>1. PICK d : d = [deals[s] EXCEPT !.state = "open", !.cust = c]
    OBVIOUS
  <1>2. deals[s] \in Deal
    OBVIOUS
  <1>3. d \in Deal
    BY ONLY <1>1, <1>2, c \in Subs \cup {P!NoCustomer} DEF Deal
  <1>4. [deals EXCEPT ![s].state = "open", ![s].cust = c] = [deals EXCEPT ![s] = d]
    BY ONLY <1>1
  <1>5. [deals EXCEPT ![s] = d] \in [Subs -> Deal]
    BY ONLY <1>3, deals \in [Subs -> Deal], s \in Subs
  <1> QED
    BY ONLY <1>4, <1>5

\* Every step keeps the types.
LEMMA PayTypesStep ==
    ASSUME PayTypes, PayCustomers, P!Next
    PROVE  PayTypes'
  <1> USE PaymentConstants
  <1>1. CASE \E u \in Users, s \in Subs, p \in P!Prices : P!Checkout(u, s, p)
    <2>1. PICK u \in Users, s \in Subs, p \in P!Prices : P!Checkout(u, s, p)
      BY <1>1
    <2>2. [user |-> u, price |-> p, cust |-> customerOf[u], state |-> "session"] \in Deal
      BY DEF PayTypes, Deal, AppPrices
    <2> QED
      BY <2>1, <2>2 DEF P!Checkout, PayTypes, P!tables
  <1>0. sent + 1 \in Nat
    BY DEF PayTypes
  <1>2. ASSUME NEW s \in Subs, P!Complete(s)
        PROVE  PayTypes'
    <2>1. PICK n, first, second, before : CompleteSent(s, n, first, second, before)
      BY <1>2, CompleteSends
    <2>2. PICK k \in Nat : k = n + 2 - sent
      BY <2>1 DEF PayTypes, CompleteSent
    <2>3. \A e \in before \cup {first, second} :
             /\ e \in [kind : P!Kinds, sub : Subs, price : P!Prices, at : Nat]
             /\ sent < e.at /\ e.at <= sent + k
      BY <2>1, <2>2, <1>0 DEF PayTypes, CompleteSent
    <2>4. /\ pending' \subseteq P!Events /\ sent' \in 0 .. MaxEvents
          /\ \A e \in pending' : e.at <= sent'
      BY <2>1, <2>2, <2>3, SentTypes DEF CompleteSent
    <2>5. stripe' \in [Subs -> Deal]
      <3>1. PICK c \in Subs \cup {P!NoCustomer} :
              c = IF stripe[s].cust = P!NoCustomer THEN s ELSE stripe[s].cust
        BY DEF PayTypes, Deal
      <3>2. stripe' = [stripe EXCEPT ![s].state = "open", ![s].cust = c]
        BY <1>2, <3>1 DEF P!Complete
      <3>3. PICK deals \in [Subs -> Deal] : deals = stripe
        BY DEF PayTypes
      <3>4. [deals EXCEPT ![s].state = "open", ![s].cust = c] \in [Subs -> Deal]
        BY ONLY DealsOpened
      <3> QED
        BY ONLY <3>2, <3>3, <3>4
    <2> QED
      BY <1>2, <2>4, <2>5 DEF P!Complete, PayTypes, P!tables
  <1>3. ASSUME NEW s \in Subs, NEW e, P!Send({e}, 1), stripe' \in [Subs -> Deal], gone' \subseteq Subs,
               UNCHANGED <<P!tables, reading, overtaken, lost>>,
               e \in [kind : P!Kinds, sub : Subs, price : P!Prices, at : Nat], e.at = sent + 1
        PROVE  PayTypes'
    <2>1. sent < e.at /\ e.at <= sent + 1
      BY <1>3 DEF PayTypes
    <2>2. /\ pending' \subseteq P!Events /\ sent' \in 0 .. MaxEvents
          /\ \A f \in pending' : f.at <= sent'
      BY <1>3, <2>1, SentTypes
    <2> QED
      BY <1>3, <2>2 DEF PayTypes, P!tables
  <1>5. ASSUME NEW s \in Subs, P!Cancel(s)
        PROVE  PayTypes'
    <2>1. stripe[s].price \in P!Prices /\ stripe' \in [Subs -> Deal]
      BY <1>5 DEF P!Cancel, PayTypes, PayCustomers, Deal
    <2>2. PICK e : e = P!Event("deleted", s, stripe[s].price, sent + 1)
      OBVIOUS
    <2>3. e \in [kind : P!Kinds, sub : Subs, price : P!Prices, at : Nat] /\ e.at = sent + 1
      BY <1>0, <2>1, <2>2 DEF P!Event
    <2>4. P!Send({e}, 1) /\ UNCHANGED <<gone, P!tables, reading, overtaken, lost>>
      BY <1>5, <2>2 DEF P!Cancel
    <2> QED
      BY <1>3, <2>1, <2>3, <2>4 DEF PayTypes
  <1>6. ASSUME NEW s \in Subs, P!DeleteCustomer(s)
        PROVE  PayTypes'
    <2>1. PICK t \in Subs : stripe[t].cust = s
      BY <1>6 DEF P!DeleteCustomer
    <2>2. stripe[s].price \in P!Prices
      BY <2>1 DEF PayCustomers, Known
    <2>3. PICK e : e = P!Event("customer.deleted", s, stripe[s].price, sent + 1)
      OBVIOUS
    <2>4. e \in [kind : P!Kinds, sub : Subs, price : P!Prices, at : Nat] /\ e.at = sent + 1
      BY <1>0, <2>2, <2>3 DEF P!Event
    <2>5. P!Send({e}, 1) /\ UNCHANGED <<stripe, P!tables, reading, overtaken, lost>>
          /\ gone' = gone \cup {s}
      BY <1>6, <2>3 DEF P!DeleteCustomer
    <2> QED
      BY <1>3, <2>4, <2>5 DEF PayTypes
  <1>7. ASSUME NEW s \in Subs, NEW p \in P!Prices, P!ChangePlan(s, p)
        PROVE  PayTypes'
    <2>1. stripe' \in [Subs -> Deal]
      BY <1>7 DEF P!ChangePlan, PayTypes, Deal, AppPrices
    <2>2. PICK e : e = P!Event("updated", s, p, sent + 1)
      OBVIOUS
    <2>3. e \in [kind : P!Kinds, sub : Subs, price : P!Prices, at : Nat] /\ e.at = sent + 1
      BY <1>0, <2>2 DEF P!Event
    <2>4. P!Send({e}, 1) /\ UNCHANGED <<gone, P!tables, reading, overtaken, lost>>
      BY <1>7, <2>2 DEF P!ChangePlan
    <2> QED
      BY <1>3, <2>1, <2>3, <2>4 DEF PayTypes
  <1>8. ASSUME NEW e \in pending, P!Handle(e)
        PROVE  PayTypes'
    <2>1. PICK s \in Subs : s = e.sub /\ e.price \in P!Prices /\ stripe[s] \in Deal
      BY DEF PayTypes, P!Events
    <2>2. ASSUME P!Answered(e), UNCHANGED <<customerOf, reading>>, rows' \in [Subs -> PlanRow],
                 app' \in [Subs -> AppRow]
          PROVE  PayTypes'
      BY <2>2, AnsweredTypes DEF PayTypes
    <2>3. CASE P!ReadCustomer(e)
      BY <2>1, <2>3 DEF P!ReadCustomer, PayTypes, P!tables, Deal
    <2>4. CASE P!WriteCustomer(e)
      <3>1. customerOf' \in [Users -> Subs \cup {P!NoCustomer}]
        BY <2>1, <2>4 DEF P!WriteCustomer, PayTypes, Deal
      <3>2. reading' \in [Subs -> Subs \cup {P!NoCustomer, P!NotRead}] /\ UNCHANGED <<rows, app>>
        BY <2>1, <2>4 DEF P!WriteCustomer, PayTypes
      <3>3. P!Answered(e) \/ UNCHANGED <<stripe, gone, pending, sent, overtaken, lost>>
        BY <2>4 DEF P!WriteCustomer
      <3> QED
        BY <3>1, <3>2, <3>3, AnsweredTypes DEF PayTypes
    <2>5. CASE P!CustomerDeleted(e)
      <3>1. app' \in [Subs -> AppRow]
        BY <2>5 DEF P!CustomerDeleted, PayTypes, AppRow
      <3> QED
        BY <2>5, <3>1 DEF P!CustomerDeleted, PayTypes
    <2>6. CASE P!SubscriptionCreated(e)
      <3>1. /\ [there |-> TRUE, cust |-> stripe[s].cust, price |-> e.price, active |-> FALSE,
                ended |-> FALSE] \in PlanRow
            /\ [there |-> TRUE, price |-> e.price, active |-> FALSE] \in AppRow
        BY <2>1 DEF PlanRow, AppRow, AppPrices, Deal
      <3>2. rows' \in [Subs -> PlanRow] /\ app' \in [Subs -> AppRow]
        BY <2>1, <2>6, <3>1 DEF P!SubscriptionCreated, PayTypes
      <3> QED
        BY <2>2, <2>6, <3>2 DEF P!SubscriptionCreated
    <2>7. CASE P!SubscriptionUpdated(e)
      <3>1. rows' \in [Subs -> PlanRow]
        BY <2>1, <2>7 DEF P!SubscriptionUpdated, PayTypes, PlanRow, AppPrices
      <3>2. app' \in [Subs -> AppRow]
        BY <2>1, <2>7 DEF P!SubscriptionUpdated, PayTypes, AppRow, AppPrices
      <3>3. P!Answered(e) \/ UNCHANGED <<stripe, gone, pending, sent, overtaken, lost>>
        BY <2>7 DEF P!SubscriptionUpdated
      <3>4. UNCHANGED <<customerOf, reading>>
        BY <2>7 DEF P!SubscriptionUpdated
      <3> QED
        BY <2>2, <3>1, <3>2, <3>3, <3>4 DEF PayTypes
    <2>8. ASSUME NEW a \in BOOLEAN, P!Status(e, a)
          PROVE  PayTypes'
      <3>1. PICK n \in BOOLEAN : n = (~ a \/ rows[s].ended)
        OBVIOUS
      <3>2. rows' = IF rows[s].there THEN [rows EXCEPT ![s].active = a, ![s].ended = n] ELSE rows
        BY <2>1, <2>8, <3>1 DEF P!Status, P!WithStatus
      <3>3. rows' \in [Subs -> PlanRow]
        BY <2>1, <3>2 DEF PayTypes, PlanRow
      <3>4. app' \in [Subs -> AppRow]
        BY <2>1, <2>8 DEF P!Status, PayTypes, AppRow
      <3> QED
        BY <2>2, <2>8, <3>3, <3>4 DEF P!Status
    <2> QED
      BY <1>8, <2>3, <2>4, <2>5, <2>6, <2>7, <2>8 DEF P!Handle, P!SubscriptionDeleted, P!InvoicePaid
  <1> QED
    BY <1>1, <1>2, <1>5, <1>6, <1>7, <1>8 DEF P!Next

\* A customer once known stays known, and so does the user it was made for.
LEMMA KnownStays ==
    ASSUME PayTypes, PayCustomers, P!Next, NEW c \in Subs, Known(c)
    PROVE  Known(c)' /\ stripe'[c].user = stripe[c].user
  <1>1. stripe[c].state # "unused" /\ stripe[c].state # "session"
    BY DEF Known
  <1>2. ASSUME NEW u \in Users, NEW s \in Subs, NEW p \in P!Prices, P!Checkout(u, s, p)
        PROVE  stripe'[c] = stripe[c]
    BY <1>1, <1>2 DEF P!Checkout, PayTypes
  <1>3. ASSUME NEW s \in Subs, P!Complete(s)
        PROVE  stripe'[c] = stripe[c]
    BY <1>1, <1>3 DEF P!Complete, PayTypes
  <1>4. ASSUME NEW s \in Subs, P!Cancel(s)
        PROVE  Known(c)' /\ stripe'[c].user = stripe[c].user
    BY <1>4 DEF P!Cancel, PayTypes, Known, Deal
  <1>5. ASSUME NEW s \in Subs, NEW p \in P!Prices, P!ChangePlan(s, p)
        PROVE  Known(c)' /\ stripe'[c].user = stripe[c].user
    BY <1>5 DEF P!ChangePlan, PayTypes, Known, Deal
  <1>6. ASSUME NEW s \in Subs, P!DeleteCustomer(s)
        PROVE  stripe' = stripe
    BY <1>6 DEF P!DeleteCustomer
  <1>7. ASSUME NEW e \in pending, P!Handle(e)
        PROVE  stripe' = stripe
    BY <1>7 DEF P!Handle, P!ReadCustomer, P!WriteCustomer, P!CustomerDeleted, P!SubscriptionCreated,
                P!SubscriptionUpdated, P!SubscriptionDeleted, P!InvoicePaid, P!Status, P!Answered
  <1> QED
    BY <1>2, <1>3, <1>4, <1>5, <1>6, <1>7 DEF P!Next, Known

\* Every step keeps the customers known.
LEMMA PayCustomersStep ==
    ASSUME PayTypes, PayCustomers, P!Next
    PROVE  PayCustomers'
  <1>0. \A c \in Subs : Known(c) => Known(c)' /\ stripe'[c].user = stripe[c].user
    BY KnownStays
  <1> USE PaymentConstants
  <1> DEFINE UsersKnown == \A u \in Users : customerOf[u] \in Subs
                             => Known(customerOf[u]) /\ stripe[customerOf[u]].user = u
             DealKnown(s) == /\ stripe[s].state = "unused" => stripe[s].cust = P!NoCustomer
                             /\ stripe[s].state # "unused" => stripe[s].price \in P!Prices
                             /\ stripe[s].cust \in Subs => Known(stripe[s].cust)
             EventKnown(e) == /\ e.kind = "customer.created" => Known(e.sub)
                              /\ e.kind = "customer.deleted" => e.sub \in gone
  <1>1. UsersKnown /\ (\A s \in Subs : DealKnown(s)) /\ \A e \in pending : EventKnown(e)
    BY DEF PayCustomers
  <1>2. \A e \in pending : e.sub \in Subs
    BY DEF PayTypes, P!Events
  <1>3. ASSUME customerOf' = customerOf
        PROVE  UsersKnown'
    BY <1>0, <1>1, <1>3
  <1>4. ASSUME gone \subseteq gone'
        PROVE  \A e \in pending : EventKnown(e)'
    BY <1>0, <1>1, <1>2, <1>4
  <1>5. ASSUME stripe' = stripe, UsersKnown', gone' = gone, pending' \subseteq pending
        PROVE  PayCustomers'
    <2>1. \A s \in Subs : DealKnown(s)'
      BY <1>1, <1>5 DEF Known
    <2> QED
      BY <1>4, <1>5, <2>1 DEF PayCustomers
  <1>6. ASSUME NEW u \in Users, NEW s \in Subs, NEW p \in P!Prices, P!Checkout(u, s, p)
        PROVE  PayCustomers'
    <2>1. /\ stripe' = [stripe EXCEPT ![s] = [user |-> u, price |-> p, cust |-> customerOf[u],
                                              state |-> "session"]]
          /\ UNCHANGED <<gone, pending, customerOf>>
      BY <1>6 DEF P!Checkout, P!tables
    <2>2. \A t \in Subs \ {s} : stripe'[t] = stripe[t]
      BY <2>1 DEF PayTypes
    <2>3. /\ stripe'[s].state = "session" /\ stripe'[s].price = p
          /\ stripe'[s].cust = customerOf[u]
      BY <2>1 DEF PayTypes
    <2>4. DealKnown(s)'
      BY <1>0, <1>1, <2>3
    <2>5. \A t \in Subs \ {s} : DealKnown(t)'
      BY <1>0, <1>1, <2>2
    <2>6. UsersKnown' /\ \A e \in pending' : EventKnown(e)'
      BY <1>3, <1>4, <2>1
    <2> QED
      BY <2>4, <2>5, <2>6 DEF PayCustomers
  <1>7. ASSUME NEW s \in Subs, P!Complete(s)
        PROVE  PayCustomers'
    <2>1. PICK c \in Subs \cup {P!NoCustomer} :
            c = IF stripe[s].cust = P!NoCustomer THEN s ELSE stripe[s].cust
      BY DEF PayTypes, Deal
    <2>2. stripe' = [stripe EXCEPT ![s].state = "open", ![s].cust = c] /\ UNCHANGED <<gone, customerOf>>
      BY <1>7, <2>1 DEF P!Complete, P!tables
    <2>3. \A t \in Subs \ {s} : stripe'[t] = stripe[t]
      BY <2>2 DEF PayTypes
    <2>4. stripe'[s].state = "open" /\ stripe'[s].price = stripe[s].price /\ stripe'[s].cust = c
      BY <2>2 DEF PayTypes, Deal
    <2>5. c = s => Known(s)'
      BY <2>4 DEF Known
    <2>6. c \in Subs => Known(c)'
      BY <1>0, <1>1, <2>1, <2>5
    <2>7. DealKnown(s)'
      BY <1>1, <1>7, <2>4, <2>6 DEF P!Complete
    <2>8. \A t \in Subs \ {s} : DealKnown(t)'
      BY <1>0, <1>1, <2>3
    <2>9. PICK n, first, second, before : CompleteSent(s, n, first, second, before)
      BY <1>7, CompleteSends
    <2>10. /\ pending' = pending \cup (before \cup {first, second})
           /\ \A e \in before : e.kind = "customer.created" /\ e.sub = s /\ stripe[s].cust = P!NoCustomer
           /\ first.kind = "created" /\ second.kind = "paid"
      BY <2>9 DEF CompleteSent, P!Send
    <2>11. \A e \in before \cup {first, second} : EventKnown(e)'
      BY <2>1, <2>5, <2>10
    <2>12. UsersKnown' /\ \A e \in pending : EventKnown(e)'
      BY <1>3, <1>4, <2>2
    <2> QED
      BY <2>7, <2>8, <2>10, <2>11, <2>12 DEF PayCustomers
  <1>8. ASSUME NEW s \in Subs, NEW p \in P!Prices, P!Cancel(s) \/ P!ChangePlan(s, p)
        PROVE  PayCustomers'
    <2>1. PICK e : pending' = pending \cup {e} /\ e.kind \notin P!CustomerKinds
      <3>1. PICK ended, updated : /\ ended = P!Event("deleted", s, stripe[s].price, sent + 1)
                                  /\ updated = P!Event("updated", s, p, sent + 1)
        OBVIOUS
      <3>2. ended.kind \notin P!CustomerKinds /\ updated.kind \notin P!CustomerKinds
        BY <3>1 DEF P!Event
      <3>3. pending' = pending \cup {ended} \/ pending' = pending \cup {updated}
        BY <1>8, <3>1 DEF P!Cancel, P!ChangePlan, P!Send
      <3> QED
        BY <3>2, <3>3
    <2>2. \A t \in Subs : /\ stripe'[t].cust = stripe[t].cust
                          /\ stripe[t].state # "unused" => stripe[t].price \in P!Prices
                          /\ stripe'[t].price \in {p, stripe[t].price}
                          /\ stripe'[t].state = "unused" <=> stripe[t].state = "unused"
      BY <1>1, <1>8 DEF P!Cancel, P!ChangePlan, PayTypes, Deal
    <2>3. \A t \in Subs : DealKnown(t)'
      BY <1>0, <1>1, <2>2
    <2>4. UNCHANGED <<gone, customerOf>>
      BY <1>8 DEF P!Cancel, P!ChangePlan, P!tables
    <2>5. UsersKnown' /\ \A f \in pending : EventKnown(f)'
      BY <1>3, <1>4, <2>4
    <2> QED
      BY <2>1, <2>3, <2>5 DEF PayCustomers
  <1>9. ASSUME NEW c \in Subs, P!DeleteCustomer(c)
        PROVE  PayCustomers'
    <2>1. PICK e : /\ pending' = pending \cup {e} /\ e.kind = "customer.deleted" /\ e.sub = c
                   /\ gone' = gone \cup {c} /\ UNCHANGED <<stripe, customerOf>>
      <3>1. PICK e : e = P!Event("customer.deleted", c, stripe[c].price, sent + 1)
        OBVIOUS
      <3>2. e.kind = "customer.deleted" /\ e.sub = c
        BY <3>1 DEF P!Event
      <3> QED
        BY <1>9, <3>1, <3>2 DEF P!DeleteCustomer, P!Send, P!tables
    <2>2. \A t \in Subs : DealKnown(t)'
      BY <1>1, <2>1 DEF Known
    <2>3. UsersKnown' /\ \A f \in pending : EventKnown(f)'
      BY <1>3, <1>4, <2>1
    <2> QED
      BY <2>1, <2>2, <2>3 DEF PayCustomers
  <1>10. ASSUME NEW e \in pending, P!Handle(e)
         PROVE  PayCustomers'
    <2>1. stripe' = stripe /\ gone' = gone /\ pending' \subseteq pending
      BY <1>10 DEF P!Handle, P!ReadCustomer, P!WriteCustomer, P!CustomerDeleted, P!SubscriptionCreated,
                   P!SubscriptionUpdated, P!SubscriptionDeleted, P!InvoicePaid, P!Status, P!Answered
    <2>2. CASE P!WriteCustomer(e)
      <3>1. Known(e.sub) /\ e.sub \in Subs
        BY <1>1, <1>2, <2>2 DEF P!WriteCustomer
      <3>2. \/ customerOf' = customerOf
            \/ customerOf' = [customerOf EXCEPT ![stripe[e.sub].user] = e.sub]
        BY <2>2 DEF P!WriteCustomer
      <3>3. UsersKnown'
        BY <1>0, <1>1, <2>1, <3>1, <3>2 DEF PayTypes
      <3> QED
        BY <1>5, <2>1, <3>3
    <2>3. CASE ~ P!WriteCustomer(e)
      <3>1. customerOf' = customerOf
        BY <1>10, <2>3 DEF P!Handle, P!ReadCustomer, P!CustomerDeleted, P!SubscriptionCreated,
             P!SubscriptionUpdated, P!SubscriptionDeleted, P!InvoicePaid, P!Status, P!tables
      <3> QED
        BY <1>3, <1>5, <2>1, <3>1
    <2> QED
      BY <2>2, <2>3
  <1>11. ASSUME NEW s \in Subs, P!Cancel(s)
         PROVE  PayCustomers'
    <2>1. stripe[s].price \in P!Prices
      BY <1>1, <1>11 DEF P!Cancel
    <2> QED
      BY <1>8, <1>11, <2>1
  <1> QED
    BY <1>6, <1>7, <1>8, <1>9, <1>10, <1>11 DEF P!Next

\* The excuse of a plan stays: no subscription with a customer changes its user or
\* its customer.
LEMMA ExcuseStays ==
    ASSUME PayTypes, PayCustomers, P!Next, NEW s \in Subs, Excused(s), stripe'[s].user = stripe[s].user
    PROVE  Excused(s)'
  <1>1. PICK t \in Subs : stripe[t].user = stripe[s].user /\ stripe[t].cust \in gone
    BY DEF Excused
  <1>2. stripe[t].cust \in Subs /\ stripe[t].state # "unused"
    BY <1>1, PaymentConstants DEF PayTypes, PayCustomers
  <1>3. stripe[t].cust # P!NoCustomer
    BY <1>2, PaymentConstants
  <1>4. ASSUME NEW u \in Users, NEW r \in Subs, NEW p \in P!Prices, P!Checkout(u, r, p)
        PROVE  stripe'[t] = stripe[t] /\ gone' = gone
    BY <1>2, <1>4 DEF P!Checkout, PayTypes
  <1>5. ASSUME NEW r \in Subs, P!Complete(r)
        PROVE  stripe'[t].user = stripe[t].user /\ stripe'[t].cust = stripe[t].cust /\ gone' = gone
    BY <1>3, <1>5 DEF P!Complete, PayTypes, Deal
  <1>6. ASSUME NEW r \in Subs, NEW p \in P!Prices, P!Cancel(r) \/ P!ChangePlan(r, p)
        PROVE  stripe'[t].user = stripe[t].user /\ stripe'[t].cust = stripe[t].cust /\ gone' = gone
    BY <1>6 DEF P!Cancel, P!ChangePlan, PayTypes, Deal
  <1>7. ASSUME NEW r \in Subs, P!DeleteCustomer(r)
        PROVE  stripe' = stripe /\ gone \subseteq gone'
    BY <1>7 DEF P!DeleteCustomer
  <1>8. ASSUME NEW e \in pending, P!Handle(e)
        PROVE  stripe' = stripe /\ gone' = gone
    BY <1>8 DEF P!Handle, P!ReadCustomer, P!WriteCustomer, P!CustomerDeleted, P!SubscriptionCreated,
                P!SubscriptionUpdated, P!SubscriptionDeleted, P!InvoicePaid, P!Status, P!Answered
  <1>9. ASSUME NEW r \in Subs, P!Cancel(r)
        PROVE  stripe'[t].user = stripe[t].user /\ stripe'[t].cust = stripe[t].cust /\ gone' = gone
    BY <1>9 DEF P!Cancel, PayTypes, Deal
  <1>10. stripe'[t].user = stripe[t].user /\ stripe'[t].cust = stripe[t].cust /\ gone \subseteq gone'
    BY <1>4, <1>5, <1>6, <1>7, <1>8, <1>9 DEF P!Next
  <1> QED
    BY <1>1, <1>10 DEF Excused

\* The subscriptions a step at Stripe does not touch.
LEMMA OthersFit ==
    ASSUME PayTypes, PayCustomers, PlansFit, P!Next, NEW s \in Subs, UNCHANGED <<rows, app, overtaken>>,
           \A t \in Subs \ {s} : stripe'[t] = stripe[t] /\ Own(t)' = Own(t), Fits(s)'
    PROVE  PlansFit'
  <1>1. ASSUME NEW t \in Subs, t # s
        PROVE  Fits(t)'
    BY <1>1, ExcuseStays, PlanStays DEF PlansFit
  <1> QED
    BY <1>1 DEF PlansFit

\* The subscription itself: one more event of it.
LEMMA SentFits ==
    ASSUME PayTypes, PayCustomers, NEW s \in Subs, NEW events, pending' = pending \cup events,
           \A e \in events : e.sub = s
    PROVE  /\ Own(s)' = Own(s) \cup {e \in events : e.kind \notin P!CustomerKinds}
           /\ \A t \in Subs \ {s} : Own(t)' = Own(t)
           /\ Own(s) \subseteq pending /\ \A e \in Own(s) : e.at < sent + 1
           /\ sent \in Nat
  <1>1. \A e \in pending : e.at \in Nat /\ sent \in Nat /\ e.at <= sent
    BY DEF PayTypes, P!Events
  <1> QED
    BY <1>1 DEF Own, PayTypes

\* Every step keeps what the rows of a subscription and its events are to each other.
LEMMA PlansFitStep ==
    ASSUME PayTypes, PayCustomers, PlansFit, P!Next
    PROVE  PlansFit'
  <1> USE PaymentConstants
  <1>1. ASSUME NEW s \in Subs
        PROVE  \E over \in BOOLEAN, excused \in BOOLEAN, now \in BOOLEAN :
                 /\ over <=> s \in overtaken
                 /\ excused <=> Excused(s)
                 /\ now <=> Excused(s)'
                 /\ PlanFits(stripe[s], Own(s), rows[s], app[s], over, excused)
    <2>1. PICK over \in BOOLEAN, excused \in BOOLEAN, now \in BOOLEAN :
                 /\ over <=> s \in overtaken
                 /\ excused <=> Excused(s)
                 /\ now <=> Excused(s)'
      OBVIOUS
    <2>2. PlanFits(stripe[s], Own(s), rows[s], app[s], over, excused)
      BY <2>1, FitsBy DEF PlansFit
    <2> QED
      BY <2>1, <2>2
  <1>2. ASSUME NEW u \in Users, NEW s \in Subs, NEW p \in P!Prices, P!Checkout(u, s, p)
        PROVE  PlansFit'
    <2>1. PICK over \in BOOLEAN, excused \in BOOLEAN, now \in BOOLEAN :
            /\ over <=> s \in overtaken
            /\ excused <=> Excused(s)
            /\ now <=> Excused(s)'
            /\ PlanFits(stripe[s], Own(s), rows[s], app[s], over, excused)
      BY <1>1
    <2>2. /\ stripe[s].state = "unused" /\ stripe'[s].state = "session"
          /\ \A t \in Subs \ {s} : stripe'[t] = stripe[t]
          /\ UNCHANGED <<pending, rows, app, overtaken>>
      BY <1>2 DEF P!Checkout, P!tables, PayTypes
    <2>3. \A t \in Subs : Own(t)' = Own(t)
      BY <2>2 DEF Own
    <2>4. PlanFits(stripe'[s], Own(s), rows[s], app[s], over, now)
      BY <2>1, <2>2, CheckoutFits
    <2>5. Fits(s)'
      BY <2>1, <2>2, <2>3, <2>4, FitsByThen
    <2> QED
      BY <2>2, <2>3, <2>5, OthersFit
  <1>3. ASSUME NEW s \in Subs, P!Complete(s)
        PROVE  PlansFit'
    <2>1. PICK over \in BOOLEAN, excused \in BOOLEAN, now \in BOOLEAN :
            /\ over <=> s \in overtaken
            /\ excused <=> Excused(s)
            /\ now <=> Excused(s)'
            /\ PlanFits(stripe[s], Own(s), rows[s], app[s], over, excused)
      BY <1>1
    <2>2. /\ stripe[s].state = "session" /\ stripe'[s].state = "open"
          /\ stripe'[s].price = stripe[s].price
          /\ \A t \in Subs \ {s} : stripe'[t] = stripe[t]
          /\ UNCHANGED <<rows, app, overtaken>>
      BY <1>3 DEF P!Complete, P!tables, PayTypes, Deal
    <2>3. PICK n, first, second, before : CompleteSent(s, n, first, second, before)
      BY <1>3, CompleteSends
    <2>4. /\ pending' = pending \cup (before \cup {first, second})
          /\ \A e \in before \cup {first, second} : e.sub = s
          /\ \A e \in before : e.kind = "customer.created"
          /\ first.kind = "created" /\ second.kind = "paid"
      BY <2>3 DEF CompleteSent, P!Send
    <2>5. /\ Own(s)' = Own(s) \cup {e \in before \cup {first, second} : e.kind \notin P!CustomerKinds}
          /\ \A t \in Subs \ {s} : Own(t)' = Own(t)
          /\ sent \in Nat
      BY <2>4, SentFits
    <2>6. {e \in before \cup {first, second} : e.kind \notin P!CustomerKinds} = {first, second}
      BY <2>4
    <2>7. PICK m \in Nat : m = n + 1
      BY <2>3, <2>5 DEF CompleteSent
    <2>8. PICK p \in P!Prices : p = stripe[s].price
      BY <2>3 DEF CompleteSent
    <2>9. /\ first = [kind |-> "created", sub |-> s, price |-> p, at |-> m]
          /\ second = [kind |-> "paid", sub |-> s, price |-> p, at |-> m + 1]
      BY <2>3, <2>5, <2>7, <2>8 DEF CompleteSent
    <2>10. PlanFits(stripe'[s], Own(s) \cup {first, second}, rows[s], app[s], over, now)
      BY <2>1, <2>2, <2>8, <2>9, CompletedFits
    <2>11. Fits(s)'
      BY <2>1, <2>2, <2>5, <2>6, <2>10, FitsByThen
    <2> QED
      BY <2>2, <2>5, <2>11, OthersFit
  <1>4. ASSUME NEW s \in Subs, P!Cancel(s)
        PROVE  PlansFit'
    <2>1. PICK over \in BOOLEAN, excused \in BOOLEAN, now \in BOOLEAN :
            /\ over <=> s \in overtaken
            /\ excused <=> Excused(s)
            /\ now <=> Excused(s)'
            /\ PlanFits(stripe[s], Own(s), rows[s], app[s], over, excused)
      BY <1>1
    <2>2. /\ stripe[s].state = "open" /\ stripe'[s].state = "ended"
          /\ stripe'[s].price = stripe[s].price /\ stripe'[s].user = stripe[s].user
          /\ \A t \in Subs \ {s} : stripe'[t] = stripe[t]
          /\ UNCHANGED <<gone, rows, app, overtaken>>
      BY <1>4 DEF P!Cancel, P!tables, PayTypes, Deal
    <2>3. PICK p \in P!Prices : p = stripe[s].price
      BY <2>2 DEF PayCustomers
    <2>4. PICK n \in Nat : n = sent + 1
      BY DEF PayTypes
    <2>5. PICK e : e = P!Event("deleted", s, stripe[s].price, sent + 1)
      OBVIOUS
    <2>6. e = [kind |-> "deleted", sub |-> s, price |-> p, at |-> n] /\ e.kind = "deleted" /\ e.sub = s
      BY <2>3, <2>4, <2>5 DEF P!Event
    <2>7. pending' = pending \cup {e}
      BY <1>4, <2>5 DEF P!Cancel, P!Send
    <2>8. /\ Own(s)' = Own(s) \cup {e} /\ \A t \in Subs \ {s} : Own(t)' = Own(t)
          /\ \A f \in Own(s) : f.at < n
      <3>1. PICK events : events = {e}
        OBVIOUS
      <3>2. pending' = pending \cup events /\ \A f \in events : f.sub = s
        BY <2>6, <2>7, <3>1
      <3>3. /\ Own(s)' = Own(s) \cup {f \in events : f.kind \notin P!CustomerKinds}
            /\ \A t \in Subs \ {s} : Own(t)' = Own(t)
            /\ \A f \in Own(s) : f.at < sent + 1
        BY <3>2, SentFits
      <3>4. {f \in events : f.kind \notin P!CustomerKinds} = {e}
        BY <2>6, <3>1
      <3> QED
        BY <2>4, <3>3, <3>4
    <2>9. PlanFits(stripe'[s], Own(s) \cup {e}, rows[s], app[s], over, excused)
      BY ONLY <2>1, <2>2, <2>3, <2>4, <2>6, <2>8, CancelledFits
    <2>10. now <=> excused
      <3>1. \A t \in Subs : stripe'[t].user = stripe[t].user /\ stripe'[t].cust = stripe[t].cust
        BY <1>4 DEF P!Cancel, PayTypes, Deal
      <3> QED
        BY <2>1, <2>2, <3>1 DEF Excused
    <2>11. Fits(s)'
      BY <2>1, <2>2, <2>8, <2>9, <2>10, FitsByThen
    <2> QED
      BY <2>2, <2>8, <2>11, OthersFit
  <1>5. ASSUME NEW s \in Subs, NEW p \in P!Prices, P!ChangePlan(s, p)
        PROVE  PlansFit'
    <2>1. PICK over \in BOOLEAN, excused \in BOOLEAN, now \in BOOLEAN :
            /\ over <=> s \in overtaken
            /\ excused <=> Excused(s)
            /\ now <=> Excused(s)'
            /\ PlanFits(stripe[s], Own(s), rows[s], app[s], over, excused)
      BY <1>1
    <2>2. /\ stripe[s].state = "open" /\ stripe'[s].state = "open"
          /\ stripe'[s].price = p /\ stripe'[s].user = stripe[s].user
          /\ \A t \in Subs \ {s} : stripe'[t] = stripe[t]
          /\ UNCHANGED <<gone, rows, app, overtaken>>
      BY <1>5 DEF P!ChangePlan, P!tables, PayTypes, Deal
    <2>3. PICK n \in Nat : n = sent + 1
      BY DEF PayTypes
    <2>4. PICK e : e = P!Event("updated", s, p, sent + 1)
      OBVIOUS
    <2>5. e = [kind |-> "updated", sub |-> s, price |-> p, at |-> n] /\ e.kind = "updated" /\ e.sub = s
      BY <2>3, <2>4 DEF P!Event
    <2>6. pending' = pending \cup {e}
      BY <1>5, <2>4 DEF P!ChangePlan, P!Send
    <2>7. /\ Own(s)' = Own(s) \cup {e} /\ \A t \in Subs \ {s} : Own(t)' = Own(t)
          /\ \A f \in Own(s) : f.at < n
      <3>1. PICK events : events = {e}
        OBVIOUS
      <3>2. pending' = pending \cup events /\ \A f \in events : f.sub = s
        BY <2>5, <2>6, <3>1
      <3>3. /\ Own(s)' = Own(s) \cup {f \in events : f.kind \notin P!CustomerKinds}
            /\ \A t \in Subs \ {s} : Own(t)' = Own(t)
            /\ \A f \in Own(s) : f.at < sent + 1
        BY <3>2, SentFits
      <3>4. {f \in events : f.kind \notin P!CustomerKinds} = {e}
        BY <2>5, <3>1
      <3> QED
        BY <2>3, <3>3, <3>4
    <2>8. PlanFits(stripe'[s], Own(s) \cup {e}, rows[s], app[s], over, excused)
      BY ONLY <2>1, <2>2, <2>3, <2>5, <2>7, ChangedFits
    <2>9. now <=> excused
      <3>1. \A t \in Subs : stripe'[t].user = stripe[t].user /\ stripe'[t].cust = stripe[t].cust
        BY <1>5 DEF P!ChangePlan, PayTypes, Deal
      <3> QED
        BY <2>1, <2>2, <3>1 DEF Excused
    <2>10. Fits(s)'
      BY <2>1, <2>2, <2>7, <2>8, <2>9, FitsByThen
    <2> QED
      BY <2>2, <2>7, <2>10, OthersFit
  <1>6. ASSUME NEW c \in Subs, P!DeleteCustomer(c)
        PROVE  PlansFit'
    <2>1. PICK e : e = P!Event("customer.deleted", c, stripe[c].price, sent + 1)
      OBVIOUS
    <2>2. e.kind = "customer.deleted" /\ e.sub = c
      BY <2>1 DEF P!Event
    <2>3. pending' = pending \cup {e} /\ UNCHANGED <<stripe, rows, app, overtaken>>
      BY <1>6, <2>1 DEF P!DeleteCustomer, P!Send, P!tables
    <2>4. \A t \in Subs : Own(t)' = Own(t)
      BY <2>2, <2>3 DEF Own
    <2>5. \A t \in Subs : Excused(t) => Excused(t)'
      BY <2>3, ExcuseStays
    <2> QED
      BY <2>3, <2>4, <2>5, PlanStays DEF PlansFit
  <1>7. ASSUME NEW e \in pending, P!ReadCustomer(e) \/ P!WriteCustomer(e)
        PROVE  PlansFit'
    <2>1. e.kind \in P!CustomerKinds /\ UNCHANGED <<stripe, gone, rows, app>>
      BY <1>7 DEF P!ReadCustomer, P!WriteCustomer, P!tables, P!Answered
    <2>2. P!Answered(e) \/ UNCHANGED <<pending, overtaken>>
      BY <1>7 DEF P!ReadCustomer, P!WriteCustomer
    <2>3. \A t \in Subs : /\ Own(t)' = Own(t)
                          /\ t \in overtaken => t \in overtaken'
                          /\ t \in overtaken' => t \in overtaken \/ Own(t) # {}
      <3>1. CASE P!Answered(e)
        <4>1. e.sub \in overtaken' <=> e.sub \in overtaken \/ \E f \in Own(e.sub) : f.at < e.at
          BY <3>1, AnsweredIs
        <4>2. Own(e.sub)' = Own(e.sub)
          BY <2>1, <3>1, AnsweredIs
        <4>3. \A t \in Subs : t # e.sub => Own(t)' = Own(t) /\ (t \in overtaken' <=> t \in overtaken)
          BY <3>1, AnsweredIs
        <4> QED
          BY <4>1, <4>2, <4>3
      <3>2. CASE UNCHANGED <<pending, overtaken>>
        BY <3>2 DEF Own
      <3> QED
        BY <2>2, <3>1, <3>2
    <2>4. \A t \in Subs : Excused(t) => Excused(t)'
      BY <2>1 DEF Excused
    <2> QED
      BY <2>1, <2>3, <2>4, PlanStays DEF PlansFit
  <1>8. ASSUME NEW e \in pending, P!CustomerDeleted(e)
        PROVE  PlansFit'
    <2>1. /\ e.kind = "customer.deleted"
          /\ app' = [s \in Subs |-> IF stripe[s].user \in P!Owner(e.sub) /\ app[s].there
                                    THEN [app[s] EXCEPT !.active = FALSE] ELSE app[s]]
          /\ UNCHANGED <<stripe, gone, pending, rows, overtaken>>
      BY <1>8 DEF P!CustomerDeleted
    <2>2. e.sub \in Subs /\ e.sub \in gone
      BY <2>1 DEF PayTypes, P!Events, PayCustomers
    <2>3. \A t \in Subs : Own(t)' = Own(t) /\ (Excused(t)' <=> Excused(t))
      BY <2>1 DEF Own, Excused
    <2>4. ASSUME NEW s \in Subs, ~ (stripe[s].user \in P!Owner(e.sub) /\ app[s].there)
          PROVE  Fits(s)'
      <3>1. app'[s] = app[s]
        BY <2>1, <2>4
      <3> QED
        BY <2>1, <2>3, <3>1, PlanStays DEF PlansFit
    <2>5. ASSUME NEW s \in Subs, stripe[s].user \in P!Owner(e.sub), app[s].there
          PROVE  Fits(s)'
      <3>1. app'[s] = [app[s] EXCEPT !.active = FALSE]
        BY <2>1, <2>5
      <3>2. stripe[s].user \in Users /\ customerOf[stripe[s].user] = e.sub
        BY <2>5 DEF P!Owner
      <3>3. Known(e.sub) /\ stripe[e.sub].user = stripe[s].user
        BY <2>2, <3>2 DEF PayCustomers
      <3>4. Excused(s)
        BY <2>2, <3>3 DEF Excused, Known
      <3>5. PICK over \in BOOLEAN, excused \in BOOLEAN, now \in BOOLEAN :
              /\ over <=> s \in overtaken
              /\ excused <=> Excused(s)
              /\ now <=> Excused(s)'
              /\ PlanFits(stripe[s], Own(s), rows[s], app[s], over, excused)
        BY <1>1
      <3>6. PICK mineAfter : mineAfter = [app[s] EXCEPT !.active = FALSE]
        OBVIOUS
      <3>7. PlanFits(stripe[s], Own(s), rows[s], mineAfter, over, TRUE)
        BY <2>5, <3>5, <3>6, DisabledFits
      <3>8. now = TRUE
        BY <2>3, <3>4, <3>5
      <3> QED
        BY <2>1, <2>3, <3>1, <3>5, <3>6, <3>7, <3>8, FitsByThen
    <2> QED
      BY <2>4, <2>5 DEF PlansFit
  <1> QED
    BY <1>2, <1>3, <1>4, <1>5, <1>6, <1>7, <1>8, HandlersFit DEF P!Next, P!Handle

\* What holds of the plans paid by card.
PayInv == PayTypes /\ PayCustomers /\ PlansFit

\* It holds before anyone has paid.
LEMMA PayInvInit ==
    ASSUME P!Init
    PROVE  PayInv
  <1> USE PaymentConstants, NoRows DEF P!Init
  <1>1. PICK u \in Users : u = CHOOSE v \in Users : TRUE
    OBVIOUS
  <1>2. \A s \in Subs : stripe[s] = [user |-> u, price |-> P!NoPrice, cust |-> P!NoCustomer,
                                     state |-> "unused"]
    BY <1>1
  <1>3. PayTypes
    BY <1>2 DEF PayTypes, Deal, AppPrices
  <1>4. PayCustomers
    BY <1>2 DEF PayCustomers
  <1>5. ASSUME NEW s \in Subs
        PROVE  Fits(s)
    <2>1. stripe[s].state = "unused" /\ Own(s) = {} /\ rows[s] = P!NoRow /\ app[s] = P!NoApp
          /\ s \notin overtaken
      BY <1>2 DEF Own
    <2> QED
      BY <2>1 DEF Fits, PlanFits, EventsFit, RowsFit, PriceFits, ActiveFits
  <1> QED
    BY <1>3, <1>4, <1>5 DEF PayInv, PlansFit

\* Every step keeps it.
LEMMA PayInvStep ==
    ASSUME PayInv, [Next]_vars
    PROVE  PayInv'
  <1>1. CASE P!Next
    BY <1>1, PayTypesStep, PayCustomersStep, PlansFitStep DEF PayInv
  <1>2. CASE UNCHANGED ofPayments
    BY <1>2 DEF PayInv, ofPayments, PayTypes, PayCustomers, Known, PlansFit, Fits, Own, Excused
  <1> QED
    BY <1>1, <1>2, PartSteps

\* And it says what the run checks.
LEMMA PayInvImplies ==
    ASSUME PayInv
    PROVE  P!TypeOK /\ P!TablesAgree /\ P!SettledAsAtStripe
  <1> USE PaymentConstants
  <1>1. ASSUME NEW s \in Subs
        PROVE  /\ PlanFits(stripe[s], Own(s), rows[s], app[s], s \in overtaken, Excused(s))
               /\ rows[s] \in PlanRow /\ app[s] \in AppRow
    BY DEF PayInv, PlansFit, Fits, PayTypes
  <1>2. ASSUME NEW s \in Subs, app[s].there
        PROVE  rows[s].there
    <2>1. app[s].there = TRUE /\ rows[s].there \in BOOLEAN
      BY <1>1, <1>2 DEF AppRow, PlanRow
    <2> QED
      BY <1>1, <2>1, NoRows DEF PlanFits, RowsFit
  <1>3. P!TypeOK
    BY <1>2 DEF P!TypeOK, PayInv, PayTypes, Deal, AppPrices
  <1>4. ASSUME NEW s \in Subs, app[s].there, rows[s].price \in MobilePrices, s \notin overtaken,
               \A t \in Subs : stripe[t].user = stripe[s].user => stripe[t].cust \notin gone
        PROVE  app[s].active = rows[s].active /\ app[s].price = rows[s].price
    <2>1. app[s].there = TRUE /\ ~ Excused(s)
      BY <1>1, <1>4 DEF AppRow, Excused
    <2>2. AppFits(stripe[s], Own(s), rows[s], app[s]) /\ RowsFit(stripe[s], Own(s), rows[s], app[s])
      BY <1>1, <1>4, <2>1 DEF PlanFits
    <2> QED
      BY <1>4, <2>1, <2>2 DEF AppFits, RowsFit
  <1>5. ASSUME NEW s \in Subs, stripe[s].state \in {"open", "ended"}, s \notin overtaken,
               \A e \in pending : e.sub # s
        PROVE  /\ rows[s].there /\ rows[s].price = stripe[s].price
               /\ rows[s].active = (stripe[s].state = "open")
    <2>1. Own(s) = {}
      BY <1>5 DEF Own
    <2>2. /\ RowsFit(stripe[s], {}, rows[s], app[s]) /\ PriceFits(stripe[s], {}, rows[s])
          /\ ActiveFits(stripe[s], {}, rows[s])
      BY <1>1, <1>5, <2>1 DEF PlanFits
    <2>3. rows[s].there = TRUE /\ rows[s].price = stripe[s].price
      BY <1>5, <2>2 DEF RowsFit, PriceFits
    <2>4. CASE stripe[s].state = "open"
      BY <2>2, <2>3, <2>4 DEF ActiveFits
    <2>5. CASE stripe[s].state = "ended"
      BY <2>2, <2>3, <2>5 DEF ActiveFits
    <2> QED
      BY <1>5, <2>3, <2>4, <2>5
  <1> QED
    BY <1>3, <1>4, <1>5 DEF P!TablesAgree, P!SettledAsAtStripe

-----------------------------------------------------------------------------
(* Plans of the app stores *)

StoreRow == [user : Users, receipt : Receipts, active : BOOLEAN, remote : BOOLEAN]
Asking == {R!Idle} \cup [stage : {"counted"}, user : Users, receipt : Receipts]
            \cup [stage : {"verified"}, user : Users, receipt : Receipts, valid : BOOLEAN]
Verdicts == {"valid", "invalid", "expired", "error"}

ReceiptTypes ==
  /\ store \in [Receipts -> {"paid", "ended", "purged"}] /\ appRows \in Seq(StoreRow)
  /\ \A i, j \in DOMAIN appRows : appRows[i].receipt = appRows[j].receipt => i = j
  /\ requests \in [Requests -> Asking] /\ loop \in {"asleep", "checking", "ended"}
  /\ due \subseteq DOMAIN appRows /\ errors \in 0 .. MaxErrors /\ changes \in 0 .. MaxChanges
  /\ answer \in {R!NoAnswer} \cup [id : DOMAIN appRows, says : Verdicts]

\* Requests of a user that have counted.
Flying(u) == {q \in Requests : requests[q] # R!Idle /\ requests[q].user = u}
Registered(u) == Flying(u) # {} \/ \E i \in R!RowsOf(u) : appRows[i].receipt \notin Manual
RowsLeaveRoom ==
  \A u \in Users : Registered(u) =>
    Cardinality(R!RowsOf(u)) + Cardinality(Flying(u)) <= AppLimit + Cardinality(Requests) - 1
ReceiptInv == ReceiptTypes /\ RowsLeaveRoom

\* The sets counted are finite.
LEMMA ReceiptConstants ==
    /\ Manual \subseteq Receipts /\ IsFiniteSet(Manual) /\ IsFiniteSet(Requests)
    /\ Cardinality(Manual) \in Nat /\ Cardinality(Requests) \in Nat
    /\ AppLimit \in Nat /\ MaxErrors \in Nat /\ MaxChanges \in Nat
    /\ \A S : R!Cardinality(S) = Cardinality(S)
  <1>1. \A S : R!Cardinality(S) = Cardinality(S)
    BY DEF R!Cardinality, Cardinality
  <1>2. Manual \subseteq Receipts /\ IsFiniteSet(Manual) /\ IsFiniteSet(Requests)
        /\ AppLimit \in Nat /\ MaxErrors \in Nat /\ MaxChanges \in Nat
    BY UsersAssumption DEF R!StoreReceiptsAssumption, R!IsFiniteSet, IsFiniteSet
  <1> QED
    BY <1>1, <1>2, FS_CardinalityType

\* What is counted of a user.
LEMMA CountsAreFinite ==
    ASSUME ReceiptTypes, NEW u \in Users
    PROVE  /\ IsFiniteSet(R!RowsOf(u)) /\ Cardinality(R!RowsOf(u)) \in Nat
           /\ IsFiniteSet(Flying(u)) /\ Cardinality(Flying(u)) \in Nat
           /\ Cardinality(Flying(u)) <= Cardinality(Requests)
  <1>1. Len(appRows) \in Nat /\ R!RowsOf(u) \subseteq 1 .. Len(appRows)
    BY DEF R!RowsOf, ReceiptTypes
  <1>2. IsFiniteSet(1 .. Len(appRows))
    BY <1>1, FS_Interval
  <1>3. IsFiniteSet(R!RowsOf(u))
    BY <1>1, <1>2, FS_Subset
  <1>4. Flying(u) \subseteq Requests
    BY DEF Flying
  <1>5. IsFiniteSet(Flying(u)) /\ Cardinality(Flying(u)) <= Cardinality(Requests)
    BY <1>4, FS_Subset, ReceiptConstants
  <1> QED
    BY <1>3, <1>5, FS_CardinalityType

\* A step that leaves the rows' users and receipts, and what the requests count.
LEMMA RoomStays ==
    ASSUME RowsLeaveRoom, \A u \in Users : R!RowsOf(u)' = R!RowsOf(u) /\ Flying(u)' = Flying(u),
           \A u \in Users : \A i \in R!RowsOf(u) : appRows'[i].receipt = appRows[i].receipt
    PROVE  RowsLeaveRoom'
  <1>1. \A u \in Users : Registered(u)' => Registered(u)
    BY DEF Registered
  <1> QED
    BY <1>1 DEF RowsLeaveRoom

\* A request counts the rows of its user.
LEMMA CountStep ==
    ASSUME ReceiptInv, NEW q \in Requests, NEW v \in Users, NEW r \in Receipts, R!Count(q, v, r)
    PROVE  ReceiptInv'
  <1>1. /\ requests[q] = R!Idle /\ Cardinality(R!RowsOf(v)) < AppLimit
        /\ requests' = [requests EXCEPT ![q] = [stage |-> "counted", user |-> v, receipt |-> r]]
        /\ UNCHANGED <<store, appRows, loop, due, answer, errors, changes>>
    BY ReceiptConstants DEF R!Count
  <1>2. PICK now : now = [stage |-> "counted", user |-> v, receipt |-> r]
    OBVIOUS
  <1>3. now \in Asking /\ now # R!Idle /\ now.user = v
    BY <1>2 DEF Asking, R!Idle
  <1>4. /\ requests'[q] = now /\ \A p \in Requests \ {q} : requests'[p] = requests[p]
        /\ requests' \in [Requests -> Asking]
    BY <1>1, <1>2, <1>3 DEF ReceiptInv, ReceiptTypes
  <1>5. ReceiptTypes'
    BY <1>1, <1>4 DEF ReceiptInv, ReceiptTypes
  <1>6. \A u \in Users : R!RowsOf(u)' = R!RowsOf(u)
    BY <1>1 DEF R!RowsOf
  <1>7. ASSUME NEW u \in Users, u # v
        PROVE  Flying(u)' = Flying(u)
    BY <1>1, <1>3, <1>4, <1>7 DEF Flying
  <1>8. Cardinality(Flying(v)') <= Cardinality(Requests) /\ Cardinality(Flying(v)') \in Nat
    <2>1. Flying(v)' \subseteq Requests
      BY DEF Flying
    <2> QED
      BY <2>1, FS_Subset, FS_CardinalityType, ReceiptConstants
  <1>9. Cardinality(R!RowsOf(v)) + Cardinality(Flying(v)') <= AppLimit + Cardinality(Requests) - 1
    BY <1>1, <1>8, CountsAreFinite, ReceiptConstants DEF ReceiptInv
  <1>10. \A u \in Users : u # v => (Registered(u)' => Registered(u))
    BY <1>1, <1>6, <1>7 DEF Registered
  <1> QED
    BY <1>5, <1>6, <1>7, <1>9, <1>10 DEF ReceiptInv, RowsLeaveRoom

\* A request asks the store.
LEMMA VerifyStep ==
    ASSUME ReceiptInv, NEW q \in Requests, R!Verify(q)
    PROVE  ReceiptInv'
  <1>1. PICK now, before : before = requests[q] /\ requests' = [requests EXCEPT ![q] = now]
          /\ \E valid \in BOOLEAN :
               now = [stage |-> "verified", user |-> before.user, receipt |-> before.receipt, valid |-> valid]
    BY DEF R!Verify
  <1>2. /\ before \in Asking /\ before.stage = "counted"
        /\ UNCHANGED <<store, appRows, loop, due, answer, changes>>
    BY <1>1 DEF R!Verify, ReceiptInv, ReceiptTypes
  <1>3. before.user \in Users /\ before.receipt \in Receipts /\ before # R!Idle
    BY <1>2 DEF Asking, R!Idle
  <1>4. now \in Asking /\ now # R!Idle /\ now.user = before.user
    BY <1>1, <1>3 DEF Asking, R!Idle
  <1>5. /\ requests'[q] = now /\ \A p \in Requests \ {q} : requests'[p] = requests[p]
        /\ requests' \in [Requests -> Asking]
    BY <1>1, <1>4 DEF ReceiptInv, ReceiptTypes
  <1>6. errors' \in 0 .. MaxErrors
    BY ReceiptConstants DEF R!Verify, R!Ask, R!Error, ReceiptInv, ReceiptTypes
  <1>7. ReceiptTypes'
    BY <1>2, <1>5, <1>6 DEF ReceiptInv, ReceiptTypes
  <1>8. \A u \in Users : Flying(u)' = Flying(u)
    BY <1>1, <1>3, <1>4, <1>5 DEF Flying
  <1>9. \A u \in Users : R!RowsOf(u)' = R!RowsOf(u)
    BY <1>2 DEF R!RowsOf
  <1> QED
    BY <1>2, <1>7, <1>8, <1>9, RoomStays DEF ReceiptInv

\* A request inserts its row, unless the receipt has one.
LEMMA InsertStep ==
    ASSUME ReceiptInv, NEW q \in Requests, R!Insert(q)
    PROVE  ReceiptInv'
  <1>1. PICK before : before = requests[q]
    OBVIOUS
  <1>2. /\ before \in Asking /\ before.stage = "verified"
        /\ requests' = [requests EXCEPT ![q] = R!Idle]
        /\ UNCHANGED <<store, loop, due, answer, errors, changes>>
    BY <1>1 DEF R!Insert, ReceiptInv, ReceiptTypes
  <1>3. /\ before.user \in Users /\ before.receipt \in Receipts /\ before.valid \in BOOLEAN
        /\ before # R!Idle
    BY <1>2 DEF Asking, R!Idle
  <1>4. PICK v \in Users : v = before.user
    BY <1>3
  <1>5. /\ requests'[q] = R!Idle /\ \A p \in Requests \ {q} : requests'[p] = requests[p]
        /\ requests' \in [Requests -> Asking]
    BY <1>2 DEF ReceiptInv, ReceiptTypes, Asking
  <1>6. q \in Flying(v) /\ Flying(v)' = Flying(v) \ {q} /\ \A u \in Users \ {v} : Flying(u)' = Flying(u)
    BY <1>1, <1>3, <1>4, <1>5 DEF Flying
  <1>7. Cardinality(Flying(v)') = Cardinality(Flying(v)) - 1
    BY <1>6, CountsAreFinite, FS_RemoveElement DEF ReceiptInv
  <1>8. \A u \in Users : /\ Cardinality(R!RowsOf(u)) \in Nat /\ Cardinality(Flying(u)) \in Nat
    BY CountsAreFinite DEF ReceiptInv
  <1>9. CASE appRows' = appRows
    <2>1. ReceiptTypes'
      BY <1>2, <1>5, <1>9 DEF ReceiptInv, ReceiptTypes
    <2>2. \A u \in Users : R!RowsOf(u)' = R!RowsOf(u)
      BY <1>9 DEF R!RowsOf
    <2>3. \A u \in Users : Registered(u)' => Registered(u)
      BY <1>6, <1>9, <2>2 DEF Registered
    <2>4. ASSUME NEW u \in Users, Registered(u)'
          PROVE  (Cardinality(R!RowsOf(u)) + Cardinality(Flying(u)) <= AppLimit + Cardinality(Requests) - 1)'
      <3>1. Cardinality(R!RowsOf(u)) + Cardinality(Flying(u)) <= AppLimit + Cardinality(Requests) - 1
        BY <2>3, <2>4 DEF ReceiptInv, RowsLeaveRoom
      <3>2. CASE u = v
        BY <1>7, <1>8, <2>2, <3>1, <3>2, ReceiptConstants
      <3>3. CASE u # v
        BY <1>6, <2>2, <3>1, <3>3
      <3> QED
        BY <3>2, <3>3
    <2> QED
      BY <2>1, <2>4 DEF ReceiptInv, RowsLeaveRoom
  <1>10. ASSUME ~ \E i \in DOMAIN appRows : appRows[i].receipt = before.receipt,
                NEW row, row = [user |-> before.user, receipt |-> before.receipt,
                                active |-> before.valid, remote |-> before.valid],
                appRows' = Append(appRows, row)
         PROVE  ReceiptInv'
    <2>1. row \in StoreRow /\ row.user = v /\ row.receipt = before.receipt
      BY <1>3, <1>4, <1>10 DEF StoreRow
    <2>2. PICK n \in Nat : n = Len(appRows) + 1
      BY DEF ReceiptInv, ReceiptTypes
    <2>3. /\ appRows' \in Seq(StoreRow) /\ DOMAIN appRows' = DOMAIN appRows \cup {n}
          /\ appRows'[n] = row /\ n \notin DOMAIN appRows
          /\ \A i \in DOMAIN appRows : appRows'[i] = appRows[i]
      BY <1>10, <2>1, <2>2 DEF ReceiptInv, ReceiptTypes
    <2>4. \A i, j \in DOMAIN appRows' : appRows'[i].receipt = appRows'[j].receipt => i = j
      BY <1>10, <2>1, <2>3 DEF ReceiptInv, ReceiptTypes
    <2>5. answer' \in {R!NoAnswer} \cup [id : DOMAIN appRows', says : Verdicts]
      BY <1>2, <2>3 DEF ReceiptInv, ReceiptTypes
    <2>6. ReceiptTypes'
      BY <1>2, <1>5, <2>3, <2>4, <2>5 DEF ReceiptInv, ReceiptTypes
    <2>7. /\ R!RowsOf(v)' = R!RowsOf(v) \cup {n} /\ n \notin R!RowsOf(v)
          /\ \A u \in Users \ {v} : R!RowsOf(u)' = R!RowsOf(u)
      BY <2>1, <2>3 DEF R!RowsOf
    <2>8. Cardinality(R!RowsOf(v)') = Cardinality(R!RowsOf(v)) + 1
      BY <2>7, CountsAreFinite, FS_AddElement DEF ReceiptInv
    <2>9. Registered(v) /\ \A u \in Users \ {v} : Registered(u)' => Registered(u)
      BY <1>6, <2>3, <2>7 DEF Registered, R!RowsOf
    <2>10. ASSUME NEW u \in Users, Registered(u)'
           PROVE  (Cardinality(R!RowsOf(u)) + Cardinality(Flying(u)) <= AppLimit + Cardinality(Requests) - 1)'
      <3>1. Cardinality(R!RowsOf(u)) + Cardinality(Flying(u)) <= AppLimit + Cardinality(Requests) - 1
        BY <2>9, <2>10 DEF ReceiptInv, RowsLeaveRoom
      <3>2. CASE u = v
        BY <1>7, <1>8, <2>8, <3>1, <3>2, ReceiptConstants
      <3>3. CASE u # v
        BY <1>6, <2>7, <3>1, <3>3
      <3> QED
        BY <3>2, <3>3
    <2> QED
      BY <2>6, <2>10 DEF ReceiptInv, RowsLeaveRoom
  <1> QED
    BY <1>1, <1>9, <1>10 DEF R!Insert

\* What the loop, or a store, does leaves users, receipts and requests alone.
LEMMA LoopKeeps ==
    ASSUME ReceiptInv, requests' = requests, appRows' \in Seq(StoreRow), DOMAIN appRows' = DOMAIN appRows,
           \A i \in DOMAIN appRows : /\ appRows'[i].user = appRows[i].user
                                     /\ appRows'[i].receipt = appRows[i].receipt,
           store' \in [Receipts -> {"paid", "ended", "purged"}], due' \subseteq DOMAIN appRows,
           loop' \in {"asleep", "checking", "ended"}, errors' \in 0 .. MaxErrors,
           changes' \in 0 .. MaxChanges,
           answer' \in {R!NoAnswer} \cup [id : DOMAIN appRows, says : Verdicts]
    PROVE  ReceiptInv'
  <1>1. \A i, j \in DOMAIN appRows' : appRows'[i].receipt = appRows'[j].receipt => i = j
    BY DEF ReceiptInv, ReceiptTypes
  <1>2. ReceiptTypes'
    BY <1>1 DEF ReceiptInv, ReceiptTypes
  <1>3. \A u \in Users : R!RowsOf(u)' = R!RowsOf(u) /\ Flying(u)' = Flying(u)
    BY DEF R!RowsOf, Flying
  <1>4. \A u \in Users : \A i \in R!RowsOf(u) : appRows'[i].receipt = appRows[i].receipt
    BY DEF R!RowsOf
  <1> QED
    BY <1>2, <1>3, <1>4, RoomStays DEF ReceiptInv

\* A store changes its mind.
LEMMA ChangeStep ==
    ASSUME ReceiptInv, NEW r \in Receipts, R!Change(r)
    PROVE  ReceiptInv'
  <1>1. UNCHANGED <<appRows, requests, loop, due, answer, errors>>
    BY DEF R!Change
  <1>2. store' \in [Receipts -> {"paid", "ended", "purged"}]
    BY DEF R!Change, ReceiptInv, ReceiptTypes
  <1>3. changes' \in 0 .. MaxChanges
    BY ReceiptConstants DEF R!Change, ReceiptInv, ReceiptTypes
  <1> QED
    BY <1>1, <1>2, <1>3, LoopKeeps DEF ReceiptInv, ReceiptTypes

\* A step of the loop.
LEMMA LoopStep ==
    ASSUME ReceiptInv, R!Round
    PROVE  ReceiptInv'
  <1>1. \A said : /\ R!Error => errors' \in 0 .. MaxErrors
                  /\ \A r : R!Ask(r, said) => errors' \in 0 .. MaxErrors /\ said \in Verdicts
    <2>1. R!Error => errors' \in 0 .. MaxErrors
      BY ReceiptConstants DEF R!Error, ReceiptInv, ReceiptTypes
    <2>2. \A r : R!Says(r) \subseteq Verdicts
      BY DEF R!Says, Verdicts
    <2>3. errors \in 0 .. MaxErrors
      BY DEF ReceiptInv, ReceiptTypes
    <2> QED
      BY <2>1, <2>2, <2>3 DEF R!Ask, Verdicts
  <1>2. CASE R!StartRound
    <2>1. UNCHANGED <<store, appRows, requests, answer, changes>> /\ loop' \in {"asleep", "checking", "ended"}
      BY <1>2 DEF R!StartRound
    <2>2. due' \subseteq DOMAIN appRows /\ errors' \in 0 .. MaxErrors
      BY <1>1, <1>2 DEF R!StartRound, ReceiptInv, ReceiptTypes
    <2> QED
      BY <2>1, <2>2, LoopKeeps DEF ReceiptInv, ReceiptTypes
  <1>3. ASSUME NEW i \in due, R!AskStore(i)
        PROVE  ReceiptInv'
    <2>1. UNCHANGED <<store, appRows, requests, loop, changes>> /\ due' \subseteq DOMAIN appRows
      BY <1>3 DEF R!AskStore, ReceiptInv, ReceiptTypes
    <2>2. CASE UNCHANGED <<answer, errors>>
      BY <2>1, <2>2, LoopKeeps DEF ReceiptInv, ReceiptTypes
    <2>3. ASSUME NEW said, R!Ask(appRows[i].receipt, said), answer' = [id |-> i, says |-> said]
          PROVE  ReceiptInv'
      <3>1. i \in DOMAIN appRows /\ said \in Verdicts /\ errors' \in 0 .. MaxErrors
        BY <1>1, <2>3 DEF ReceiptInv, ReceiptTypes
      <3>2. answer' \in {R!NoAnswer} \cup [id : DOMAIN appRows, says : Verdicts]
        BY <2>3, <3>1
      <3> QED
        BY <2>1, <3>1, <3>2, LoopKeeps DEF ReceiptInv, ReceiptTypes
    <2> QED
      BY <1>3, <2>2, <2>3 DEF R!AskStore
  <1>4. CASE R!WriteAnswer
    <2>1. /\ answer \in [id : DOMAIN appRows, says : Verdicts] /\ answer' = R!NoAnswer
          /\ UNCHANGED <<store, requests, loop, due, errors, changes>>
      BY <1>4 DEF R!WriteAnswer, ReceiptInv, ReceiptTypes
    <2>2. PICK i \in DOMAIN appRows, good \in BOOLEAN : i = answer.id /\ good = (answer.says = "valid")
      BY <2>1
    <2>3. \/ appRows' = appRows
          \/ appRows' = [appRows EXCEPT ![i].remote = FALSE]
          \/ appRows' = [appRows EXCEPT ![i].active = good]
      BY <1>4, <2>1, <2>2 DEF R!WriteAnswer
    <2>4. appRows \in Seq(StoreRow)
      BY DEF ReceiptInv, ReceiptTypes
    <2>5. /\ appRows' \in Seq(StoreRow) /\ DOMAIN appRows' = DOMAIN appRows
          /\ \A j \in DOMAIN appRows : /\ appRows'[j].user = appRows[j].user
                                       /\ appRows'[j].receipt = appRows[j].receipt
      <3>1. \A j \in DOMAIN appRows : appRows[j] \in StoreRow
        BY <2>4
      <3>2. CASE appRows' = appRows
        BY <2>4, <3>2
      <3>3. CASE appRows' = [appRows EXCEPT ![i].remote = FALSE]
        <4>1. [appRows[i] EXCEPT !.remote = FALSE] \in StoreRow
          BY <3>1 DEF StoreRow
        <4> QED
          BY <2>4, <3>1, <3>3, <4>1 DEF StoreRow
      <3>4. CASE appRows' = [appRows EXCEPT ![i].active = good]
        <4>1. [appRows[i] EXCEPT !.active = good] \in StoreRow
          BY <3>1 DEF StoreRow
        <4> QED
          BY <2>4, <3>1, <3>4, <4>1 DEF StoreRow
      <3> QED
        BY <2>3, <3>2, <3>3, <3>4
    <2> QED
      BY <2>1, <2>5, LoopKeeps DEF ReceiptInv, ReceiptTypes
  <1>5. CASE R!EndRound
    BY <1>5, LoopKeeps DEF R!EndRound, ReceiptInv, ReceiptTypes
  <1> QED
    BY <1>2, <1>3, <1>4, <1>5 DEF R!Round

\* Every step of the composition keeps it.
LEMMA ReceiptInvStep ==
    ASSUME ReceiptInv, [Next]_vars
    PROVE  ReceiptInv'
  <1>1. CASE UNCHANGED ofReceipts
    BY <1>1 DEF ofReceipts, ReceiptInv, ReceiptTypes, RowsLeaveRoom, Registered, Flying, R!RowsOf
  <1>2. CASE R!Next
    BY <1>2, ChangeStep, CountStep, VerifyStep, InsertStep, LoopStep DEF R!Next, R!Request
  <1> QED
    BY <1>1, <1>2, PartSteps

\* At the start there are the rows added by hand.
LEMMA ReceiptInvInit ==
    ASSUME R!Init
    PROVE  ReceiptInv
  <1>1. PICK owner \in [Manual -> Users], nth \in [1 .. Cardinality(Manual) -> Manual] :
          /\ \A i, j \in DOMAIN nth : nth[i] = nth[j] => i = j
          /\ appRows = [i \in 1 .. Cardinality(Manual) |->
               [user |-> owner[nth[i]], receipt |-> nth[i], active |-> TRUE, remote |-> TRUE]]
    BY ReceiptConstants DEF R!Init, R!IsInjective
  <1>2. PICK n \in Nat : n = Cardinality(Manual)
    BY ReceiptConstants
  <1>3. /\ DOMAIN appRows = 1 .. n
        /\ \A i \in 1 .. n : appRows[i] \in StoreRow /\ appRows[i].receipt = nth[i] /\ nth[i] \in Manual
    BY <1>1, <1>2, ReceiptConstants DEF StoreRow
  <1>4. appRows \in Seq(StoreRow)
    <2>1. appRows = [i \in 1 .. n |-> appRows[i]]
      BY <1>1, <1>2
    <2>2. appRows \in [1 .. n -> StoreRow]
      BY <1>3, <2>1
    <2> QED
      BY ONLY <1>2, <2>2
  <1>5. ReceiptTypes
    <2>1. store \in [Receipts -> {"paid", "ended", "purged"}] /\ requests \in [Requests -> Asking]
      BY DEF R!Init, Asking
    <2>2. \A i, j \in DOMAIN appRows : appRows[i].receipt = appRows[j].receipt => i = j
      BY <1>1, <1>2, <1>3
    <2>3. /\ loop \in {"asleep", "checking", "ended"} /\ due \subseteq DOMAIN appRows
          /\ errors \in 0 .. MaxErrors /\ changes \in 0 .. MaxChanges /\ answer = R!NoAnswer
      BY ReceiptConstants DEF R!Init
    <2> QED
      BY <1>4, <2>1, <2>2, <2>3 DEF ReceiptTypes
  <1>6. \A u \in Users : ~ Registered(u)
    BY <1>3 DEF R!Init, Registered, Flying, R!RowsOf
  <1> QED
    BY <1>5, <1>6 DEF ReceiptInv, RowsLeaveRoom

\* And it says what the run checks.
LEMMA ReceiptInvImplies ==
    ASSUME ReceiptInv
    PROVE  R!TypeOK /\ R!RowLimit
  <1>1. R!TypeOK
    <2>1. \A i \in DOMAIN appRows : appRows[i] \in StoreRow
      BY DEF ReceiptInv, ReceiptTypes
    <2>2. answer \in {R!NoAnswer} \cup [id : DOMAIN appRows, says : Verdicts]
      BY DEF ReceiptInv, ReceiptTypes
    <2>3. ReceiptTypes
      BY DEF ReceiptInv
    <2> QED
      BY ONLY <2>1, <2>2, <2>3 DEF R!TypeOK, ReceiptTypes, StoreRow, Verdicts
  <1>2. ASSUME NEW u \in Users, \E i \in R!RowsOf(u) : appRows[i].receipt \notin Manual
        PROVE  R!Cardinality(R!RowsOf(u)) <= AppLimit + R!Cardinality(Requests) - 1
    <2>1. Registered(u) /\ Cardinality(R!RowsOf(u)) \in Nat /\ Cardinality(Flying(u)) \in Nat
      BY <1>2, CountsAreFinite DEF Registered, ReceiptInv
    <2> QED
      BY <2>1, ReceiptConstants DEF ReceiptInv, RowsLeaveRoom
  <1> QED
    BY <1>1, <1>2 DEF R!RowLimit

-----------------------------------------------------------------------------
(* The watchlist: what a handler plans *)

PlanKeys == {W!Home, ""} \X W!EventNames \X W!Filters
Frees(e, t) == plan = "free" /\ e = "machine" => t = "fixed"

\* Operations, and apart from them the two that were counted before.
PlainAdd == {op \in [op : {"add"}, key : PlanKeys, threshold : W!Thresholds] :
               op.key[2] # "tax" /\ Frees(op.key[2], op.threshold)}
Tagging == [op : {"tag"}, vs : SUBSET Validators] \cup [op : {"untag"}, vs : SUBSET Validators]
Deleting == [op : {"delete"}, keys : SUBSET PlanKeys]
Eaching == [op : {"each"}, event : W!EventNames \ {"machine", "tax"}, list : {"nodes", "validators"},
            threshold : W!Thresholds \cup {W!Removes}]
Unhook == [op : {"hook"}, add : {-1}]
PlainOps == PlainAdd \cup Tagging \cup Deleting \cup Eaching \cup Unhook
TaxOps == [op : {"add"}, key : {W!Home} \X {"tax"} \X W!TaxReports, threshold : {"zero"}]
HookOps == [op : {"hook"}, add : {1}]
Plain(ops) == ops \in Seq(PlainOps)
Taxing(ops) == \E op \in TaxOps : ops = <<op>>
Hooking(ops) == \E op \in HookOps : ops = <<op>>

\* Sets a handler goes through are finite, and no node is a validator.
LEMMA WatchlistConstants ==
    /\ IsFiniteSet(Validators) /\ IsFiniteSet(Tabs) /\ Cardinality(Tabs) \in Nat \ {0}
    /\ \A v \in Validators : NodeOf[v] \notin Validators
    /\ TaxLimit \in Nat /\ MaxRequests \in Nat /\ MaxFailed \in Nat
    /\ \A p \in W!Plans : MaxValidators[p] \in Nat /\ MaxWebhooks[p] \in Nat
    /\ \A S : W!Cardinality(S) = Cardinality(S)
  <1>1. \A S : W!Cardinality(S) = Cardinality(S)
    BY DEF W!Cardinality, Cardinality
  <1>2. /\ IsFiniteSet(Validators) /\ IsFiniteSet(Tabs) /\ Tabs # {}
        /\ \A v \in Validators : NodeOf[v] \notin Validators
        /\ TaxLimit \in Nat /\ MaxRequests \in Nat /\ MaxFailed \in Nat
        /\ \A p \in W!Plans : MaxValidators[p] \in Nat /\ MaxWebhooks[p] \in Nat
    BY UsersAssumption DEF W!WatchlistAssumption, W!IsFiniteSet, IsFiniteSet
  <1>3. Cardinality(Tabs) \in Nat /\ Cardinality(Tabs) # 0
    BY <1>2, FS_CardinalityType, FS_EmptySet
  <1> QED
    BY <1>1, <1>2, <1>3

\* A finite set has an order to go through it.
LEMMA OrderOf ==
    ASSUME NEW S, IsFiniteSet(S)
    PROVE  /\ Cardinality(S) \in Nat
           /\ W!SetToSeq(S) \in [1 .. Cardinality(S) -> S]
  <1>1. PICK n \in Nat : n = Cardinality(S)
    BY FS_CardinalityType
  <1>2. PICK f \in [1 .. n -> S] : \A i, j \in 1 .. n : f[i] = f[j] => i = j
    BY <1>1, FS_CardinalityType
       DEF ExistsBijection, Bijection, Injection, IsInjective
  <1>3. W!IsInjective(f)
    BY <1>2 DEF W!IsInjective
  <1>4. W!SetToSeq(S) \in [1 .. n -> S]
    BY <1>1, <1>3, WatchlistConstants DEF W!SetToSeq
  <1> QED
    BY <1>1, <1>4

\* The operations of each member of a set, one to three of them.
LEMMA ForAllIs ==
    ASSUME NEW Good, NEW opsOf, IsFiniteSet(DOMAIN opsOf), NEW n \in {0, 1, 2, 3},
           \A x \in DOMAIN opsOf : opsOf[x] \in Seq(Good) /\ Len(opsOf[x]) = n
    PROVE  /\ W!ForAll(n, opsOf) \in Seq(Good)
           /\ Len(W!ForAll(n, opsOf)) = n * Cardinality(DOMAIN opsOf)
  <1>1. PICK c, order : /\ c = Cardinality(DOMAIN opsOf) /\ order = W!SetToSeq(DOMAIN opsOf)
                        /\ c \in Nat /\ order \in [1 .. c -> DOMAIN opsOf]
    BY OrderOf
  <1>2. PICK ops : ops = W!ForAll(n, opsOf)
    OBVIOUS
  <1>3. ops = [i \in 1 .. n * c |-> opsOf[order[((i - 1) \div n) + 1]][((i - 1) % n) + 1]]
    BY <1>1, <1>2, WatchlistConstants DEF W!ForAll
  <1>4. ASSUME NEW i \in 1 .. n * c
        PROVE  ops[i] \in Good
    <2>1. PICK k, m : k = ((i - 1) \div n) + 1 /\ m = ((i - 1) % n) + 1
      OBVIOUS
    <2>2. k \in 1 .. c /\ m \in 1 .. n
      <3>1. CASE n = 1
        BY <1>1, <1>4, <2>1, <3>1
      <3>2. CASE n = 2
        BY <1>1, <1>4, <2>1, <3>2
      <3>3. CASE n = 3
        BY <1>1, <1>4, <2>1, <3>3
      <3>4. CASE n = 0
        BY <1>1, <1>4, <3>4
      <3> QED
        BY <3>1, <3>2, <3>3, <3>4
    <2>3. opsOf[order[k]] \in Seq(Good) /\ m \in 1 .. Len(opsOf[order[k]])
      BY <1>1, <2>2
    <2>4. ops[i] = opsOf[order[k]][m]
      BY <1>3, <2>1
    <2> QED
      BY <2>3, <2>4
  <1>5. n * c \in Nat
    BY <1>1
  <1>6. ops \in [1 .. n * c -> Good]
    BY <1>3, <1>4
  <1>7. ops \in Seq(Good) /\ Len(ops) = n * c
    BY <1>5, <1>6
  <1> QED
    BY <1>1, <1>2, <1>7

\* The operations handlers are made of.
LEMMA OperationsArePlain ==
    /\ \A vs \in SUBSET Validators : W!Tag(vs) \in PlainOps /\ W!Clear(vs) \in PlainOps
    /\ \A v \in Validators : W!Untag(v) \in PlainOps
    /\ \A n \in {W!Home, ""}, e \in W!EventNames, f \in W!Filters :
         /\ W!Delete(n, e, f) \in PlainOps /\ W!DeleteAll(n, e) \in PlainOps
         /\ \A t \in W!Thresholds : e # "tax" /\ Frees(e, t) => W!Add(n, e, f, t) \in PlainOps
    /\ \A keys \in SUBSET PlanKeys : W!Forget(keys) \in PlainOps
    /\ \A e \in W!EventNames \ {"machine", "tax"}, list \in {"nodes", "validators"},
          t \in W!Thresholds \cup {W!Removes} : W!Each(e, list, t) \in PlainOps
    /\ W!Hook(-1) \in PlainOps
  <1>1. \A vs \in SUBSET Validators : W!Tag(vs) \in PlainOps
    BY DEF W!Tag, PlainOps, Tagging
  <1>2. \A vs \in SUBSET Validators : W!Clear(vs) \in PlainOps
    <2>1. \A vs \in SUBSET Validators : {W!Home} \X {"slashed"} \X vs \subseteq PlanKeys
      BY DEF PlanKeys, W!EventNames, W!PageEvents, W!Filters
    <2> QED
      BY <2>1 DEF W!Clear, PlainOps, Deleting
  <1>3. \A v \in Validators : W!Untag(v) \in PlainOps
    BY DEF W!Untag, PlainOps, Tagging
  <1>4. \A n \in {W!Home, ""}, e \in W!EventNames, f \in W!Filters :
          W!DeletedKey(n, e, f) \in PlanKeys /\ W!AddedKey(n, e, f) \in PlanKeys
    BY DEF W!DeletedKey, W!AddedKey, PlanKeys
  <1>5. \A n \in {W!Home, ""}, e \in W!EventNames, f \in W!Filters :
          W!Delete(n, e, f) \in PlainOps /\ W!DeleteAll(n, e) \in PlainOps
    <2> SUFFICES ASSUME NEW n \in {W!Home, ""}, NEW e \in W!EventNames, NEW f \in W!Filters
                 PROVE  W!Delete(n, e, f) \in PlainOps /\ W!DeleteAll(n, e) \in PlainOps
      OBVIOUS
    <2>1. {W!DeletedKey(n, e, f)} \subseteq PlanKeys
      BY <1>4
    <2>2. {W!DeletedKey(n, e, g) : g \in W!Filters} \subseteq PlanKeys
      BY <1>4
    <2>3. W!Delete(n, e, f) \in PlainOps
      BY <2>1 DEF W!Delete, PlainOps, Deleting
    <2>4. W!DeleteAll(n, e) \in PlainOps
      BY <2>2 DEF W!DeleteAll, PlainOps, Deleting
    <2> QED
      BY <2>3, <2>4
  <1>6. ASSUME NEW n \in {W!Home, ""}, NEW e \in W!EventNames, NEW f \in W!Filters,
               NEW t \in W!Thresholds, e # "tax", Frees(e, t)
        PROVE  W!Add(n, e, f, t) \in PlainOps
    <2>1. PICK key \in PlanKeys : key = W!AddedKey(n, e, f) /\ key[2] = e
      BY <1>4 DEF W!AddedKey
    <2>2. PICK op : op = W!Add(n, e, f, t)
      OBVIOUS
    <2>3. op = [op |-> "add", key |-> key, threshold |-> t]
      BY <2>1, <2>2 DEF W!Add
    <2>4. op \in [op : {"add"}, key : PlanKeys, threshold : W!Thresholds]
      BY <2>3
    <2>5. op.key[2] # "tax" /\ Frees(op.key[2], op.threshold)
      BY <1>6, <2>1, <2>3
    <2> QED
      BY <2>2, <2>4, <2>5 DEF PlainAdd, PlainOps
  <1>7. \A keys \in SUBSET PlanKeys : W!Forget(keys) \in PlainOps
    BY DEF W!Forget, PlainOps, Deleting
  <1>8. \A e \in W!EventNames \ {"machine", "tax"}, list \in {"nodes", "validators"},
           t \in W!Thresholds \cup {W!Removes} : W!Each(e, list, t) \in PlainOps
    BY DEF W!Each, PlainOps, Eaching
  <1>9. W!Hook(-1) \in PlainOps
    BY DEF W!Hook, PlainOps, Unhook
  <1> QED
    BY <1>1, <1>2, <1>3, <1>5, <1>6, <1>7, <1>8, <1>9

\* Subscribing and unsubscribing by event and filter.
LEMMA SubscribingIsPlain ==
    ASSUME NEW e \in W!EventNames \ {"tax"}, NEW f \in W!Filters, NEW t \in W!Thresholds
    PROVE  /\ W!Subscribe(e, f, t) \in PlainOps /\ W!Unsubscribe(e, f) \in PlainOps
           /\ W!UnsubscribeOne(e, f) \in PlainOps
  <1>1. W!Threshold(e, t) \in W!Thresholds /\ Frees(e, W!Threshold(e, t))
    BY DEF W!Threshold, W!Thresholds, Frees
  <1>2. W!NetworkOf(e) \in {W!Home, ""} /\ W!Home \in {W!Home, ""}
    BY DEF W!NetworkOf
  <1>3. e # "machine" => e \in W!EventNames \ {"machine", "tax"}
    OBVIOUS
  <1>4. W!Subscribe(e, f, t) \in PlainOps
    BY <1>1, <1>2, <1>3, OperationsArePlain DEF W!Subscribe
  <1>5. W!Unsubscribe(e, f) \in PlainOps
    BY <1>2, <1>3, OperationsArePlain DEF W!Unsubscribe
  <1>6. ~ W!IsUserIndexed(e) => e # "machine"
    BY DEF W!IsUserIndexed
  <1>7. W!UnsubscribeOne(e, f) \in PlainOps
    BY <1>2, <1>3, <1>6, OperationsArePlain DEF W!UnsubscribeOne
  <1> QED
    BY <1>4, <1>5, <1>7

\* A list of one operation.
LEMMA OneIsPlain ==
    ASSUME NEW op \in PlainOps
    PROVE  Plain(<<op>>) /\ Len(<<op>>) = 1
  BY DEF Plain

\* A table of single operations for each member of a set.
LEMMA SinglesArePlain ==
    ASSUME NEW opsOf, IsFiniteSet(DOMAIN opsOf),
           \A x \in DOMAIN opsOf : \E op \in PlainOps : opsOf[x] = <<op>>
    PROVE  Plain(W!ForAll(1, opsOf)) /\ Len(W!ForAll(1, opsOf)) = Cardinality(DOMAIN opsOf)
  <1>1. \A x \in DOMAIN opsOf : opsOf[x] \in Seq(PlainOps) /\ Len(opsOf[x]) = 1
    BY OneIsPlain DEF Plain
  <1>2. Cardinality(DOMAIN opsOf) \in Nat
    BY FS_CardinalityType
  <1>3. W!ForAll(1, opsOf) \in Seq(PlainOps) /\ Len(W!ForAll(1, opsOf)) = 1 * Cardinality(DOMAIN opsOf)
    BY <1>1, ForAllIs
  <1> QED
    BY <1>2, <1>3 DEF Plain

\* The events of a page are two.
LEMMA PageEventsAreTwo ==
    /\ W!PageEvents \subseteq W!EventNames \ {"tax", "machine"}
    /\ IsFiniteSet(W!PageEvents) /\ Cardinality(W!PageEvents) = 2
    /\ \A es \in SUBSET W!PageEvents : IsFiniteSet(es) /\ Cardinality(es) \in {0, 1, 2}
  <1>1. IsFiniteSet({}) /\ Cardinality({}) = 0
    BY FS_EmptySet
  <1>2. IsFiniteSet({"slashed"}) /\ Cardinality({"slashed"}) = 1
    <2>1. {"slashed"} = {} \cup {"slashed"}
      OBVIOUS
    <2> QED
      BY <1>1, <2>1, FS_AddElement
  <1>3. IsFiniteSet(W!PageEvents) /\ Cardinality(W!PageEvents) = 2
    <2>1. W!PageEvents = {"slashed"} \cup {"offline"} /\ "offline" \notin {"slashed"}
      BY DEF W!PageEvents
    <2> QED
      BY <1>2, <2>1, FS_AddElement
  <1>4. ASSUME NEW es \in SUBSET W!PageEvents
        PROVE  IsFiniteSet(es) /\ Cardinality(es) \in {0, 1, 2}
    <2>1. IsFiniteSet(es) /\ Cardinality(es) \in Nat /\ Cardinality(es) <= 2
      BY <1>3, FS_Subset, FS_CardinalityType
    <2> QED
      BY <2>1
  <1>5. W!PageEvents \subseteq W!EventNames \ {"tax", "machine"}
    BY DEF W!PageEvents, W!EventNames
  <1> QED
    BY <1>3, <1>4, <1>5

\* The lists a page makes of its boxes.
LEMMA PagesArePlain ==
    ASSUME NEW es \in SUBSET W!PageEvents, NEW f \in W!Filters, NEW t \in W!Thresholds
    PROVE  /\ Plain(W!Adds(es, f))
           /\ Plain(W!Subscribes(es, f, t)) /\ Len(W!Subscribes(es, f, t)) = Cardinality(es)
           /\ Plain(W!Boxes(W!PageEvents, es, f)) /\ Len(W!Boxes(W!PageEvents, es, f)) = 2
  <1>1. "zero" \in W!Thresholds /\ W!Home \in {W!Home, ""} /\ \A e \in W!PageEvents : Frees(e, "zero")
    BY PageEventsAreTwo DEF Frees, W!Thresholds
  <1>2. \A e \in W!PageEvents : /\ W!Add(W!Home, e, f, "zero") \in PlainOps
                                /\ W!Delete(W!Home, e, f) \in PlainOps
                                /\ W!Subscribe(e, f, t) \in PlainOps
    <2>1. \A e \in W!PageEvents : W!Subscribe(e, f, t) \in PlainOps
      BY SubscribingIsPlain, PageEventsAreTwo
    <2>2. \A e \in W!PageEvents : e \in W!EventNames /\ e # "tax"
      BY PageEventsAreTwo
    <2> QED
      BY <1>1, <2>1, <2>2, OperationsArePlain
  <1>3. IsFiniteSet(es) /\ IsFiniteSet(W!PageEvents) /\ Cardinality(W!PageEvents) = 2
    BY PageEventsAreTwo
  <1>4. Plain(W!Adds(es, f))
    <2>1. PICK opsOf : opsOf = [e \in es |-> <<W!Add(W!Home, e, f, "zero")>>]
      OBVIOUS
    <2>2. DOMAIN opsOf = es /\ \A e \in es : \E op \in PlainOps : opsOf[e] = <<op>>
      BY <1>2, <2>1
    <2>3. Plain(W!ForAll(1, opsOf))
      BY <1>3, <2>2, SinglesArePlain
    <2> QED
      BY <2>1, <2>3 DEF W!Adds
  <1>5. Plain(W!Subscribes(es, f, t)) /\ Len(W!Subscribes(es, f, t)) = Cardinality(es)
    <2>1. PICK opsOf : opsOf = [e \in es |-> <<W!Subscribe(e, f, t)>>]
      OBVIOUS
    <2>2. DOMAIN opsOf = es /\ \A e \in es : \E op \in PlainOps : opsOf[e] = <<op>>
      BY <1>2, <2>1
    <2>3. Plain(W!ForAll(1, opsOf)) /\ Len(W!ForAll(1, opsOf)) = Cardinality(es)
      BY <1>3, <2>2, SinglesArePlain
    <2> QED
      BY <2>1, <2>3 DEF W!Subscribes
  <1>6. Plain(W!Boxes(W!PageEvents, es, f)) /\ Len(W!Boxes(W!PageEvents, es, f)) = 2
    <2>1. PICK opsOf : opsOf = [e \in W!PageEvents |->
            <<IF e \in es THEN W!Add(W!Home, e, f, "zero") ELSE W!Delete(W!Home, e, f)>>]
      OBVIOUS
    <2>2. DOMAIN opsOf = W!PageEvents /\ \A e \in W!PageEvents : \E op \in PlainOps : opsOf[e] = <<op>>
      BY <1>2, <2>1
    <2>3. Plain(W!ForAll(1, opsOf)) /\ Len(W!ForAll(1, opsOf)) = 2
      BY <1>3, <2>2, SinglesArePlain
    <2> QED
      BY <2>1, <2>3 DEF W!Boxes
  <1> QED
    BY <1>4, <1>5, <1>6

\* The same for each of several validators.
LEMMA ManyArePlain ==
    ASSUME NEW vs \in SUBSET Validators, NEW opsOf, NEW n \in {0, 1, 2, 3}, DOMAIN opsOf = vs,
           \A v \in vs : Plain(opsOf[v]) /\ Len(opsOf[v]) = n
    PROVE  Plain(W!ForAll(n, opsOf))
  <1>1. IsFiniteSet(vs)
    BY FS_Subset, WatchlistConstants
  <1> QED
    BY <1>1, ForAllIs DEF Plain

\* Lists of operations after each other.
LEMMA JoinedArePlain ==
    ASSUME NEW first, NEW second, Plain(first), Plain(second)
    PROVE  Plain(first \o second) /\ Len(first \o second) = Len(first) + Len(second)
  BY DEF Plain

-----------------------------------------------------------------------------
(* The watchlist: requests *)

WatchTypes ==
  /\ plan \in W!Plans /\ tags \subseteq Validators /\ loose \subseteq Validators
  /\ DOMAIN subs \subseteq W!Networks \X W!EventNames \X W!Filters
  /\ \A key \in DOMAIN subs : subs[key] \in W!Thresholds
  /\ hooks \in Nat /\ asked \in 0 .. MaxRequests /\ failed \in 0 .. MaxFailed
  /\ DOMAIN running = Tabs /\ \A tab \in Tabs : DOMAIN running[tab] = {"ops", "on", "off", "alone"}

\* What a handler may plan, and what it counted before.
Planned(ops) ==
  \/ Plain(ops)
  \/ Taxing(ops) /\ Cardinality(W!TaxRows) < TaxLimit
  \/ Hooking(ops) /\ hooks < MaxWebhooks[plan]
Begins(tab) == \E ops, on, off : W!Begin(tab, ops, on, off) /\ Planned(ops)

\* What the API is asked for.
EventFilters == (W!EventNames \ {"tax"}) \X W!Filters

\* Each item of a list is an event and a filter.
LEMMA ListsAre ==
    /\ W!Items \subseteq EventFilters
    /\ \A items \in W!Lists : W!OnlyOnce(items) \in Seq(EventFilters)
  <1>1. W!Items \subseteq EventFilters
    BY DEF W!Items, EventFilters, W!EventNames, W!PageEvents, W!Filters, W!Machine, W!Geth
  <1>2. <<"offline", "">> \in EventFilters
    BY DEF EventFilters, W!EventNames, W!PageEvents, W!Filters
  <1>3. \A item \in {"slashed", "offline"} \X {""} : item \in EventFilters
    BY DEF EventFilters, W!EventNames, W!PageEvents, W!Filters
  <1>4. ASSUME NEW items \in W!Lists
        PROVE  W!OnlyOnce(items) \in Seq(EventFilters)
    <2>1. items \in Seq(EventFilters) /\ Len(items) \in {1, 2}
      <3>1. PICK last \in EventFilters : last = <<"offline", "">>
        BY <1>2
      <3>2. \E item \in EventFilters : items = <<item>> \/ items = <<item, last>>
        BY <1>1, <1>3, <3>1 DEF W!Lists
      <3>3. PICK item \in EventFilters : items = <<item>> \/ items = <<item, last>>
        BY <3>2
      <3>4. /\ <<item>> \in Seq(EventFilters) /\ Len(<<item>>) = 1
            /\ <<item, last>> \in Seq(EventFilters) /\ Len(<<item, last>>) = 2
        OBVIOUS
      <3> QED
        BY <3>3, <3>4
    <2>2. items[1] \in EventFilters
      BY <2>1
    <2>3. <<items[1]>> \in Seq(EventFilters)
      BY <2>2
    <2> QED
      BY <2>1, <2>3 DEF W!OnlyOnce
  <1> QED
    BY <1>1, <1>4

\* Requests for validators.
LEMMA AskOfValidatorsBegins ==
    ASSUME NEW tab \in Tabs, NEW vs \in SUBSET Validators, W!AskOfValidators(tab, vs)
    PROVE  Begins(tab)
  <1>1. ASSUME NEW ops, NEW on, NEW off, W!Begin(tab, ops, on, off), Plain(ops)
        PROVE  Begins(tab)
    BY <1>1 DEF Begins, Planned
  <1>2. CASE W!UserDashboardWatchlistAdd(tab, vs)
    <2>1. Plain(<<W!Tag(vs)>>)
      BY OperationsArePlain, OneIsPlain
    <2> QED
      BY <1>1, <1>2, <2>1 DEF W!UserDashboardWatchlistAdd
  <1>3. CASE W!RemoveAllValidatorsAndUnsubscribe(tab, vs)
    <2>1. PICK opsOf : opsOf = [v \in vs |-> <<W!Untag(v)>>]
      OBVIOUS
    <2>2. DOMAIN opsOf = vs /\ \A v \in vs : Plain(opsOf[v]) /\ Len(opsOf[v]) = 1
      BY <2>1, OperationsArePlain, OneIsPlain
    <2>3. Plain(W!ForAll(1, opsOf))
      BY <2>2, ManyArePlain
    <2> QED
      BY <1>1, <1>3, <2>1, <2>3 DEF W!RemoveAllValidatorsAndUnsubscribe
  <1>4. vs \subseteq W!Filters /\ "own" \in W!Thresholds
    BY DEF W!Filters, W!Thresholds
  <1>5. ASSUME NEW es \in SUBSET W!PageEvents, W!UserUpdateSubscriptions(tab, vs, es, "own")
        PROVE  Begins(tab)
    <2>1. PICK opsOf : opsOf = [v \in vs |-> W!Subscribes(es, v, "own")]
      OBVIOUS
    <2>2. PICK n \in {0, 1, 2, 3} : n = Cardinality(es)
      BY PageEventsAreTwo
    <2>3. DOMAIN opsOf = vs /\ \A v \in vs : Plain(opsOf[v]) /\ Len(opsOf[v]) = n
      BY <1>4, <2>1, <2>2, PagesArePlain
    <2>4. Plain(W!ForAll(n, opsOf)) /\ Plain(<<W!Clear(vs)>>)
      BY <2>3, ManyArePlain, OperationsArePlain, OneIsPlain
    <2>5. Plain(<<W!Clear(vs)>> \o W!ForAll(n, opsOf))
      BY <2>4, JoinedArePlain
    <2>6. W!Cardinality(es) = n
      BY <2>2, WatchlistConstants
    <2> QED
      BY <1>1, <1>5, <2>1, <2>5, <2>6 DEF W!UserUpdateSubscriptions
  <1>6. ASSUME NEW es \in SUBSET W!PageEvents, W!UsersModalAddValidator(tab, vs, es)
        PROVE  Begins(tab)
    <2>1. PICK opsOf : opsOf = [v \in vs |-> <<W!Tag({v})>> \o W!Boxes(W!PageEvents, es, v)]
      OBVIOUS
    <2>2. ASSUME NEW v \in vs
          PROVE  Plain(opsOf[v]) /\ Len(opsOf[v]) = 3
      <3>1. Plain(<<W!Tag({v})>>) /\ Len(<<W!Tag({v})>>) = 1
        BY OperationsArePlain, OneIsPlain
      <3>2. Plain(W!Boxes(W!PageEvents, es, v)) /\ Len(W!Boxes(W!PageEvents, es, v)) = 2
        BY <1>4, PagesArePlain
      <3>3. PICK first, second : first = <<W!Tag({v})>> /\ second = W!Boxes(W!PageEvents, es, v)
        OBVIOUS
      <3>4. Plain(first) /\ Len(first) = 1 /\ Plain(second) /\ Len(second) = 2
        BY <3>1, <3>2, <3>3
      <3>5. Plain(first \o second) /\ Len(first \o second) = Len(first) + Len(second)
        BY ONLY <3>4, JoinedArePlain
      <3> QED
        BY <2>1, <3>3, <3>4, <3>5
    <2>3. Plain(W!ForAll(3, opsOf))
      BY <2>1, <2>2, ManyArePlain
    <2>4. 1 + W!Cardinality(W!PageEvents) = 3
      BY PageEventsAreTwo, WatchlistConstants
    <2> QED
      BY <1>1, <1>6, <2>1, <2>3, <2>4 DEF W!UsersModalAddValidator
  <1>7. ASSUME NEW es \in SUBSET W!PageEvents, W!UserModalManageNotificationModal(tab, vs, es)
        PROVE  Begins(tab)
    <2>1. PICK opsOf : opsOf = [v \in vs |-> W!Boxes(W!PageEvents, es, v)]
      OBVIOUS
    <2>2. DOMAIN opsOf = vs /\ \A v \in vs : Plain(opsOf[v]) /\ Len(opsOf[v]) = 2
      BY <1>4, <2>1, PagesArePlain
    <2>3. Plain(W!ForAll(2, opsOf))
      BY <2>2, ManyArePlain
    <2>4. W!Cardinality(W!PageEvents) = 2
      BY PageEventsAreTwo, WatchlistConstants
    <2> QED
      BY <1>1, <1>7, <2>1, <2>3, <2>4 DEF W!UserModalManageNotificationModal
  <1> QED
    BY <1>2, <1>3, <1>5, <1>6, <1>7 DEF W!AskOfValidators, W!UserModalRemoveSelectedValidator

\* Requests for one validator.
LEMMA AskOfOneBegins ==
    ASSUME NEW tab \in Tabs, NEW v \in Validators \cup {W!TooShort}, NEW es \in SUBSET W!PageEvents,
           \/ v \in Validators /\ W!UserValidatorWatchlistRemove(tab, v)
           \/ W!UserValidatorWatchlistAdd(tab, v, es) /\ (v # W!TooShort => v \in Validators)
           \/ v \in Validators /\ W!AddValidatorsAndSubscribe(tab, v, es)
    PROVE  Begins(tab)
  <1>1. ASSUME NEW ops, NEW on, NEW off, W!Begin(tab, ops, on, off), Plain(ops)
        PROVE  Begins(tab)
    BY <1>1 DEF Begins, Planned
  <1>2. v \in W!Filters /\ "zero" \in W!Thresholds
    BY DEF W!Filters, W!Thresholds
  <1>3. Plain(<<>>) /\ (v \in Validators => Plain(<<W!Tag({v})>>) /\ Plain(<<W!Untag(v)>>))
    <2>1. Plain(<<>>)
      BY DEF Plain
    <2>2. v \in Validators => W!Tag({v}) \in PlainOps /\ W!Untag(v) \in PlainOps
      BY OperationsArePlain
    <2> QED
      BY <2>1, <2>2, OneIsPlain
  <1>4. CASE v \in Validators /\ W!UserValidatorWatchlistRemove(tab, v)
    BY <1>1, <1>3, <1>4 DEF W!UserValidatorWatchlistRemove
  <1>5. CASE W!UserValidatorWatchlistAdd(tab, v, es) /\ (v # W!TooShort => v \in Validators)
    <2>1. PICK last : last = (IF v = W!TooShort THEN <<>> ELSE <<W!Tag({v})>>)
      OBVIOUS
    <2>2. Plain(last)
      BY <1>3, <1>5, <2>1
    <2>3. Plain(W!Adds(es, v) \o last)
      BY <1>2, <2>2, PagesArePlain, JoinedArePlain
    <2> QED
      BY <1>1, <1>5, <2>1, <2>3 DEF W!UserValidatorWatchlistAdd
  <1>6. CASE v \in Validators /\ W!AddValidatorsAndSubscribe(tab, v, es)
    <2>1. Plain(<<W!Tag({v})>> \o W!Subscribes(es, v, "zero"))
      BY <1>2, <1>3, <1>6, PagesArePlain, JoinedArePlain
    <2> QED
      BY <1>1, <1>6, <2>1 DEF W!AddValidatorsAndSubscribe
  <1> QED
    BY <1>4, <1>5, <1>6

\* Requests for events, reports and webhooks.
LEMMA AskOfEventsBegins ==
    ASSUME WatchTypes, NEW tab \in Tabs, W!AskOfEvents(tab)
    PROVE  Begins(tab)
  <1>1. ASSUME NEW ops, NEW on, NEW off, W!Begin(tab, ops, on, off), Plain(ops)
        PROVE  Begins(tab)
    BY <1>1 DEF Begins, Planned
  <1>2. ASSUME NEW e \in W!PageEvents, W!UserValidatorWatchlistAdd(tab, W!TooShort, {e})
        PROVE  Begins(tab)
    BY <1>2, AskOfOneBegins
  <1>3. ASSUME NEW es \in SUBSET {"network"}, W!UserModalAddNetworkEvent(tab, es)
        PROVE  Begins(tab)
    <2>1. PICK opsOf : opsOf = [e \in {"network"} |->
            <<IF e \in es THEN W!Add(W!Home, e, "network", "zero") ELSE W!Delete(W!Home, e, "network")>>]
      OBVIOUS
    <2>2. "network" \in W!EventNames /\ "network" \in W!Filters /\ "zero" \in W!Thresholds
          /\ Frees("network", "zero")
      BY DEF W!EventNames, W!Filters, W!Thresholds, Frees
    <2>3. W!Add(W!Home, "network", "network", "zero") \in PlainOps
          /\ W!Delete(W!Home, "network", "network") \in PlainOps
      BY <2>2, OperationsArePlain
    <2>4. DOMAIN opsOf = {"network"} /\ \A e \in {"network"} : \E op \in PlainOps : opsOf[e] = <<op>>
      BY <2>1, <2>3
    <2>5. IsFiniteSet({"network"})
      BY FS_Singleton
    <2>6. Plain(W!ForAll(1, opsOf))
      BY <2>4, <2>5, SinglesArePlain
    <2> QED
      BY <1>1, <1>3, <2>1, <2>6 DEF W!UserModalAddNetworkEvent, W!Boxes
  <1>4. ASSUME NEW items \in W!Lists,
               \/ W!MultipleUsersNotificationsSubscribe(tab, items, "own")
               \/ W!MultipleUsersNotificationsUnsubscribe(tab, items)
        PROVE  Begins(tab)
    <2>1. PICK once : once = W!OnlyOnce(items) /\ once \in Seq(EventFilters)
      BY ListsAre
    <2>2. "own" \in W!Thresholds
      BY DEF W!Thresholds
    <2>3. \A i \in DOMAIN once : once[i][1] \in W!EventNames \ {"tax"} /\ once[i][2] \in W!Filters
      BY <2>1 DEF EventFilters
    <2>4. \A i \in DOMAIN once : /\ W!Subscribe(once[i][1], once[i][2], "own") \in PlainOps
                                 /\ W!Unsubscribe(once[i][1], once[i][2]) \in PlainOps
      BY <2>2, <2>3, SubscribingIsPlain
    <2>5. /\ Plain([i \in DOMAIN once |-> W!Subscribe(once[i][1], once[i][2], "own")])
          /\ Plain([i \in DOMAIN once |-> W!Unsubscribe(once[i][1], once[i][2])])
      <3>1. PICK n \in Nat : DOMAIN once = 1 .. n
        BY <2>1
      <3> QED
        BY <2>4, <3>1 DEF Plain
    <2> QED
      BY <1>1, <1>4, <2>1, <2>5
         DEF W!MultipleUsersNotificationsSubscribe, W!MultipleUsersNotificationsUnsubscribe
  <1>5. ASSUME NEW item \in W!Items, W!UserNotificationsUnsubscribe(tab, item[1], item[2])
        PROVE  Begins(tab)
    <2>1. PICK e \in W!EventNames \ {"tax"}, f \in W!Filters : e = item[1] /\ f = item[2]
      BY ListsAre DEF EventFilters
    <2>2. "own" \in W!Thresholds
      BY DEF W!Thresholds
    <2>3. Plain(<<W!UnsubscribeOne(e, f)>>)
      BY <2>2, SubscribingIsPlain, OneIsPlain
    <2> QED
      BY <1>1, <1>5, <2>1, <2>3 DEF W!UserNotificationsUnsubscribe
  <1>6. ASSUME NEW key \in DOMAIN subs, key[1] # "other",
               W!UserNotificationsUnsubscribeByHash(tab, {key})
        PROVE  Begins(tab)
    <2>1. key \in PlanKeys
      BY <1>6 DEF WatchTypes, PlanKeys, W!Networks
    <2>2. Plain(<<W!Forget({key})>>)
      BY <2>1, OperationsArePlain, OneIsPlain
    <2> QED
      BY <1>1, <1>6, <2>2 DEF W!UserNotificationsUnsubscribeByHash
  <1>7. ASSUME NEW report \in W!TaxReports, W!RewardNotificationSubscribe(tab, report)
        PROVE  Begins(tab)
    <2>1. PICK op : op = W!Add(W!Home, "tax", report, "zero")
      OBVIOUS
    <2>2. op \in TaxOps
      BY <2>1 DEF W!Add, W!AddedKey, TaxOps
    <2>3. Planned(<<op>>)
      BY <1>7, <2>2, WatchlistConstants DEF Planned, Taxing, W!RewardNotificationSubscribe
    <2> QED
      BY <1>7, <2>1, <2>3 DEF Begins, W!RewardNotificationSubscribe
  <1>8. ASSUME NEW report \in W!TaxReports, W!RewardNotificationUnsubscribe(tab, report)
        PROVE  Begins(tab)
    <2>1. "tax" \in W!EventNames /\ report \in W!Filters /\ W!Home \in {W!Home, ""}
      BY DEF W!EventNames, W!Filters
    <2>2. Plain(<<W!Delete(W!Home, "tax", report)>>)
      BY <2>1, OperationsArePlain, OneIsPlain
    <2> QED
      BY <1>1, <1>8, <2>2 DEF W!RewardNotificationUnsubscribe
  <1>9. CASE W!UsersAddWebhook(tab)
    <2>1. W!Hook(1) \in HookOps
      BY DEF W!Hook, HookOps
    <2> QED
      BY <1>9, <2>1 DEF Begins, Planned, Hooking, W!UsersAddWebhook
  <1>10. CASE W!UsersDeleteWebhook(tab)
    <2>1. Plain(<<W!Hook(-1)>>)
      BY OperationsArePlain, OneIsPlain
    <2> QED
      BY <1>1, <1>10, <2>1 DEF W!UsersDeleteWebhook
  <1> QED
    BY <1>2, <1>3, <1>4, <1>5, <1>6, <1>7, <1>8, <1>9, <1>10 DEF W!AskOfEvents

\* Whatever the user asks for.
LEMMA AskBegins ==
    ASSUME WatchTypes, NEW tab \in Tabs, W!Ask(tab)
    PROVE  Begins(tab) /\ running[tab].ops = <<>>
  <1>1. ASSUME NEW v \in Validators, W!AskOfOne(tab, v)
        PROVE  Begins(tab)
    <2>1. CASE W!UserValidatorWatchlistRemove(tab, v)
      <3>1. {} \in SUBSET W!PageEvents
        OBVIOUS
      <3> QED
        BY <2>1, <3>1, AskOfOneBegins
    <2>2. ASSUME NEW es \in SUBSET W!PageEvents,
                 W!UserValidatorWatchlistAdd(tab, v, es) \/ W!AddValidatorsAndSubscribe(tab, v, es)
          PROVE  Begins(tab)
      BY <2>2, AskOfOneBegins
    <2> QED
      BY <1>1, <2>1, <2>2 DEF W!AskOfOne
  <1>2. ASSUME NEW vs \in SUBSET Validators, W!AskOfValidators(tab, vs)
        PROVE  Begins(tab)
    BY <1>2, AskOfValidatorsBegins
  <1> QED
    BY <1>1, <1>2, AskOfEventsBegins DEF W!Ask

-----------------------------------------------------------------------------
(* The watchlist: the rows *)

\* What holds of the rows; names of validators under way are loose or followed.
RowsFine ==
  W!UnfollowedIsSilent /\ W!OtherNetworkIsLeft /\ W!FreeThresholds
NamesFine == \A tab \in Tabs : W!Named(running[tab].ops) \subseteq loose \cup tags
PlansFine == \A tab \in Tabs : LET ops == running[tab].ops IN Plain(ops) \/ Taxing(ops) \/ Hooking(ops)

\* Requests that counted tax reports or webhooks and have not written yet.
TaxTabs == {tab \in Tabs : Taxing(running[tab].ops)}
HookTabs == {tab \in Tabs : Hooking(running[tab].ops)}
RoomsFine ==
  /\ IsFiniteSet(W!TaxRows)
  /\ Cardinality(W!TaxRows) + Cardinality(TaxTabs) < TaxLimit + Cardinality(Tabs)
  /\ hooks + Cardinality(HookTabs) < MaxWebhooks[plan] + Cardinality(Tabs)
WatchInv == WatchTypes /\ PlansFine /\ NamesFine /\ RowsFine /\ RoomsFine

\* The validators a list of operations will name.
LEMMA NamedAre ==
    ASSUME NEW ops, NEW v
    PROVE  v \in W!Named(ops) <=>
             v \in Validators /\ \E i \in DOMAIN ops : ops[i].op = "add" /\ ops[i].key[3] = v
  BY DEF W!Named

\* The three kinds of plans differ.
LEMMA PlansDiffer ==
    ASSUME NEW ops
    PROVE  /\ Plain(ops) => ~ Taxing(ops) /\ ~ Hooking(ops)
           /\ Taxing(ops) => ~ Hooking(ops)
           /\ ops = <<>> => Plain(ops) /\ W!Named(ops) = {}
  <1>1. ASSUME Plain(ops)
        PROVE  ~ Taxing(ops) /\ ~ Hooking(ops)
    <2>1. ops # <<>> => ops[1] \in PlainOps
      BY <1>1 DEF Plain
    <2>2. \A op \in TaxOps : op.op = "add" /\ op.key[2] = "tax"
      BY DEF TaxOps
    <2>3. \A op \in TaxOps \cup HookOps : op \notin PlainOps
      BY <2>2 DEF HookOps, PlainOps, PlainAdd, Tagging, Deleting, Eaching, Unhook, TaxOps
    <2> QED
      BY <2>1, <2>3 DEF Taxing, Hooking
  <1>2. Taxing(ops) => ~ Hooking(ops)
    <2>1. \A a \in TaxOps, b \in HookOps : a.op # b.op
      BY DEF TaxOps, HookOps
    <2> QED
      BY <2>1 DEF Taxing, Hooking
  <1>3. ops = <<>> => Plain(ops) /\ W!Named(ops) = {}
    BY DEF Plain, W!Named
  <1> QED
    BY <1>1, <1>2, <1>3

\* The operation a handler is at, and what is left of its plan.
LEMMA HeadAndTail ==
    ASSUME NEW ops, ops # <<>>, Plain(ops) \/ Taxing(ops) \/ Hooking(ops)
    PROVE  /\ \/ Head(ops) \in PlainOps /\ Plain(ops)
              \/ Head(ops) \in TaxOps /\ Taxing(ops)
              \/ Head(ops) \in HookOps /\ Hooking(ops)
           /\ Plain(Tail(ops)) /\ W!Named(Tail(ops)) \subseteq W!Named(ops)
           /\ Head(ops).op = "add" /\ Head(ops).key[3] \in Validators
                => Head(ops).key[3] \in W!Named(ops)
  <1>1. CASE Plain(ops)
    <2>1. Head(ops) \in PlainOps /\ Plain(Tail(ops)) /\ Head(ops) = ops[1] /\ 1 \in DOMAIN ops
      BY <1>1 DEF Plain
    <2>2. \A i \in DOMAIN Tail(ops) : i + 1 \in DOMAIN ops /\ Tail(ops)[i] = ops[i + 1]
      BY <1>1 DEF Plain
    <2>3. ASSUME NEW v \in W!Named(Tail(ops))
          PROVE  v \in W!Named(ops)
      <3>1. PICK i \in DOMAIN Tail(ops) : v \in Validators /\ Tail(ops)[i].op = "add" /\ Tail(ops)[i].key[3] = v
        BY NamedAre
      <3>2. i + 1 \in DOMAIN ops /\ ops[i + 1].op = "add" /\ ops[i + 1].key[3] = v
        BY <2>2, <3>1
      <3> QED
        BY <3>1, <3>2, NamedAre
    <2> QED
      BY <1>1, <2>1, <2>3, NamedAre
  <1>2. ASSUME NEW op, op \in TaxOps \cup HookOps, ops = <<op>>
        PROVE  /\ Head(ops) = op /\ Tail(ops) = <<>> /\ ops[1] = op /\ 1 \in DOMAIN ops
               /\ Plain(Tail(ops)) /\ W!Named(Tail(ops)) \subseteq W!Named(ops)
    <2>1. Head(ops) = op /\ Tail(ops) = <<>> /\ ops[1] = op /\ 1 \in DOMAIN ops
      BY <1>2
    <2> QED
      BY <2>1, PlansDiffer
  <1>3. CASE Taxing(ops)
    BY <1>2, <1>3, NamedAre DEF Taxing
  <1>4. CASE Hooking(ops)
    BY <1>2, <1>4, NamedAre DEF Hooking
  <1> QED
    BY <1>1, <1>3, <1>4

\* AddSubscription: a row more, or another threshold.
LEMMA WithSubIs ==
    ASSUME NEW key, NEW t, NEW new, new = W!WithSub(key, t)
    PROVE  /\ DOMAIN new = DOMAIN subs \cup {key}
           /\ \A k \in DOMAIN subs : k # key => new[k] = subs[k]
           /\ new[key] = t \/ (key \in DOMAIN subs /\ new[key] = subs[key])
  BY DEF W!WithSub

\* Rows that are deleted.
LEMMA WithoutIs ==
    ASSUME NEW keys, NEW new, new = W!Without(keys)
    PROVE  DOMAIN new = DOMAIN subs \ keys /\ \A k \in DOMAIN new : new[k] = subs[k]
  BY DEF W!Without, W!Restrict

\* Where a row may be added.
LEMMA AddFits ==
    ASSUME WatchTypes, RowsFine, NEW key \in PlanKeys, NEW t \in W!Thresholds, Frees(key[2], t),
           key[3] \in Validators => key[3] \in loose \cup tags,
           subs' = W!WithSub(key, t), UNCHANGED <<plan, tags, loose>>
    PROVE  /\ RowsFine' /\ DOMAIN subs' \subseteq W!Networks \X W!EventNames \X W!Filters
           /\ \A k \in DOMAIN subs' : subs'[k] \in W!Thresholds
           /\ W!TaxRows' \subseteq W!TaxRows \cup {key}
           /\ key[2] # "tax" => W!TaxRows' = W!TaxRows
  <1>1. /\ DOMAIN subs' = DOMAIN subs \cup {key}
        /\ \A k \in DOMAIN subs : k # key => subs'[k] = subs[k]
        /\ subs'[key] = t \/ (key \in DOMAIN subs /\ subs'[key] = subs[key])
    <2>1. PICK new : new = W!WithSub(key, t)
      OBVIOUS
    <2>2. /\ DOMAIN new = DOMAIN subs \cup {key}
          /\ \A k \in DOMAIN subs : k # key => new[k] = subs[k]
          /\ new[key] = t \/ (key \in DOMAIN subs /\ new[key] = subs[key])
      BY ONLY <2>1, WithSubIs
    <2> QED
      BY <2>1, <2>2
  <1>2. key \in W!Networks \X W!EventNames \X W!Filters /\ key[1] # "other"
    BY DEF PlanKeys, W!Networks, W!Home
  <1>3. /\ DOMAIN subs' \subseteq W!Networks \X W!EventNames \X W!Filters
        /\ \A k \in DOMAIN subs' : subs'[k] \in W!Thresholds
    BY <1>1, <1>2 DEF WatchTypes
  <1>4. W!UnfollowedIsSilent'
    BY <1>1 DEF RowsFine, W!UnfollowedIsSilent
  <1>5. W!OtherNetworkIsLeft'
    BY <1>1, <1>2 DEF RowsFine, W!OtherNetworkIsLeft
  <1>6. W!FreeThresholds'
    BY <1>1 DEF RowsFine, W!FreeThresholds, Frees
  <1>7. /\ W!TaxRows' \subseteq W!TaxRows \cup {key}
        /\ key[2] # "tax" => W!TaxRows' = W!TaxRows
    BY <1>1 DEF W!TaxRows
  <1> QED
    BY <1>3, <1>4, <1>5, <1>6, <1>7 DEF RowsFine

\* Rows of this network, or of none, may be deleted.
LEMMA DeleteFits ==
    ASSUME WatchTypes, RowsFine, NEW keys, \A k \in keys : k[1] # "other",
           subs' = W!Without(keys), plan' = plan,
           \A k \in DOMAIN subs : k[1] = W!Home /\ k[3] \in Validators \ tags' /\ k \notin keys
                                    => k[3] \in loose'
    PROVE  /\ RowsFine' /\ DOMAIN subs' \subseteq W!Networks \X W!EventNames \X W!Filters
           /\ \A k \in DOMAIN subs' : subs'[k] \in W!Thresholds
           /\ W!TaxRows' \subseteq W!TaxRows
  <1>1. DOMAIN subs' = DOMAIN subs \ keys /\ \A k \in DOMAIN subs' : subs'[k] = subs[k]
    BY WithoutIs
  <1>2. W!UnfollowedIsSilent'
    BY <1>1 DEF W!UnfollowedIsSilent
  <1>3. W!OtherNetworkIsLeft'
    BY <1>1 DEF RowsFine, W!OtherNetworkIsLeft
  <1>4. W!FreeThresholds'
    BY <1>1 DEF RowsFine, W!FreeThresholds
  <1>5. W!TaxRows' \subseteq W!TaxRows
    BY <1>1 DEF W!TaxRows
  <1> QED
    BY <1>1, <1>2, <1>3, <1>4, <1>5 DEF RowsFine, WatchTypes
-----------------------------------------------------------------------------
(* The watchlist: its steps *)

\* Some of the tabs, counted.
LEMMA SomeTabs ==
    ASSUME NEW S \in SUBSET Tabs, NEW tab \in Tabs
    PROVE  /\ Cardinality(S) \in Nat /\ Cardinality(S) <= Cardinality(Tabs)
           /\ Cardinality(S \ {tab}) \in Nat
           /\ Cardinality(S \ {tab}) <= Cardinality(S)
           /\ tab \in S => Cardinality(S \ {tab}) = Cardinality(S) - 1
  <1>1. IsFiniteSet(S) /\ Cardinality(S) \in Nat /\ Cardinality(S) <= Cardinality(Tabs)
    BY WatchlistConstants, FS_Subset, FS_CardinalityType
  <1>2. IsFiniteSet(S \ {tab}) /\ Cardinality(S \ {tab}) \in Nat
        /\ Cardinality(S \ {tab}) <= Cardinality(S)
    BY <1>1, FS_Subset, FS_CardinalityType
  <1>3. tab \in S => Cardinality(S \ {tab}) = Cardinality(S) - 1
    BY <1>1, FS_RemoveElement
  <1> QED
    BY <1>1, <1>2, <1>3

\* What is plain stays so while the plan of the user stays.
LEMMA PlainStays ==
    ASSUME plan' = plan
    PROVE  PlainOps' = PlainOps
  BY DEF PlainOps, PlainAdd, Frees, Tagging, Deleting, Eaching, Unhook

\* The plans of the tabs when those of one tab change.
LEMMA OneTabMoves ==
    ASSUME PlansFine, NEW tab \in Tabs, NEW ops, running'[tab].ops = ops, plan' = plan,
           \A t \in Tabs \ {tab} : running'[t].ops = running[t].ops,
           Plain(ops) \/ Taxing(ops) \/ Hooking(ops)
    PROVE  /\ PlansFine' /\ Plain(ops)' = Plain(ops)
           /\ TaxTabs \in SUBSET Tabs /\ HookTabs \in SUBSET Tabs
           /\ TaxTabs' \in SUBSET Tabs /\ HookTabs' \in SUBSET Tabs
           /\ ~ Taxing(ops) => TaxTabs' = TaxTabs \ {tab}
           /\ ~ Hooking(ops) => HookTabs' = HookTabs \ {tab}
  <1>1. \A t \in Tabs : t # tab => running'[t].ops = running[t].ops
    OBVIOUS
  <1>2. \A o : Plain(o)' = Plain(o)
    BY PlainStays DEF Plain
  <1>3. PlansFine'
    <2>1. ASSUME NEW t \in Tabs
          PROVE  LET o == running'[t].ops IN Plain(o) \/ Taxing(o) \/ Hooking(o)
      BY <1>1 DEF PlansFine
    <2> QED
      BY <2>1, PlainStays DEF PlansFine, Plain, Taxing, Hooking
  <1>4. /\ TaxTabs \in SUBSET Tabs /\ HookTabs \in SUBSET Tabs
        /\ TaxTabs' \in SUBSET Tabs /\ HookTabs' \in SUBSET Tabs
    BY DEF TaxTabs, HookTabs
  <1>5. ~ Taxing(ops) => TaxTabs' = TaxTabs \ {tab}
    <2>1. \A t \in Tabs : t \in TaxTabs' <=> Taxing(running'[t].ops)
      BY DEF TaxTabs, Taxing
    <2>2. \A t \in Tabs : t \in TaxTabs <=> Taxing(running[t].ops)
      BY DEF TaxTabs
    <2> QED
      BY <1>1, <1>4, <2>1, <2>2
  <1>6. ~ Hooking(ops) => HookTabs' = HookTabs \ {tab}
    <2>1. \A t \in Tabs : t \in HookTabs' <=> Hooking(running'[t].ops)
      BY DEF HookTabs, Hooking
    <2>2. \A t \in Tabs : t \in HookTabs <=> Hooking(running[t].ops)
      BY DEF HookTabs
    <2> QED
      BY <1>1, <1>4, <2>1, <2>2
  <1> QED
    BY <1>2, <1>3, <1>4, <1>5, <1>6

\* A request: what it will name is loose from now on; what it counted has room.
LEMMA BeginKeeps ==
    ASSUME WatchInv, NEW tab \in Tabs, Begins(tab), running[tab].ops = <<>>
    PROVE  WatchInv'
  <1>1. PICK ops, on, off : W!Begin(tab, ops, on, off) /\ Planned(ops)
    BY DEF Begins
  <1>2. /\ running' = [running EXCEPT ![tab] = [ops |-> ops, on |-> on, off |-> off, alone |-> TRUE]]
        /\ loose' = loose \cup W!Named(ops) /\ asked' = asked + 1 /\ asked < MaxRequests
        /\ plan' = plan /\ tags' = tags /\ subs' = subs /\ hooks' = hooks /\ failed' = failed
    BY <1>1 DEF W!Begin
  <1>3. DOMAIN running = Tabs /\ \A t \in Tabs : DOMAIN running[t] = {"ops", "on", "off", "alone"}
    BY DEF WatchInv, WatchTypes
  <1>4. /\ DOMAIN running' = Tabs /\ running'[tab].ops = ops
        /\ \A t \in Tabs : t # tab => running'[t] = running[t]
        /\ \A t \in Tabs : DOMAIN running'[t] = {"ops", "on", "off", "alone"}
    BY <1>2, <1>3
  <1>5. WatchTypes'
    <2>1. W!Named(ops) \subseteq Validators
      BY NamedAre
    <2>2. asked' \in 0 .. MaxRequests
      BY <1>2, WatchlistConstants DEF WatchInv, WatchTypes
    <2> QED
      BY <1>2, <1>4, <2>1, <2>2 DEF WatchInv, WatchTypes
  <1>6. Plain(ops) \/ Taxing(ops) \/ Hooking(ops)
    BY <1>1 DEF Planned
  <1>7. /\ PlansFine'
        /\ TaxTabs \in SUBSET Tabs /\ HookTabs \in SUBSET Tabs
        /\ TaxTabs' \in SUBSET Tabs /\ HookTabs' \in SUBSET Tabs
        /\ ~ Taxing(ops) => TaxTabs' = TaxTabs \ {tab}
        /\ ~ Hooking(ops) => HookTabs' = HookTabs \ {tab}
    BY <1>2, <1>4, <1>6, OneTabMoves DEF WatchInv
  <1>8. NamesFine'
    <2>1. ASSUME NEW t \in Tabs
          PROVE  W!Named(running'[t].ops) \subseteq loose' \cup tags'
      <3>1. CASE t = tab
        BY <1>2, <1>4, <3>1
      <3>2. CASE t # tab
        BY <1>2, <1>4, <3>2 DEF WatchInv, NamesFine
      <3> QED
        BY <3>1, <3>2
    <2> QED
      BY <2>1 DEF NamesFine, W!Named
  <1>9. RowsFine'
    BY <1>2 DEF WatchInv, RowsFine, W!UnfollowedIsSilent, W!OtherNetworkIsLeft, W!FreeThresholds
  <1>10. RoomsFine'
    <2>1. W!TaxRows' = W!TaxRows
      BY <1>2 DEF W!TaxRows
    <2>2. tab \notin TaxTabs /\ tab \notin HookTabs
      BY PlansDiffer DEF TaxTabs, HookTabs
    <2>3. PICK rest, tabs, taxTabs, hookTabs :
            /\ rest = Cardinality(W!TaxRows) /\ tabs = Cardinality(Tabs)
            /\ taxTabs = Cardinality(TaxTabs') /\ hookTabs = Cardinality(HookTabs')
      OBVIOUS
    <2>4. /\ rest \in Nat /\ tabs \in Nat /\ taxTabs \in Nat /\ hookTabs \in Nat
          /\ taxTabs <= tabs /\ hookTabs <= tabs
      BY <1>7, <2>3, SomeTabs, FS_CardinalityType DEF WatchInv, RoomsFine
    <2>5. TaxLimit \in Nat /\ hooks \in Nat /\ MaxWebhooks[plan] \in Nat
      BY WatchlistConstants DEF WatchInv, WatchTypes
    <2>6. rest + taxTabs < TaxLimit + tabs
      <3>1. CASE Taxing(ops)
        <4>1. ~ Plain(ops) /\ ~ Hooking(ops)
          BY <3>1, PlansDiffer
        <4>2. rest < TaxLimit
          BY <1>1, <2>3, <4>1 DEF Planned
        <4> QED
          BY <2>4, <2>5, <4>2
      <3>2. CASE ~ Taxing(ops)
        <4>1. TaxTabs' = TaxTabs
          BY <1>7, <2>2, <3>2
        <4>2. rest + Cardinality(TaxTabs) < TaxLimit + tabs
          BY <2>3 DEF WatchInv, RoomsFine
        <4> QED
          BY <2>3, <4>1, <4>2
      <3> QED
        BY <3>1, <3>2
    <2>7. hooks + hookTabs < MaxWebhooks[plan] + tabs
      <3>1. CASE Hooking(ops)
        <4>1. ~ Plain(ops) /\ ~ Taxing(ops)
          BY <3>1, PlansDiffer
        <4>2. hooks < MaxWebhooks[plan]
          BY <1>1, <4>1 DEF Planned
        <4> QED
          BY <2>4, <2>5, <4>2
      <3>2. CASE ~ Hooking(ops)
        <4>1. HookTabs' = HookTabs
          BY <1>7, <2>2, <3>2
        <4>2. hooks + Cardinality(HookTabs) < MaxWebhooks[plan] + tabs
          BY <2>3 DEF WatchInv, RoomsFine
        <4> QED
          BY <2>3, <4>1, <4>2
      <3> QED
        BY <3>1, <3>2
    <2> QED
      BY <1>2, <2>1, <2>3, <2>6, <2>7 DEF WatchInv, RoomsFine
  <1> QED
    BY <1>5, <1>7, <1>8, <1>9, <1>10 DEF WatchInv

\* What the tab still has to do.
LEMMA OnwardIs ==
    ASSUME WatchTypes, NEW tab \in Tabs, NEW ops, W!Onward(tab, ops)
    PROVE  /\ DOMAIN running' = Tabs /\ running'[tab].ops = ops
           /\ \A t \in Tabs \ {tab} : running'[t].ops = running[t].ops
           /\ \A t \in Tabs : DOMAIN running'[t] = {"ops", "on", "off", "alone"}
  <1>1. running' = [t \in Tabs |-> IF t # tab THEN [running[t] EXCEPT !.alone = FALSE]
                             ELSE IF ops = <<>> THEN W!Idle ELSE [running[t] EXCEPT !.ops = ops]]
    BY DEF W!Onward
  <1>2. W!Idle.ops = <<>> /\ DOMAIN W!Idle = {"ops", "on", "off", "alone"}
    BY DEF W!Idle
  <1>3. DOMAIN running = Tabs /\ \A t \in Tabs : DOMAIN running[t] = {"ops", "on", "off", "alone"}
    BY DEF WatchTypes
  <1>4. ASSUME NEW t \in Tabs, t # tab
        PROVE  running'[t].ops = running[t].ops /\ DOMAIN running'[t] = {"ops", "on", "off", "alone"}
    <2>1. running'[t] = [running[t] EXCEPT !.alone = FALSE]
      BY <1>1, <1>4
    <2> QED
      BY <1>3, <2>1
  <1>5. running'[tab].ops = ops /\ DOMAIN running'[tab] = {"ops", "on", "off", "alone"}
    <2>1. running'[tab] = IF ops = <<>> THEN W!Idle ELSE [running[tab] EXCEPT !.ops = ops]
      BY <1>1
    <2>2. CASE ops = <<>>
      BY <1>2, <2>1, <2>2
    <2>3. CASE ops # <<>>
      <3>1. running'[tab] = [running[tab] EXCEPT !.ops = ops]
        BY <2>1, <2>3
      <3> QED
        BY <1>3, <3>1
    <2> QED
      BY <2>2, <2>3
  <1>6. DOMAIN running' = Tabs
    BY <1>1
  <1> QED
    BY <1>4, <1>5, <1>6

\* A set of at most one element more.
LEMMA OneMore ==
    ASSUME NEW S, IsFiniteSet(S), NEW x, NEW T, T \subseteq S \cup {x}
    PROVE  /\ IsFiniteSet(T) /\ Cardinality(T) \in Nat /\ Cardinality(T) <= Cardinality(S) + 1
           /\ T \subseteq S => Cardinality(T) <= Cardinality(S)
  <1>1. Cardinality(S) \in Nat
    BY FS_CardinalityType
  <1>2. /\ IsFiniteSet(S \cup {x}) /\ Cardinality(S \cup {x}) \in Nat
        /\ Cardinality(S \cup {x}) <= Cardinality(S) + 1
    <2>1. CASE x \in S
      <3>1. PICK U : U = S \cup {x}
        OBVIOUS
      <3>2. U = S
        BY <2>1, <3>1
      <3>3. IsFiniteSet(U) /\ Cardinality(U) \in Nat /\ Cardinality(U) <= Cardinality(S) + 1
        BY <1>1, <3>2
      <3> QED
        BY <3>1, <3>3
    <2>2. CASE x \notin S
      <3>1. IsFiniteSet(S \cup {x}) /\ Cardinality(S \cup {x}) = Cardinality(S) + 1
        BY <2>2, FS_AddElement
      <3> QED
        BY <1>1, <3>1
    <2> QED
      BY <2>1, <2>2
  <1>3. IsFiniteSet(T) /\ Cardinality(T) \in Nat /\ Cardinality(T) <= Cardinality(S \cup {x})
    BY <1>2, FS_Subset, FS_CardinalityType
  <1>4. T \subseteq S => Cardinality(T) <= Cardinality(S)
    BY FS_Subset
  <1> QED
    BY <1>1, <1>2, <1>3, <1>4

\* A request that was counted makes room for its row.
LEMMA RoomsAfter ==
    ASSUME WatchInv, NEW tab \in Tabs, plan' = plan,
           TaxTabs \in SUBSET Tabs, TaxTabs' = TaxTabs \ {tab},
           HookTabs \in SUBSET Tabs, HookTabs' = HookTabs \ {tab},
           NEW key, W!TaxRows' \subseteq W!TaxRows \cup {key},
           tab \in TaxTabs \/ W!TaxRows' \subseteq W!TaxRows,
           hooks' \in Nat, hooks' <= hooks \/ (tab \in HookTabs /\ hooks' <= hooks + 1)
    PROVE  RoomsFine'
  <1>1. PICK rest, taxTabs, hookTabs, tabs :
          /\ rest = Cardinality(W!TaxRows) /\ tabs = Cardinality(Tabs)
          /\ taxTabs = Cardinality(TaxTabs) /\ hookTabs = Cardinality(HookTabs)
    OBVIOUS
  <1>2. /\ IsFiniteSet(W!TaxRows) /\ rest \in Nat /\ taxTabs \in Nat /\ hookTabs \in Nat /\ tabs \in Nat
        /\ rest + taxTabs < TaxLimit + tabs
        /\ hooks + hookTabs < MaxWebhooks[plan] + tabs
    BY <1>1, SomeTabs, WatchlistConstants, FS_CardinalityType DEF WatchInv, RoomsFine
  <1>3. /\ TaxLimit \in Nat /\ MaxWebhooks[plan] \in Nat /\ hooks \in Nat
    BY WatchlistConstants DEF WatchInv, WatchTypes
  <1>4. PICK restAfter, taxAfter, hookAfter :
          /\ restAfter = Cardinality(W!TaxRows')
          /\ taxAfter = Cardinality(TaxTabs') /\ hookAfter = Cardinality(HookTabs')
    OBVIOUS
  <1>5. /\ taxAfter \in Nat /\ taxAfter <= taxTabs /\ (tab \in TaxTabs => taxAfter = taxTabs - 1)
        /\ hookAfter \in Nat /\ hookAfter <= hookTabs /\ (tab \in HookTabs => hookAfter = hookTabs - 1)
    BY <1>1, <1>4, SomeTabs
  <1>6. /\ IsFiniteSet(W!TaxRows') /\ restAfter \in Nat
        /\ restAfter <= rest \/ (tab \in TaxTabs /\ restAfter <= rest + 1)
    <2>1. /\ IsFiniteSet(W!TaxRows') /\ restAfter \in Nat
          /\ restAfter <= rest + 1
          /\ W!TaxRows' \subseteq W!TaxRows => restAfter <= rest
      BY <1>1, <1>2, <1>4, OneMore
    <2> QED
      BY <2>1
  <1>7. restAfter + taxAfter < TaxLimit + tabs
    BY <1>2, <1>3, <1>5, <1>6
  <1>8. hooks' + hookAfter < MaxWebhooks[plan] + tabs
    BY <1>2, <1>3, <1>5
  <1> QED
    BY <1>1, <1>4, <1>6, <1>7, <1>8 DEF RoomsFine

\* No row of a tax report more.
LEMMA RoomsStay ==
    ASSUME WatchInv, NEW tab \in Tabs, plan' = plan,
           TaxTabs \in SUBSET Tabs, TaxTabs' = TaxTabs \ {tab},
           HookTabs \in SUBSET Tabs, HookTabs' = HookTabs \ {tab},
           W!TaxRows' \subseteq W!TaxRows,
           hooks' \in Nat, hooks' <= hooks \/ (tab \in HookTabs /\ hooks' <= hooks + 1)
    PROVE  RoomsFine'
  <1>1. W!TaxRows' \subseteq W!TaxRows \cup {tab}
    OBVIOUS
  <1> QED
    BY <1>1, RoomsAfter

\* A handler goes on with a plain rest of its plan.
LEMMA GoesOn ==
    ASSUME WatchInv, NEW tab \in Tabs, NEW ops, Plain(ops), plan' = plan,
           running'[tab].ops = ops, \A t \in Tabs \ {tab} : running'[t].ops = running[t].ops
    PROVE  /\ PlansFine'
           /\ TaxTabs \in SUBSET Tabs /\ TaxTabs' = TaxTabs \ {tab}
           /\ HookTabs \in SUBSET Tabs /\ HookTabs' = HookTabs \ {tab}
           /\ loose \cup tags \subseteq loose' \cup tags' /\ W!Named(ops) \subseteq loose' \cup tags'
                => NamesFine'
  <1>1. ~ Taxing(ops) /\ ~ Hooking(ops)
    BY PlansDiffer
  <1>2. /\ PlansFine'
        /\ TaxTabs \in SUBSET Tabs /\ TaxTabs' = TaxTabs \ {tab}
        /\ HookTabs \in SUBSET Tabs /\ HookTabs' = HookTabs \ {tab}
    BY <1>1, OneTabMoves DEF WatchInv
  <1>3. ASSUME loose \cup tags \subseteq loose' \cup tags', W!Named(ops) \subseteq loose' \cup tags'
        PROVE  NamesFine'
    <2>1. ASSUME NEW t \in Tabs
          PROVE  W!Named(running'[t].ops) \subseteq loose' \cup tags'
      <3>1. CASE t = tab
        BY <1>3, <3>1
      <3>2. CASE t # tab
        BY <1>3, <3>2 DEF WatchInv, NamesFine
      <3> QED
        BY <3>1, <3>2
    <2> QED
      BY <2>1 DEF NamesFine, W!Named
  <1> QED
    BY <1>2, <1>3

\* What an operation finds: the handler's rest, and what it was.
LEMMA RunFinds ==
    ASSUME WatchInv, NEW tab \in Tabs, running[tab].ops # <<>>
    PROVE  LET ops == running[tab].ops
           IN /\ \/ Head(ops) \in PlainOps
                 \/ Head(ops) \in TaxOps /\ tab \in TaxTabs
                 \/ Head(ops) \in HookOps /\ tab \in HookTabs
              /\ Plain(Tail(ops)) /\ W!Named(Tail(ops)) \subseteq loose \cup tags
              /\ Head(ops).op = "add" /\ Head(ops).key[3] \in Validators
                   => Head(ops).key[3] \in loose \cup tags
  <1>1. PICK ops : ops = running[tab].ops
    OBVIOUS
  <1>2. Plain(ops) \/ Taxing(ops) \/ Hooking(ops)
    BY <1>1 DEF WatchInv, PlansFine
  <1>3. W!Named(ops) \subseteq loose \cup tags
    BY <1>1 DEF WatchInv, NamesFine
  <1>4. /\ \/ Head(ops) \in PlainOps /\ Plain(ops)
           \/ Head(ops) \in TaxOps /\ Taxing(ops)
           \/ Head(ops) \in HookOps /\ Hooking(ops)
        /\ Plain(Tail(ops)) /\ W!Named(Tail(ops)) \subseteq W!Named(ops)
        /\ Head(ops).op = "add" /\ Head(ops).key[3] \in Validators
             => Head(ops).key[3] \in W!Named(ops)
    BY <1>1, <1>2, HeadAndTail
  <1>5. (Taxing(ops) => tab \in TaxTabs) /\ (Hooking(ops) => tab \in HookTabs)
    BY <1>1 DEF TaxTabs, HookTabs
  <1> QED
    BY <1>1, <1>3, <1>4, <1>5

\* What kind of operation it is.
LEMMA KindOf ==
    ASSUME NEW op, op \in PlainOps \cup TaxOps \cup HookOps
    PROVE  /\ op.op = "tag" => op.vs \in SUBSET Validators
           /\ op.op = "untag" => op.vs \in SUBSET Validators
           /\ op.op = "add" => op \in PlainAdd \cup TaxOps
           /\ op.op = "delete" => op.keys \in SUBSET PlanKeys
           /\ op.op = "each" => op \in Eaching
           /\ op.op = "hook" => op.add \in {-1, 1} /\ (op.add = 1 => op \in HookOps)
           /\ op \in TaxOps => op.op = "add"
           /\ op \in HookOps => op.op = "hook"
  BY DEF PlainOps, PlainAdd, TaxOps, HookOps, Tagging, Deleting, Eaching, Unhook

\* AddToWatchlist.
LEMMA RunTagKeeps ==
    ASSUME WatchInv, NEW tab \in Tabs, running[tab].ops # <<>>,
           W!RunTag(tab, Head(running[tab].ops)), UNCHANGED <<plan, asked, failed>>
    PROVE  WatchInv'
  <1>1. PICK op, rest : op = Head(running[tab].ops) /\ rest = Tail(running[tab].ops)
    OBVIOUS
  <1>2. /\ op.op = "tag" /\ tags' = tags \cup op.vs /\ W!Onward(tab, rest)
        /\ UNCHANGED <<subs, hooks, loose>>
    BY <1>1 DEF W!RunTag
  <1>3. /\ op \in PlainOps \cup TaxOps \cup HookOps
        /\ Plain(rest) /\ W!Named(rest) \subseteq loose \cup tags
    BY <1>1, RunFinds
  <1>4. op.vs \in SUBSET Validators
    BY <1>2, <1>3, KindOf
  <1>5. /\ DOMAIN running' = Tabs /\ running'[tab].ops = rest
        /\ \A t \in Tabs \ {tab} : running'[t].ops = running[t].ops
        /\ \A t \in Tabs : DOMAIN running'[t] = {"ops", "on", "off", "alone"}
    BY <1>2, OnwardIs DEF WatchInv
  <1>6. /\ PlansFine'
        /\ TaxTabs \in SUBSET Tabs /\ TaxTabs' = TaxTabs \ {tab}
        /\ HookTabs \in SUBSET Tabs /\ HookTabs' = HookTabs \ {tab}
        /\ NamesFine'
    BY <1>2, <1>3, <1>5, GoesOn
  <1>7. WatchTypes'
    BY <1>2, <1>4, <1>5 DEF WatchInv, WatchTypes
  <1>8. RowsFine'
    BY <1>2 DEF WatchInv, RowsFine, W!UnfollowedIsSilent, W!OtherNetworkIsLeft, W!FreeThresholds
  <1>9. RoomsFine'
    <2>1. W!TaxRows' = W!TaxRows
      BY <1>2 DEF W!TaxRows
    <2>2. hooks \in Nat /\ hooks' = hooks
      BY <1>2 DEF WatchInv, WatchTypes
    <2> QED
      BY <1>6, <2>1, <2>2, RoomsStay
  <1> QED
    BY <1>6, <1>7, <1>8, <1>9 DEF WatchInv

\* RemoveFromWatchlist: the tags go with the rows of this network.
LEMMA RunUntagKeeps ==
    ASSUME WatchInv, NEW tab \in Tabs, running[tab].ops # <<>>,
           W!RunUntag(tab, Head(running[tab].ops)), UNCHANGED <<plan, asked, failed>>
    PROVE  WatchInv'
  <1>1. PICK op, rest : op = Head(running[tab].ops) /\ rest = Tail(running[tab].ops)
    OBVIOUS
  <1>2. PICK vs : vs = op.vs
    OBVIOUS
  <1>3. /\ op.op = "untag" /\ tags' = tags \ vs /\ subs' = W!Without(W!SubsOf(vs))
        /\ W!Onward(tab, rest) /\ hooks' = hooks
        /\ loose' = (loose \ vs) \cup (vs \cap W!Pending)
    BY <1>1, <1>2 DEF W!RunUntag
  <1>4. /\ op \in PlainOps \cup TaxOps \cup HookOps
        /\ Plain(rest) /\ W!Named(rest) \subseteq loose \cup tags
    BY <1>1, RunFinds
  <1>5. vs \in SUBSET Validators
    BY <1>2, <1>3, <1>4, KindOf
  <1>6. /\ DOMAIN running' = Tabs /\ running'[tab].ops = rest
        /\ \A t \in Tabs \ {tab} : running'[t].ops = running[t].ops
        /\ \A t \in Tabs : DOMAIN running'[t] = {"ops", "on", "off", "alone"}
    BY <1>3, OnwardIs DEF WatchInv
  <1>7. /\ PlansFine'
        /\ TaxTabs \in SUBSET Tabs /\ TaxTabs' = TaxTabs \ {tab}
        /\ HookTabs \in SUBSET Tabs /\ HookTabs' = HookTabs \ {tab}
    BY <1>4, <1>6, GoesOn
  <1>8. \A t \in Tabs : W!Named(running'[t].ops) \subseteq W!Pending
    BY DEF W!Pending
  <1>9. NamesFine'
    <2>1. ASSUME NEW t \in Tabs, NEW v \in W!Named(running'[t].ops)
          PROVE  v \in loose' \cup tags'
      <3>1. v \in W!Pending
        BY <1>8, <2>1
      <3>2. v \in loose \cup tags
        <4>1. CASE t = tab
          BY <1>4, <1>6, <2>1, <4>1
        <4>2. CASE t # tab
          <5>1. W!Named(running[t].ops) \subseteq loose \cup tags
            BY DEF WatchInv, NamesFine
          <5> QED
            BY <1>6, <2>1, <4>2, <5>1
        <4> QED
          BY <4>1, <4>2
      <3> QED
        BY <1>3, <3>1, <3>2
    <2> QED
      BY <2>1 DEF NamesFine, W!Named
  <1>10. /\ RowsFine' /\ DOMAIN subs' \subseteq W!Networks \X W!EventNames \X W!Filters
         /\ \A k \in DOMAIN subs' : subs'[k] \in W!Thresholds
         /\ W!TaxRows' \subseteq W!TaxRows
    <2>1. \A k \in W!SubsOf(vs) : k[1] # "other"
      BY DEF W!SubsOf, W!Home
    <2>2. ASSUME NEW k \in DOMAIN subs, k[1] = W!Home, k[3] \in Validators \ tags', k \notin W!SubsOf(vs)
          PROVE  k[3] \in loose'
      <3>1. k[3] \notin vs
        BY <2>2 DEF W!SubsOf
      <3>2. k[3] \in Validators \ tags
        BY <1>3, <2>2, <3>1
      <3>3. k[3] \in loose
        BY <2>2, <3>2 DEF WatchInv, RowsFine, W!UnfollowedIsSilent
      <3> QED
        BY <1>3, <3>1, <3>3
    <2> QED
      BY <1>3, <2>1, <2>2, DeleteFits DEF WatchInv
  <1>11. WatchTypes'
    <2>1. tags' \subseteq Validators /\ loose' \subseteq Validators
      BY <1>3, <1>5 DEF WatchInv, WatchTypes
    <2> QED
      BY <1>3, <1>6, <1>10, <2>1 DEF WatchInv, WatchTypes
  <1>12. RoomsFine'
    <2>1. hooks \in Nat /\ hooks' = hooks
      BY <1>3 DEF WatchInv, WatchTypes
    <2> QED
      BY <1>7, <1>10, <2>1, RoomsStay
  <1> QED
    BY <1>7, <1>9, <1>10, <1>11, <1>12 DEF WatchInv

\* AddSubscription: the name is loose or followed, the threshold fits the plan,
\* and a tax report was counted.
LEMMA RunAddKeeps ==
    ASSUME WatchInv, NEW tab \in Tabs, running[tab].ops # <<>>,
           W!RunAdd(tab, Head(running[tab].ops)), UNCHANGED <<plan, asked, failed>>
    PROVE  WatchInv'
  <1>1. PICK op, rest : op = Head(running[tab].ops) /\ rest = Tail(running[tab].ops)
    OBVIOUS
  <1>2. /\ op.op = "add" /\ subs' = W!WithSub(op.key, op.threshold) /\ W!Onward(tab, rest)
        /\ UNCHANGED <<tags, hooks, loose>>
    BY <1>1 DEF W!RunAdd
  <1>3. /\ op \in PlainOps \/ (op \in TaxOps /\ tab \in TaxTabs) \/ op \in HookOps
        /\ Plain(rest) /\ W!Named(rest) \subseteq loose \cup tags
        /\ op.key[3] \in Validators => op.key[3] \in loose \cup tags
    BY <1>1, <1>2, RunFinds
  <1>4. /\ op \in PlainAdd \cup TaxOps
        /\ op \in TaxOps => tab \in TaxTabs
    <2>1. op \in PlainAdd \cup TaxOps
      BY <1>2, <1>3, KindOf
    <2>2. op \in TaxOps => op \notin PlainOps /\ op \notin HookOps
      <3>1. op \in TaxOps => op.key[2] = "tax"
        BY DEF TaxOps
      <3> QED
        BY <1>2, <3>1 DEF PlainOps, PlainAdd, Tagging, Deleting, Eaching, Unhook, HookOps
    <2> QED
      BY <1>3, <2>1, <2>2
  <1>5. PICK key, t : key = op.key /\ t = op.threshold
    OBVIOUS
  <1>6. /\ key \in PlanKeys /\ t \in W!Thresholds /\ Frees(key[2], t)
        /\ key[2] # "tax" \/ tab \in TaxTabs
    <2>1. CASE op \in PlainAdd
      BY <1>5, <2>1 DEF PlainAdd
    <2>2. CASE op \in TaxOps
      <3>1. key \in {W!Home} \X {"tax"} \X W!TaxReports /\ t = "zero"
        BY <1>5, <2>2 DEF TaxOps
      <3>2. key \in PlanKeys
        BY <3>1 DEF PlanKeys, W!EventNames, W!Filters
      <3>3. key[2] = "tax" /\ t \in W!Thresholds
        BY <3>1 DEF W!Thresholds
      <3> QED
        BY <1>4, <2>2, <3>2, <3>3 DEF Frees
    <2> QED
      BY <1>4, <2>1, <2>2
  <1>7. /\ DOMAIN running' = Tabs /\ running'[tab].ops = rest
        /\ \A x \in Tabs \ {tab} : running'[x].ops = running[x].ops
        /\ \A x \in Tabs : DOMAIN running'[x] = {"ops", "on", "off", "alone"}
    BY <1>2, OnwardIs DEF WatchInv
  <1>8. /\ PlansFine'
        /\ TaxTabs \in SUBSET Tabs /\ TaxTabs' = TaxTabs \ {tab}
        /\ HookTabs \in SUBSET Tabs /\ HookTabs' = HookTabs \ {tab}
        /\ NamesFine'
    BY <1>2, <1>3, <1>7, GoesOn
  <1>9. /\ RowsFine' /\ DOMAIN subs' \subseteq W!Networks \X W!EventNames \X W!Filters
        /\ \A k \in DOMAIN subs' : subs'[k] \in W!Thresholds
        /\ W!TaxRows' \subseteq W!TaxRows \cup {key}
        /\ key[2] # "tax" => W!TaxRows' = W!TaxRows
    BY <1>2, <1>3, <1>5, <1>6, AddFits DEF WatchInv
  <1>10. WatchTypes'
    BY <1>2, <1>7, <1>9 DEF WatchInv, WatchTypes
  <1>11. RoomsFine'
    <2>1. hooks \in Nat /\ hooks' = hooks
      BY <1>2 DEF WatchInv, WatchTypes
    <2>2. tab \in TaxTabs \/ W!TaxRows' \subseteq W!TaxRows
      BY <1>6, <1>9
    <2> QED
      BY <1>8, <1>9, <2>1, <2>2, RoomsAfter
  <1> QED
    BY <1>8, <1>9, <1>10, <1>11 DEF WatchInv

\* DeleteSubscription and the like: rows of this network or of none.
LEMMA RunDeleteKeeps ==
    ASSUME WatchInv, NEW tab \in Tabs, running[tab].ops # <<>>,
           W!RunDelete(tab, Head(running[tab].ops)), UNCHANGED <<plan, asked, failed>>
    PROVE  WatchInv'
  <1>1. PICK op, rest : op = Head(running[tab].ops) /\ rest = Tail(running[tab].ops)
    OBVIOUS
  <1>2. PICK keys : keys = op.keys
    OBVIOUS
  <1>3. /\ op.op = "delete" /\ subs' = W!Without(keys) /\ W!Onward(tab, rest)
        /\ UNCHANGED <<tags, hooks, loose>>
    BY <1>1, <1>2 DEF W!RunDelete
  <1>4. /\ op \in PlainOps \cup TaxOps \cup HookOps
        /\ Plain(rest) /\ W!Named(rest) \subseteq loose \cup tags
    BY <1>1, RunFinds
  <1>5. keys \in SUBSET PlanKeys
    BY <1>2, <1>3, <1>4, KindOf
  <1>6. /\ DOMAIN running' = Tabs /\ running'[tab].ops = rest
        /\ \A x \in Tabs \ {tab} : running'[x].ops = running[x].ops
        /\ \A x \in Tabs : DOMAIN running'[x] = {"ops", "on", "off", "alone"}
    BY <1>3, OnwardIs DEF WatchInv
  <1>7. /\ PlansFine'
        /\ TaxTabs \in SUBSET Tabs /\ TaxTabs' = TaxTabs \ {tab}
        /\ HookTabs \in SUBSET Tabs /\ HookTabs' = HookTabs \ {tab}
        /\ NamesFine'
    BY <1>3, <1>4, <1>6, GoesOn
  <1>8. /\ RowsFine' /\ DOMAIN subs' \subseteq W!Networks \X W!EventNames \X W!Filters
        /\ \A k \in DOMAIN subs' : subs'[k] \in W!Thresholds
        /\ W!TaxRows' \subseteq W!TaxRows
    <2>1. \A k \in keys : k[1] # "other"
      BY <1>5 DEF PlanKeys, W!Home
    <2>2. \A k \in DOMAIN subs : k[1] = W!Home /\ k[3] \in Validators \ tags' /\ k \notin keys
                                   => k[3] \in loose'
      BY <1>3 DEF WatchInv, RowsFine, W!UnfollowedIsSilent
    <2> QED
      BY <1>3, <2>1, <2>2, DeleteFits DEF WatchInv
  <1>9. WatchTypes'
    BY <1>3, <1>6, <1>8 DEF WatchInv, WatchTypes
  <1>10. RoomsFine'
    <2>1. hooks \in Nat /\ hooks' = hooks
      BY <1>3 DEF WatchInv, WatchTypes
    <2> QED
      BY <1>7, <1>8, <2>1, RoomsStay
  <1> QED
    BY <1>7, <1>8, <1>9, <1>10 DEF WatchInv

\* The greater one of two numbers.
LEMMA NotBelowZero ==
    ASSUME NEW n \in Int
    PROVE  W!Max({0, n}) \in Nat /\ (n > 0 => W!Max({0, n}) = n) /\ (n <= 0 => W!Max({0, n}) = 0)
  <1>1. \A S : W!Max(S) = CHOOSE x \in S : \A y \in S : x >= y
    BY Zenon DEF W!Max
  <1>2. PICK x : x = IF n > 0 THEN n ELSE 0
    OBVIOUS
  <1>3. x \in {0, n} /\ \A y \in {0, n} : x >= y
    BY <1>2
  <1>4. W!Max({0, n}) \in {0, n} /\ \A y \in {0, n} : W!Max({0, n}) >= y
    BY <1>1, <1>3
  <1> QED
    BY <1>4

\* Webhooks: one that was counted is added, or one is deleted.
LEMMA RunHookKeeps ==
    ASSUME WatchInv, NEW tab \in Tabs, running[tab].ops # <<>>,
           W!RunHook(tab, Head(running[tab].ops)), UNCHANGED <<plan, asked, failed>>
    PROVE  WatchInv'
  <1>1. PICK op, rest : op = Head(running[tab].ops) /\ rest = Tail(running[tab].ops)
    OBVIOUS
  <1>2. PICK n : n = op.add
    OBVIOUS
  <1>3. /\ op.op = "hook" /\ hooks' = W!Max({0, hooks + n}) /\ W!Onward(tab, rest)
        /\ UNCHANGED <<tags, subs, loose>>
    BY <1>1, <1>2 DEF W!RunHook
  <1>4. /\ op \in PlainOps \/ op \in TaxOps \/ (op \in HookOps /\ tab \in HookTabs)
        /\ Plain(rest) /\ W!Named(rest) \subseteq loose \cup tags
    BY <1>1, RunFinds
  <1>5. n \in {-1, 1} /\ (n = 1 => tab \in HookTabs)
    <2>1. op.add \in {-1, 1} /\ (op.add = 1 => op \in HookOps)
      BY <1>3, <1>4, KindOf
    <2>2. op \in HookOps => op \notin PlainOps /\ op \notin TaxOps
      BY DEF PlainOps, PlainAdd, Tagging, Deleting, Eaching, Unhook, HookOps, TaxOps
    <2> QED
      BY <1>2, <1>4, <2>1, <2>2
  <1>6. hooks \in Nat
    BY DEF WatchInv, WatchTypes
  <1>7. hooks' \in Nat /\ (hooks' <= hooks \/ (tab \in HookTabs /\ hooks' <= hooks + 1))
    <2>1. PICK m \in Int : m = hooks + n
      BY <1>5, <1>6
    <2>2. /\ hooks' \in Nat /\ (m > 0 => hooks' = m) /\ (m <= 0 => hooks' = 0)
      BY <1>3, <2>1, NotBelowZero
    <2> QED
      BY <1>5, <1>6, <2>1, <2>2
  <1>8. /\ DOMAIN running' = Tabs /\ running'[tab].ops = rest
        /\ \A x \in Tabs \ {tab} : running'[x].ops = running[x].ops
        /\ \A x \in Tabs : DOMAIN running'[x] = {"ops", "on", "off", "alone"}
    BY <1>3, OnwardIs DEF WatchInv
  <1>9. /\ PlansFine'
        /\ TaxTabs \in SUBSET Tabs /\ TaxTabs' = TaxTabs \ {tab}
        /\ HookTabs \in SUBSET Tabs /\ HookTabs' = HookTabs \ {tab}
        /\ NamesFine'
    BY <1>3, <1>4, <1>8, GoesOn
  <1>10. WatchTypes'
    BY <1>3, <1>7, <1>8 DEF WatchInv, WatchTypes
  <1>11. RowsFine'
    BY <1>3 DEF WatchInv, RowsFine, W!UnfollowedIsSilent, W!OtherNetworkIsLeft, W!FreeThresholds
  <1>12. RoomsFine'
    <2>1. W!TaxRows' = W!TaxRows
      BY <1>3 DEF W!TaxRows
    <2> QED
      BY <1>7, <1>9, <2>1, RoomsStay
  <1> QED
    BY <1>9, <1>10, <1>11, <1>12 DEF WatchInv

\* The operations of lists after each other.
LEMMA NamedOfJoined ==
    ASSUME NEW first, NEW second, Plain(first), Plain(second)
    PROVE  W!Named(first \o second) \subseteq W!Named(first) \cup W!Named(second)
  <1>1. PICK both : both = first \o second
    OBVIOUS
  <1>2. /\ Len(first) \in Nat /\ DOMAIN first = 1 .. Len(first) /\ DOMAIN second = 1 .. Len(second)
        /\ Len(second) \in Nat /\ DOMAIN both = 1 .. Len(first) + Len(second)
        /\ \A i \in DOMAIN both : both[i] = IF i <= Len(first) THEN first[i] ELSE second[i - Len(first)]
    BY <1>1 DEF Plain
  <1>3. ASSUME NEW v \in W!Named(both)
        PROVE  v \in W!Named(first) \cup W!Named(second)
    <2>1. PICK i \in DOMAIN both : v \in Validators /\ both[i].op = "add" /\ both[i].key[3] = v
      BY NamedAre
    <2>2. CASE i <= Len(first)
      <3>1. i \in DOMAIN first /\ first[i] = both[i]
        BY <1>2, <2>2
      <3> QED
        BY <2>1, <3>1, NamedAre
    <2>3. CASE ~ (i <= Len(first))
      <3>1. i - Len(first) \in DOMAIN second /\ second[i - Len(first)] = both[i]
        BY <1>2, <2>3
      <3> QED
        BY <2>1, <3>1, NamedAre
    <2> QED
      BY <2>2, <2>3
  <1> QED
    BY <1>1, <1>3

\* The smaller one of two numbers.
LEMMA LesserOfTwo ==
    ASSUME NEW m \in Nat, NEW n \in Nat
    PROVE  W!Min({m, n}) \in Nat /\ W!Min({m, n}) <= m
  <1>1. \A S : W!Min(S) = CHOOSE x \in S : \A y \in S : x <= y
    BY Zenon DEF W!Min
  <1>2. PICK x : x = IF m <= n THEN m ELSE n
    OBVIOUS
  <1>3. x \in {m, n} /\ \A y \in {m, n} : x <= y
    BY <1>2
  <1>4. W!Min({m, n}) \in {m, n} /\ \A y \in {m, n} : W!Min({m, n}) <= y
    BY <1>1, <1>3
  <1> QED
    BY <1>4

\* What a subscription to all followed validators becomes: it names no others.
LEMMA ExpandedIs ==
    ASSUME WatchTypes, NEW op \in Eaching, NEW order \in W!SetToSeqs(W!Listed(op.list))
    PROVE  Plain(W!Expanded(op, order)) /\ W!Named(W!Expanded(op, order)) \subseteq tags
  <1>1. PICK listed, e, t : listed = W!Listed(op.list) /\ e = op.event /\ t = op.threshold
    OBVIOUS
  <1>2. /\ e \in W!EventNames /\ e # "machine" /\ e # "tax"
        /\ t \in W!Thresholds \/ t = W!Removes
    BY <1>1 DEF Eaching
  <1>3. /\ listed \subseteq W!Filters /\ listed \cap Validators \subseteq tags
        /\ IsFiniteSet(listed)
    <2>1. tags \subseteq Validators /\ IsFiniteSet(tags)
      BY WatchlistConstants, FS_Subset DEF WatchTypes
    <2>2. CASE op.list = "nodes"
      <3>1. listed = {NodeOf[v] : v \in tags}
        BY <1>1, <2>2 DEF W!Listed
      <3>2. IsFiniteSet({NodeOf[v] : v \in tags})
        <4>1. PICK f : f = [v \in tags |-> NodeOf[v]]
          OBVIOUS
        <4>2. f \in Surjection(tags, {NodeOf[v] : v \in tags})
          BY <4>1 DEF Surjection
        <4> QED
          BY <2>1, <4>2, FS_Surjection
      <3>3. \A v \in tags : NodeOf[v] \in W!Filters /\ NodeOf[v] \notin Validators
        BY <2>1, WatchlistConstants DEF W!Filters
      <3> QED
        BY <3>1, <3>2, <3>3
    <2>3. CASE op.list # "nodes"
      <3>1. listed = tags
        BY <1>1, <2>3 DEF W!Listed
      <3> QED
        BY <2>1, <3>1 DEF W!Filters
    <2> QED
      BY <2>2, <2>3
  <1>4. PICK c \in Nat : c = Cardinality(listed)
    BY <1>3, FS_CardinalityType
  <1>5. order \in [1 .. c -> listed]
    BY <1>1, <1>4, WatchlistConstants DEF W!SetToSeqs
  <1>6. order \in Seq(listed) /\ Len(order) = c
    BY <1>4, <1>5
  <1>7. PICK k : k = W!Min({Len(order), MaxValidators[plan] + 1})
    OBVIOUS
  <1>8. k \in Nat /\ k <= c
    BY <1>6, <1>7, LesserOfTwo, WatchlistConstants DEF WatchTypes
  <1>9. DOMAIN W!Cut(order) = 1 .. k
    BY <1>5, <1>6, <1>7, <1>8 DEF W!Cut
  <1>10. PICK ops : ops = W!Expanded(op, order)
    OBVIOUS
  <1>11. ops = [i \in 1 .. k |-> IF t = W!Removes THEN W!Delete(W!Home, e, order[i])
                                 ELSE W!Add(W!Home, e, order[i], t)]
    BY <1>1, <1>9, <1>10 DEF W!Expanded
  <1>12. ASSUME NEW i \in 1 .. k
         PROVE  /\ ops[i] \in PlainOps
                /\ ops[i].op = "add" => ops[i].key[3] = order[i]
                /\ order[i] \in listed
    <2>1. PICK f \in listed : f = order[i]
      BY <1>4, <1>5, <1>8
    <2>2. /\ W!Home \in {W!Home, ""} /\ f \in W!Filters
      BY <1>3
    <2>3. CASE t = W!Removes
      <3>1. ops[i] = W!Delete(W!Home, e, f)
        BY <1>11, <2>1, <2>3
      <3>2. W!Delete(W!Home, e, f) \in PlainOps
        BY <1>2, <2>2, OperationsArePlain
      <3>3. W!Delete(W!Home, e, f).op = "delete"
        BY DEF W!Delete
      <3> QED
        BY <2>1, <3>1, <3>2, <3>3
    <2>4. CASE t # W!Removes
      <3>1. ops[i] = W!Add(W!Home, e, f, t)
        BY <1>11, <2>1, <2>4
      <3>2. t \in W!Thresholds /\ Frees(e, t)
        BY <1>2, <2>4 DEF Frees
      <3>3. W!Add(W!Home, e, f, t) \in PlainOps
        BY <1>2, <2>2, <3>2, OperationsArePlain
      <3>4. W!Add(W!Home, e, f, t).key[3] = f
        BY DEF W!Add, W!AddedKey
      <3> QED
        BY <2>1, <3>1, <3>3, <3>4
    <2> QED
      BY <2>3, <2>4
  <1>13. DOMAIN ops = 1 .. k
    BY <1>11
  <1>14. Plain(ops)
    <2>1. ops = [i \in 1 .. k |-> ops[i]]
      BY <1>11
    <2>2. \A i \in 1 .. k : ops[i] \in PlainOps
      BY <1>12
    <2>3. ops \in [1 .. k -> PlainOps]
      BY ONLY <2>1, <2>2
    <2> QED
      BY <1>8, <2>3 DEF Plain
  <1>15. ASSUME NEW v \in W!Named(ops)
         PROVE  v \in tags
    <2>0. \E i \in DOMAIN ops : v \in Validators /\ ops[i].op = "add" /\ ops[i].key[3] = v
      BY ONLY <1>15, NamedAre
    <2>1. PICK i \in 1 .. k : v \in Validators /\ ops[i].op = "add" /\ ops[i].key[3] = v
      BY ONLY <1>13, <2>0
    <2> QED
      BY <1>3, <1>12, <2>1
  <1> QED
    BY <1>10, <1>14, <1>15

\* GetTaggedValidators: one operation becomes one for each validator of the list.
LEMMA RunEachKeeps ==
    ASSUME WatchInv, NEW tab \in Tabs, running[tab].ops # <<>>,
           W!RunEach(tab, Head(running[tab].ops)), UNCHANGED <<plan, asked, failed>>
    PROVE  WatchInv'
  <1>1. PICK op, rest : op = Head(running[tab].ops) /\ rest = Tail(running[tab].ops)
    OBVIOUS
  <1>2. PICK order \in W!SetToSeqs(W!Listed(op.list)) : W!Onward(tab, W!Expanded(op, order) \o rest)
    BY <1>1 DEF W!RunEach
  <1>3. op.op = "each" /\ UNCHANGED <<tags, subs, hooks, loose>>
    BY <1>1 DEF W!RunEach
  <1>4. /\ op \in PlainOps \cup TaxOps \cup HookOps
        /\ Plain(rest) /\ W!Named(rest) \subseteq loose \cup tags
    BY <1>1, RunFinds
  <1>5. op \in Eaching
    BY <1>3, <1>4, KindOf
  <1>6. PICK first : first = W!Expanded(op, order)
    OBVIOUS
  <1>7. Plain(first) /\ W!Named(first) \subseteq tags
    BY <1>2, <1>5, <1>6, ExpandedIs DEF WatchInv
  <1>8. PICK ops : ops = first \o rest
    OBVIOUS
  <1>9. Plain(ops) /\ W!Named(ops) \subseteq loose \cup tags
    BY <1>4, <1>7, <1>8, JoinedArePlain, NamedOfJoined
  <1>10. /\ DOMAIN running' = Tabs /\ running'[tab].ops = ops
         /\ \A x \in Tabs \ {tab} : running'[x].ops = running[x].ops
         /\ \A x \in Tabs : DOMAIN running'[x] = {"ops", "on", "off", "alone"}
    BY <1>2, <1>6, <1>8, OnwardIs DEF WatchInv
  <1>11. /\ PlansFine'
         /\ TaxTabs \in SUBSET Tabs /\ TaxTabs' = TaxTabs \ {tab}
         /\ HookTabs \in SUBSET Tabs /\ HookTabs' = HookTabs \ {tab}
         /\ NamesFine'
    BY <1>3, <1>9, <1>10, GoesOn
  <1>12. WatchTypes'
    BY <1>3, <1>10 DEF WatchInv, WatchTypes
  <1>13. RowsFine'
    BY <1>3 DEF WatchInv, RowsFine, W!UnfollowedIsSilent, W!OtherNetworkIsLeft, W!FreeThresholds
  <1>14. RoomsFine'
    <2>1. W!TaxRows' = W!TaxRows
      BY <1>3 DEF W!TaxRows
    <2>2. hooks \in Nat /\ hooks' = hooks
      BY <1>3 DEF WatchInv, WatchTypes
    <2> QED
      BY <1>11, <2>1, <2>2, RoomsStay
  <1> QED
    BY <1>11, <1>12, <1>13, <1>14 DEF WatchInv

\* An operation fails: the handler ends, or goes on with the rest.
LEMMA FailKeeps ==
    ASSUME WatchInv, NEW tab \in Tabs, W!Fail(tab)
    PROVE  WatchInv'
  <1>1. PICK old, rest : old = running[tab].ops /\ rest = Tail(running[tab].ops)
    OBVIOUS
  <1>2. /\ old # <<>> /\ failed < MaxFailed /\ failed' = failed + 1
        /\ running' = [running EXCEPT ![tab] =
             IF Head(old).op = "untag" /\ Len(old) > 1
             THEN [running[tab] EXCEPT !.ops = rest, !.off = {}] ELSE W!Idle]
        /\ UNCHANGED <<plan, tags, subs, hooks, loose, asked>>
    BY <1>1 DEF W!Fail
  <1>3. Plain(rest) /\ W!Named(rest) \subseteq loose \cup tags
    BY <1>1, <1>2, RunFinds
  <1>4. DOMAIN running = Tabs /\ \A x \in Tabs : DOMAIN running[x] = {"ops", "on", "off", "alone"}
    BY DEF WatchInv, WatchTypes
  <1>5. W!Idle.ops = <<>> /\ DOMAIN W!Idle = {"ops", "on", "off", "alone"}
    BY DEF W!Idle
  <1>6. PICK next : next = running'[tab]
    OBVIOUS
  <1>7. /\ DOMAIN next = {"ops", "on", "off", "alone"} /\ next.ops \in {rest, <<>>}
        /\ DOMAIN running' = Tabs /\ \A x \in Tabs : x # tab => running'[x] = running[x]
    <2>1. DOMAIN running' = Tabs /\ \A x \in Tabs : x # tab => running'[x] = running[x]
      BY <1>2, <1>4
    <2>2. next = [running[tab] EXCEPT !.ops = rest, !.off = {}] \/ next = W!Idle
      BY <1>2, <1>4, <1>6
    <2>3. CASE next = [running[tab] EXCEPT !.ops = rest, !.off = {}]
      <3>1. DOMAIN next = {"ops", "on", "off", "alone"} /\ next.ops = rest
        BY <1>4, <2>3
      <3> QED
        BY <2>1, <3>1
    <2>4. CASE next = W!Idle
      BY <1>5, <2>1, <2>4
    <2> QED
      BY <2>2, <2>3, <2>4
  <1>8. PICK ops : ops = next.ops
    OBVIOUS
  <1>9. Plain(ops) /\ W!Named(ops) \subseteq loose \cup tags
    BY <1>3, <1>7, <1>8, PlansDiffer
  <1>10. /\ running'[tab].ops = ops
         /\ \A x \in Tabs \ {tab} : running'[x].ops = running[x].ops
    BY <1>6, <1>7, <1>8
  <1>11. /\ PlansFine'
         /\ TaxTabs \in SUBSET Tabs /\ TaxTabs' = TaxTabs \ {tab}
         /\ HookTabs \in SUBSET Tabs /\ HookTabs' = HookTabs \ {tab}
         /\ NamesFine'
    BY <1>2, <1>9, <1>10, GoesOn
  <1>12. WatchTypes'
    <2>1. failed' \in 0 .. MaxFailed
      BY <1>2, WatchlistConstants DEF WatchInv, WatchTypes
    <2>2. \A x \in Tabs : DOMAIN running'[x] = {"ops", "on", "off", "alone"}
      BY <1>4, <1>6, <1>7
    <2> QED
      BY <1>2, <1>7, <2>1, <2>2 DEF WatchInv, WatchTypes
  <1>13. RowsFine'
    BY <1>2 DEF WatchInv, RowsFine, W!UnfollowedIsSilent, W!OtherNetworkIsLeft, W!FreeThresholds
  <1>14. RoomsFine'
    <2>1. W!TaxRows' = W!TaxRows
      BY <1>2 DEF W!TaxRows
    <2>2. hooks \in Nat /\ hooks' = hooks /\ plan' = plan
      BY <1>2 DEF WatchInv, WatchTypes
    <2> QED
      BY <1>11, <2>1, <2>2, RoomsStay
  <1> QED
    BY <1>11, <1>12, <1>13, <1>14 DEF WatchInv

\* An operation runs.
LEMMA RunKeeps ==
    ASSUME WatchInv, NEW tab \in Tabs, W!Run(tab)
    PROVE  WatchInv'
  <1>1. running[tab].ops # <<>> /\ UNCHANGED <<plan, asked, failed>>
    BY DEF W!Run
  <1>2. PICK op : op = Head(running[tab].ops)
    OBVIOUS
  <1>3. W!RunTag(tab, op) \/ W!RunUntag(tab, op) \/ W!RunAdd(tab, op) \/ W!RunDelete(tab, op)
          \/ W!RunEach(tab, op) \/ W!RunHook(tab, op)
    BY <1>2 DEF W!Run
  <1>4. CASE W!RunTag(tab, op)
    BY <1>1, <1>2, <1>4, RunTagKeeps
  <1>5. CASE W!RunUntag(tab, op)
    BY <1>1, <1>2, <1>5, RunUntagKeeps
  <1>6. CASE W!RunAdd(tab, op)
    BY <1>1, <1>2, <1>6, RunAddKeeps
  <1>7. CASE W!RunDelete(tab, op)
    BY <1>1, <1>2, <1>7, RunDeleteKeeps
  <1>8. CASE W!RunEach(tab, op)
    BY <1>1, <1>2, <1>8, RunEachKeeps
  <1>9. CASE W!RunHook(tab, op)
    BY <1>1, <1>2, <1>9, RunHookKeeps
  <1> QED
    BY <1>3, <1>4, <1>5, <1>6, <1>7, <1>8, <1>9

\* The invariant of the watchlist holds at the start.
LEMMA WatchInvInit ==
    ASSUME W!Init
    PROVE  WatchInv
  <1>1. PICK es \in {{}, W!PageEvents} :
          subs = [key \in ({"other"} \X {"slashed"} \X Validators) \cup ({W!Home} \X es \X tags) |-> "zero"]
    BY DEF W!Init
  <1>2. /\ plan \in W!Plans /\ hooks \in {0, MaxWebhooks[plan]} /\ tags \in {{}, Validators}
        /\ running = [tab \in Tabs |-> W!Idle] /\ loose = {} /\ asked = 0 /\ failed = 0
    BY DEF W!Init
  <1>3. /\ DOMAIN running = Tabs
        /\ \A tab \in Tabs : /\ DOMAIN running[tab] = {"ops", "on", "off", "alone"}
                             /\ running[tab].ops = <<>>
    BY <1>2 DEF W!Idle
  <1>4. ASSUME NEW key \in DOMAIN subs
        PROVE  /\ \/ key \in {"other"} \X {"slashed"} \X Validators
                  \/ key \in {W!Home} \X W!PageEvents \X tags
               /\ subs[key] = "zero"
    BY <1>1
  <1>5. tags \subseteq Validators
    BY <1>2
  <1>6. \A key \in DOMAIN subs : key[2] # "tax" /\ key[2] # "machine"
    BY <1>4 DEF W!PageEvents
  <1>7. MaxWebhooks[plan] \in Nat /\ TaxLimit \in Nat /\ MaxRequests \in Nat /\ MaxFailed \in Nat
        /\ Cardinality(Tabs) \in Nat \ {0}
    BY <1>2, WatchlistConstants
  <1>8. WatchTypes
    <2>1. DOMAIN subs \subseteq W!Networks \X W!EventNames \X W!Filters
      BY <1>4, <1>5 DEF W!Networks, W!EventNames, W!PageEvents, W!Filters
    <2>2. \A key \in DOMAIN subs : subs[key] \in W!Thresholds
      BY <1>4 DEF W!Thresholds
    <2> QED
      BY <1>2, <1>3, <1>5, <1>7, <2>1, <2>2 DEF WatchTypes
  <1>9. PlansFine /\ NamesFine /\ TaxTabs = {} /\ HookTabs = {}
    BY <1>3, PlansDiffer DEF PlansFine, NamesFine, TaxTabs, HookTabs
  <1>10. RowsFine
    <2>1. W!UnfollowedIsSilent
      BY <1>4 DEF W!UnfollowedIsSilent, W!Home
    <2>2. W!OtherNetworkIsLeft
      BY <1>1 DEF W!OtherNetworkIsLeft, W!Home
    <2>3. W!FreeThresholds
      BY <1>6 DEF W!FreeThresholds
    <2> QED
      BY <2>1, <2>2, <2>3 DEF RowsFine
  <1>11. RoomsFine
    <2>1. W!TaxRows = {}
      BY <1>6 DEF W!TaxRows
    <2>2. IsFiniteSet({}) /\ Cardinality({}) = 0
      BY FS_EmptySet
    <2> QED
      BY <1>2, <1>7, <1>9, <2>1, <2>2 DEF RoomsFine
  <1> QED
    BY <1>8, <1>9, <1>10, <1>11 DEF WatchInv

\* It is kept whoever moves.
LEMMA WatchInvStep ==
    ASSUME WatchInv, [Next]_vars
    PROVE  WatchInv'
  <1>1. CASE W!Next
    <2>1. PICK tab \in Tabs : W!Ask(tab) \/ W!Run(tab) \/ W!Fail(tab)
      BY <1>1 DEF W!Next
    <2>2. CASE W!Ask(tab)
      <3>1. Begins(tab) /\ running[tab].ops = <<>>
        BY <2>2, AskBegins DEF WatchInv
      <3> QED
        BY <3>1, BeginKeeps
    <2>3. CASE W!Run(tab)
      BY <2>3, RunKeeps
    <2>4. CASE W!Fail(tab)
      BY <2>4, FailKeeps
    <2> QED
      BY <2>1, <2>2, <2>3, <2>4
  <1>2. CASE UNCHANGED ofWatchlist
    <2>1. UNCHANGED <<plan, tags, subs, hooks, running, loose, asked, failed>>
      BY <1>2 DEF ofWatchlist
    <2>2. WatchTypes' /\ NamesFine' /\ RowsFine'
      BY <2>1 DEF WatchInv, WatchTypes, NamesFine, W!Named, RowsFine,
                  W!UnfollowedIsSilent, W!OtherNetworkIsLeft, W!FreeThresholds
    <2>3. PlansFine'
      BY <2>1, PlainStays DEF WatchInv, PlansFine, Plain, Taxing, Hooking
    <2>4. TaxTabs' = TaxTabs /\ HookTabs' = HookTabs /\ W!TaxRows' = W!TaxRows
      BY <2>1 DEF TaxTabs, HookTabs, Taxing, Hooking, W!TaxRows
    <2>5. RoomsFine'
      BY <2>1, <2>4 DEF WatchInv, RoomsFine
    <2> QED
      BY <2>2, <2>3, <2>5 DEF WatchInv
  <1> QED
    BY <1>1, <1>2, PartSteps

\* It is what the run checks.
LEMMA WatchInvImplies ==
    ASSUME WatchInv
    PROVE  W!TypeOK /\ WatchlistIsSound
  <1>1. W!TypeOK
    <2>1. W!Range(subs) \subseteq W!Thresholds
      BY DEF WatchInv, WatchTypes, W!Range
    <2> QED
      BY <2>1 DEF WatchInv, WatchTypes, W!TypeOK
  <1>2. W!UnfollowedIsSilent /\ W!OtherNetworkIsLeft /\ W!FreeThresholds
    BY DEF WatchInv, RowsFine
  <1>3. W!LimitsHold
    <2>1. /\ W!Cardinality(W!TaxRows) = Cardinality(W!TaxRows)
          /\ W!Cardinality(Tabs) = Cardinality(Tabs)
      BY WatchlistConstants
    <2>2. PICK rest, taxTabs, hookTabs, tabs :
            /\ rest = Cardinality(W!TaxRows) /\ tabs = Cardinality(Tabs)
            /\ taxTabs = Cardinality(TaxTabs) /\ hookTabs = Cardinality(HookTabs)
      OBVIOUS
    <2>3. /\ rest + taxTabs < TaxLimit + tabs /\ hooks + hookTabs < MaxWebhooks[plan] + tabs
          /\ IsFiniteSet(W!TaxRows)
      BY <2>2 DEF WatchInv, RoomsFine
    <2>4. TaxTabs \in SUBSET Tabs /\ HookTabs \in SUBSET Tabs
      BY DEF TaxTabs, HookTabs
    <2>5. /\ rest \in Nat /\ taxTabs \in Nat /\ hookTabs \in Nat /\ tabs \in Nat
          /\ TaxLimit \in Nat /\ hooks \in Nat /\ MaxWebhooks[plan] \in Nat
      <3>1. PICK tab : tab \in Tabs
        BY WatchlistConstants, FS_EmptySet
      <3>2. taxTabs \in Nat /\ hookTabs \in Nat
        BY <2>2, <2>4, <3>1, SomeTabs
      <3> QED
        BY <2>2, <2>3, <3>2, WatchlistConstants, FS_CardinalityType DEF WatchInv, WatchTypes
    <2>6. rest < TaxLimit + tabs /\ hooks < MaxWebhooks[plan] + tabs
      BY <2>3, <2>5
    <2> QED
      BY <2>1, <2>2, <2>6 DEF W!LimitsHold
  <1> QED
    BY <1>1, <1>2, <1>3 DEF WatchlistIsSound

-----------------------------------------------------------------------------
(* The watchlist: what a request brings about *)

\* The operations of a plan, the rows each of them adds and those it removes.
Ops(ops) == {ops[i] : i \in DOMAIN ops}
Adding(op) ==
  IF op.op = "add" THEN {op.key}
  ELSE IF op.op = "each" /\ op.threshold # W!Removes THEN {W!Home} \X {op.event} \X W!Listed(op.list)
  ELSE {}
Removing(op) ==
  IF op.op = "delete" THEN op.keys
  ELSE IF op.op = "untag" THEN {W!Home} \X W!EventNames \X op.vs
  ELSE IF op.op = "each" /\ op.threshold = W!Removes
       THEN {W!DeletedKey(W!Home, op.event, f) : f \in W!Listed(op.list)}
  ELSE {}

\* A row the request should leave is there or still to be added, and not removed
\* after that; when the first operation clears rows it is added after it.
ToCome(key, ops) ==
  /\ \A op \in Ops(ops) : key \notin Removing(op)
  /\ key \in DOMAIN subs \/ \E op \in Ops(ops) : key \in Adding(op)
ToComeAfter(key, ops) ==
  /\ ops # <<>> /\ Head(ops).op = "delete"
  /\ \A op \in Ops(Tail(ops)) : key \notin Removing(op)
  /\ \E op \in Ops(Tail(ops)) : key \in Adding(op)
\* A row it should remove is not there or still to be removed, and not added again.
ToGo(key, ops) ==
  /\ \A op \in Ops(ops) : key \notin Adding(op)
  /\ key \notin DOMAIN subs \/ \E op \in Ops(ops) : key \in Removing(op)
\* A list of followed validators is read whole, and does not change meanwhile.
ListsLast(ops, on, off) ==
  (\E op \in Ops(ops) : op.op = "each")
    => /\ on \cup off = {} \/ W!Fits
       /\ \A op \in Ops(ops) : op.op \notin {"tag", "untag"}
Promises(ops, on, off) ==
  /\ \A key \in on : ToCome(key, ops) \/ ToComeAfter(key, ops)
  /\ \A key \in off : ToGo(key, ops)
  /\ ListsLast(ops, on, off)
PromisesKept ==
  \A tab \in Tabs : running[tab].alone /\ running[tab].ops # <<>>
    => Promises(running[tab].ops, running[tab].on, running[tab].off)

\* The operations of plans that are joined, and those after the first one.
LEMMA OpsOfJoined ==
    ASSUME NEW Kind, NEW first \in Seq(Kind), NEW second \in Seq(Kind)
    PROVE  Ops(first \o second) = Ops(first) \cup Ops(second)
  <1>1. PICK both : both = first \o second
    OBVIOUS
  <1>2. /\ Len(first) \in Nat /\ DOMAIN first = 1 .. Len(first) /\ DOMAIN second = 1 .. Len(second)
        /\ Len(second) \in Nat /\ DOMAIN both = 1 .. Len(first) + Len(second)
        /\ \A i \in DOMAIN both : both[i] = IF i <= Len(first) THEN first[i] ELSE second[i - Len(first)]
    BY <1>1
  <1>3. ASSUME NEW i \in DOMAIN both
        PROVE  both[i] \in Ops(first) \cup Ops(second)
    <2>1. CASE i <= Len(first)
      BY <1>2, <2>1 DEF Ops
    <2>2. CASE ~ (i <= Len(first))
      <3>1. i - Len(first) \in DOMAIN second /\ both[i] = second[i - Len(first)]
        BY <1>2, <2>2
      <3> QED
        BY <3>1 DEF Ops
    <2> QED
      BY <2>1, <2>2
  <1>4. \A i \in DOMAIN first : i \in DOMAIN both /\ both[i] = first[i]
    BY <1>2
  <1>5. ASSUME NEW i \in DOMAIN second
        PROVE  i + Len(first) \in DOMAIN both /\ both[i + Len(first)] = second[i]
    BY <1>2
  <1>6. \A op \in Ops(first) \cup Ops(second) : \E i \in DOMAIN both : op = both[i]
    BY <1>4, <1>5 DEF Ops
  <1>7. Ops(both) = Ops(first) \cup Ops(second)
    <2>1. Ops(both) = {both[i] : i \in DOMAIN both}
      BY DEF Ops
    <2> QED
      BY ONLY <1>3, <1>6, <2>1
  <1> QED
    BY <1>1, <1>7

\* The same of one operation and of none.
LEMMA OpsOfOne ==
    ASSUME NEW op
    PROVE  Ops(<<op>>) = {op} /\ Ops(<<>>) = {}
  <1>1. DOMAIN <<op>> = {1} /\ <<op>>[1] = op
    OBVIOUS
  <1> QED
    BY <1>1 DEF Ops

\* A plan is its first operation and the others.
LEMMA OpsOfRest ==
    ASSUME NEW Kind, NEW ops \in Seq(Kind), ops # <<>>
    PROVE  Ops(ops) = {Head(ops)} \cup Ops(Tail(ops))
  <1>1. PICK n \in Nat : n = Len(ops) /\ DOMAIN ops = 1 .. n /\ n > 0
    OBVIOUS
  <1>2. /\ Head(ops) = ops[1] /\ DOMAIN Tail(ops) = 1 .. n - 1
        /\ \A i \in 1 .. n - 1 : Tail(ops)[i] = ops[i + 1]
    BY <1>1
  <1>3. \A i \in 1 .. n : i = 1 \/ (i - 1 \in 1 .. n - 1 /\ ops[i] = Tail(ops)[i - 1])
    BY <1>1, <1>2
  <1>4. \A i \in 1 .. n - 1 : i + 1 \in 1 .. n
    BY <1>1
  <1>5. 1 \in 1 .. n
    BY <1>1
  <1>6. ASSUME NEW i \in 1 .. n
        PROVE  ops[i] \in {Head(ops)} \cup Ops(Tail(ops))
    <2>1. CASE i = 1
      BY <1>2, <2>1
    <2>2. CASE i # 1
      BY <1>2, <1>3, <2>2 DEF Ops
    <2> QED
      BY <2>1, <2>2
  <1>7. {Head(ops)} \cup Ops(Tail(ops)) \subseteq Ops(ops)
    BY <1>1, <1>2, <1>4, <1>5 DEF Ops
  <1> QED
    BY <1>1, <1>6, <1>7 DEF Ops

\* The order in which a set is gone through leaves nothing out.
LEMMA OrderIsWhole ==
    ASSUME NEW S, IsFiniteSet(S)
    PROVE  \A x \in S : \E i \in 1 .. Cardinality(S) : W!SetToSeq(S)[i] = x
  <1>1. PICK n \in Nat : n = Cardinality(S)
    BY FS_CardinalityType
  <1>2. PICK f : f \in Bijection(1 .. n, S)
    BY <1>1, FS_CardinalityType DEF ExistsBijection
  <1>3. f \in [1 .. n -> S] /\ \A a, b \in 1 .. n : f[a] = f[b] => a = b
    BY <1>2 DEF Bijection, Injection, IsInjective
  <1>4. W!IsInjective(f)
    BY <1>3 DEF W!IsInjective
  <1>5. PICK order : order = W!SetToSeq(S)
    OBVIOUS
  <1>6. order \in [1 .. n -> S] /\ W!IsInjective(order)
    BY <1>1, <1>3, <1>4, <1>5, WatchlistConstants DEF W!SetToSeq
  <1>7. order \in Injection(1 .. n, S)
    BY <1>6 DEF W!IsInjective, Injection, IsInjective
  <1>8. IsFiniteSet(1 .. n) /\ Cardinality(1 .. n) = n
    BY FS_Interval
  <1>9. order \in Surjection(1 .. n, S)
    BY <1>1, <1>7, <1>8, FS_Injection
  <1> QED
    BY <1>1, <1>5, <1>9 DEF Surjection

\* Where the operations of one member stand.
LEMMA PlaceOf ==
    ASSUME NEW c \in Nat, NEW n \in {0, 1, 2, 3}, n # 0, NEW k \in 1 .. c, NEW m \in 1 .. n,
           NEW i, i = n * (k - 1) + m
    PROVE  i \in 1 .. n * c /\ ((i - 1) \div n) + 1 = k /\ ((i - 1) % n) + 1 = m
  <1>1. CASE n = 1
    BY <1>1
  <1>2. CASE n = 2
    <2>1. i = 2 * (k - 1) + m /\ (m = 1 \/ m = 2) /\ k \in Nat /\ k >= 1 /\ k <= c
      BY <1>2
    <2>2. i \in 1 .. n * c
      BY <1>2, <2>1
    <2>3. (i - 1) \div 2 = k - 1 /\ (i - 1) % 2 = m - 1
      BY <2>1
    <2> QED
      BY <1>2, <2>1, <2>2, <2>3
  <1>3. CASE n = 3
    <2>1. i = 3 * (k - 1) + m /\ (m = 1 \/ m = 2 \/ m = 3) /\ k \in Nat /\ k >= 1 /\ k <= c
      BY <1>3
    <2>2. i \in 1 .. n * c
      BY <1>3, <2>1
    <2>3. (i - 1) \div 3 = k - 1 /\ (i - 1) % 3 = m - 1
      <3>1. CASE m = 1
        BY <2>1, <3>1
      <3>2. CASE m = 2
        BY <2>1, <3>2
      <3>3. CASE m = 3
        BY <2>1, <3>3
      <3> QED
        BY <2>1, <3>1, <3>2, <3>3
    <2> QED
      BY <1>3, <2>1, <2>2, <2>3
  <1> QED
    BY <1>1, <1>2, <1>3

\* Going through a set with a few operations for each member runs them all.
LEMMA OpsOfForAll ==
    ASSUME NEW Kind, NEW opsOf, IsFiniteSet(DOMAIN opsOf), NEW n \in {0, 1, 2, 3},
           \A x \in DOMAIN opsOf : opsOf[x] \in Seq(Kind) /\ Len(opsOf[x]) = n
    PROVE  Ops(W!ForAll(n, opsOf)) = UNION {Ops(opsOf[x]) : x \in DOMAIN opsOf}
  <1>1. PICK c, order : /\ c = Cardinality(DOMAIN opsOf) /\ order = W!SetToSeq(DOMAIN opsOf)
                        /\ c \in Nat /\ order \in [1 .. c -> DOMAIN opsOf]
                        /\ \A x \in DOMAIN opsOf : \E i \in 1 .. c : order[i] = x
    BY OrderOf, OrderIsWhole
  <1>2. PICK ops : ops = W!ForAll(n, opsOf)
    OBVIOUS
  <1>3. ops = [i \in 1 .. n * c |-> opsOf[order[((i - 1) \div n) + 1]][((i - 1) % n) + 1]]
    BY <1>1, <1>2, WatchlistConstants DEF W!ForAll
  <1>4. \A x \in DOMAIN opsOf : DOMAIN opsOf[x] = 1 .. n
    OBVIOUS
  <1>5. ASSUME NEW i \in 1 .. n * c
        PROVE  \E x \in DOMAIN opsOf : ops[i] \in Ops(opsOf[x])
    <2>1. PICK k, m : k = ((i - 1) \div n) + 1 /\ m = ((i - 1) % n) + 1
      OBVIOUS
    <2>2. k \in 1 .. c /\ m \in 1 .. n
      <3>1. CASE n = 1
        BY <1>1, <1>5, <2>1, <3>1
      <3>2. CASE n = 2
        BY <1>1, <1>5, <2>1, <3>2
      <3>3. CASE n = 3
        BY <1>1, <1>5, <2>1, <3>3
      <3>4. CASE n = 0
        BY <1>1, <1>5, <3>4
      <3> QED
        BY <3>1, <3>2, <3>3, <3>4
    <2>3. ops[i] = opsOf[order[k]][m]
      BY <1>3, <2>1
    <2>4. order[k] \in DOMAIN opsOf /\ m \in DOMAIN opsOf[order[k]]
      BY <1>1, <1>4, <2>2
    <2> QED
      BY <2>3, <2>4 DEF Ops
  <1>6. ASSUME NEW x \in DOMAIN opsOf, NEW m \in 1 .. n
        PROVE  \E i \in 1 .. n * c : ops[i] = opsOf[x][m]
    <2>1. PICK k \in 1 .. c : order[k] = x
      BY <1>1
    <2>2. PICK i : i = n * (k - 1) + m
      OBVIOUS
    <2>3. i \in 1 .. n * c /\ ((i - 1) \div n) + 1 = k /\ ((i - 1) % n) + 1 = m
      <3>1. n # 0
        BY <1>6
      <3>2. c \in Nat /\ n \in {0, 1, 2, 3} /\ k \in 1 .. c /\ m \in 1 .. n
        BY <1>1
      <3> QED
        BY ONLY <2>2, <3>1, <3>2, PlaceOf
    <2> QED
      BY <1>3, <2>1, <2>3
  <1>7. DOMAIN ops = 1 .. n * c
    BY <1>3
  <1>8. Ops(ops) \subseteq UNION {Ops(opsOf[x]) : x \in DOMAIN opsOf}
    BY <1>5, <1>7 DEF Ops
  <1>9. ASSUME NEW x \in DOMAIN opsOf
        PROVE  Ops(opsOf[x]) \subseteq Ops(ops)
    BY <1>4, <1>6, <1>7 DEF Ops
  <1> QED
    BY <1>2, <1>8, <1>9

\* The rows each operation adds and those it removes.
LEMMA RowsOfOperations ==
    /\ \A vs : Adding(W!Tag(vs)) = {} /\ Removing(W!Tag(vs)) = {}
    /\ \A v : Adding(W!Untag(v)) = {} /\ Removing(W!Untag(v)) = {W!Home} \X W!EventNames \X {v}
    /\ \A n, e, f, t : Adding(W!Add(n, e, f, t)) = {<<n, e, f>>} /\ Removing(W!Add(n, e, f, t)) = {}
    /\ \A n, e, f : /\ Adding(W!Delete(n, e, f)) = {}
                    /\ Removing(W!Delete(n, e, f)) = {W!DeletedKey(n, e, f)}
    /\ \A n, e : /\ Adding(W!DeleteAll(n, e)) = {}
                 /\ Removing(W!DeleteAll(n, e)) = {W!DeletedKey(n, e, f) : f \in W!Filters}
    /\ \A keys : Adding(W!Forget(keys)) = {} /\ Removing(W!Forget(keys)) = keys
    /\ \A vs : Adding(W!Clear(vs)) = {} /\ Removing(W!Clear(vs)) = {W!Home} \X {"slashed"} \X vs
    /\ \A n : Adding(W!Hook(n)) = {} /\ Removing(W!Hook(n)) = {}
  <1>1. \A vs : Adding(W!Tag(vs)) = {} /\ Removing(W!Tag(vs)) = {}
    BY DEF Adding, Removing, W!Tag
  <1>2. \A v : Adding(W!Untag(v)) = {} /\ Removing(W!Untag(v)) = {W!Home} \X W!EventNames \X {v}
    BY DEF Adding, Removing, W!Untag
  <1>3. \A n, e, f, t : Adding(W!Add(n, e, f, t)) = {<<n, e, f>>} /\ Removing(W!Add(n, e, f, t)) = {}
    BY DEF Adding, Removing, W!Add, W!AddedKey
  <1>4. \A n, e, f : /\ Adding(W!Delete(n, e, f)) = {}
                     /\ Removing(W!Delete(n, e, f)) = {W!DeletedKey(n, e, f)}
    BY DEF Adding, Removing, W!Delete
  <1>5. \A n, e : /\ Adding(W!DeleteAll(n, e)) = {}
                  /\ Removing(W!DeleteAll(n, e)) = {W!DeletedKey(n, e, f) : f \in W!Filters}
    BY DEF Adding, Removing, W!DeleteAll
  <1>6. \A keys : Adding(W!Forget(keys)) = {} /\ Removing(W!Forget(keys)) = keys
    BY DEF Adding, Removing, W!Forget
  <1>7. \A vs : Adding(W!Clear(vs)) = {} /\ Removing(W!Clear(vs)) = {W!Home} \X {"slashed"} \X vs
    BY DEF Adding, Removing, W!Clear
  <1>8. \A n : Adding(W!Hook(n)) = {} /\ Removing(W!Hook(n)) = {}
    BY DEF Adding, Removing, W!Hook
  <1> QED
    BY <1>1, <1>2, <1>3, <1>4, <1>5, <1>6, <1>7, <1>8

\* What the operations of a plan without lists add and remove in all.
Brings(ops, on, off) ==
  /\ Plain(ops)
  /\ \A op \in Ops(ops) : op.op # "each" /\ Adding(op) \subseteq on /\ Removing(op) \subseteq off
  /\ \A key \in on : \E op \in Ops(ops) : key \in Adding(op)
  /\ \A key \in off : \E op \in Ops(ops) : key \in Removing(op)

\* One operation, and none.
LEMMA OneBrings ==
    ASSUME NEW op \in PlainOps, op.op # "each"
    PROVE  Brings(<<op>>, Adding(op), Removing(op)) /\ Brings(<<>>, {}, {})
  <1>1. Plain(<<op>>) /\ Plain(<<>>)
    BY OneIsPlain, PlansDiffer
  <1> QED
    BY <1>1, OpsOfOne DEF Brings

\* Plans after each other.
LEMMA BothBring ==
    ASSUME NEW first, NEW second, NEW on, NEW off, NEW onToo, NEW offToo,
           Brings(first, on, off), Brings(second, onToo, offToo)
    PROVE  Brings(first \o second, on \cup onToo, off \cup offToo)
  <1>1. Plain(first) /\ Plain(second)
    BY DEF Brings
  <1>2. Plain(first \o second) /\ Ops(first \o second) = Ops(first) \cup Ops(second)
    BY <1>1, JoinedArePlain, OpsOfJoined DEF Plain
  <1> QED
    BY <1>2 DEF Brings

\* Plans for each member of a set.
LEMMA AllBring ==
    ASSUME NEW opsOf, IsFiniteSet(DOMAIN opsOf), NEW n \in {0, 1, 2, 3}, NEW onOf, NEW offOf,
           \A x \in DOMAIN opsOf : Brings(opsOf[x], onOf[x], offOf[x]) /\ Len(opsOf[x]) = n
    PROVE  Brings(W!ForAll(n, opsOf), UNION {onOf[x] : x \in DOMAIN opsOf},
                  UNION {offOf[x] : x \in DOMAIN opsOf})
  <1>1. \A x \in DOMAIN opsOf : opsOf[x] \in Seq(PlainOps) /\ Len(opsOf[x]) = n
    BY DEF Brings, Plain
  <1>2. PICK ops : ops = W!ForAll(n, opsOf)
    OBVIOUS
  <1>3. Plain(ops) /\ Ops(ops) = UNION {Ops(opsOf[x]) : x \in DOMAIN opsOf}
    BY <1>1, <1>2, ForAllIs, OpsOfForAll DEF Plain
  <1>4. PICK on, off : /\ on = UNION {onOf[x] : x \in DOMAIN opsOf}
                       /\ off = UNION {offOf[x] : x \in DOMAIN opsOf}
    OBVIOUS
  <1>5. ASSUME NEW op \in Ops(ops)
        PROVE  op.op # "each" /\ Adding(op) \subseteq on /\ Removing(op) \subseteq off
    <2>1. PICK x \in DOMAIN opsOf : op \in Ops(opsOf[x])
      BY <1>3
    <2>2. op.op # "each" /\ Adding(op) \subseteq onOf[x] /\ Removing(op) \subseteq offOf[x]
      BY <2>1 DEF Brings
    <2> QED
      BY <1>4, <2>2
  <1>6. ASSUME NEW key \in on
        PROVE  \E op \in Ops(ops) : key \in Adding(op)
    <2>1. PICK x \in DOMAIN opsOf : key \in onOf[x]
      BY <1>4
    <2>2. PICK op \in Ops(opsOf[x]) : key \in Adding(op)
      BY <2>1 DEF Brings
    <2> QED
      BY <1>3, <2>2
  <1>7. ASSUME NEW key \in off
        PROVE  \E op \in Ops(ops) : key \in Removing(op)
    <2>1. PICK x \in DOMAIN opsOf : key \in offOf[x]
      BY <1>4
    <2>2. PICK op \in Ops(opsOf[x]) : key \in Removing(op)
      BY <2>1 DEF Brings
    <2> QED
      BY <1>3, <2>2
  <1> QED
    BY <1>2, <1>3, <1>4, <1>5, <1>6, <1>7 DEF Brings

\* What a plan brings it promises, and some of it, too.
LEMMA BroughtIsPromised ==
    ASSUME NEW ops, NEW on, NEW off, NEW onAll, NEW offAll, Brings(ops, onAll, offAll),
           on \subseteq onAll, off \subseteq offAll, on \cap offAll = {}, off \cap onAll = {}
    PROVE  Promises(ops, on, off)
  BY DEF Brings, Promises, ToCome, ToGo, ListsLast

\* What a box of a page writes.
LEMMA BoxBrings ==
    ASSUME NEW e \in W!PageEvents \cup {"network"}, NEW f \in W!Filters, NEW t \in W!Thresholds
    PROVE  /\ Brings(<<W!Add(W!Home, e, f, t)>>, {<<W!Home, e, f>>}, {})
           /\ Brings(<<W!Delete(W!Home, e, f)>>, {}, {<<W!Home, e, f>>})
           /\ f # "" => Brings(<<W!Subscribe(e, f, t)>>, {<<W!Home, e, f>>}, {})
  <1>1. /\ e \in W!EventNames /\ e # "tax" /\ e # "machine" /\ ~ W!IsUserIndexed(e) /\ Frees(e, t)
        /\ W!Threshold(e, t) \in W!Thresholds /\ Frees(e, W!Threshold(e, t)) /\ W!Home \in {W!Home, ""}
    BY DEF W!PageEvents, W!EventNames, W!IsUserIndexed, Frees, W!Threshold, W!Thresholds
  <1>2. /\ W!Add(W!Home, e, f, t) \in PlainOps /\ W!Delete(W!Home, e, f) \in PlainOps
        /\ W!Add(W!Home, e, f, W!Threshold(e, t)) \in PlainOps
    BY <1>1, OperationsArePlain
  <1>3. /\ W!Add(W!Home, e, f, t).op = "add" /\ W!Delete(W!Home, e, f).op = "delete"
        /\ W!Add(W!Home, e, f, W!Threshold(e, t)).op = "add"
    BY DEF W!Add, W!Delete
  <1>4. W!DeletedKey(W!Home, e, f) = <<W!Home, e, f>> /\ W!NetworkOf(e) = W!Home
    BY <1>1 DEF W!DeletedKey, W!NetworkOf
  <1>5. /\ Adding(W!Add(W!Home, e, f, t)) = {<<W!Home, e, f>>} /\ Removing(W!Add(W!Home, e, f, t)) = {}
        /\ Adding(W!Delete(W!Home, e, f)) = {} /\ Removing(W!Delete(W!Home, e, f)) = {<<W!Home, e, f>>}
        /\ Adding(W!Add(W!Home, e, f, W!Threshold(e, t))) = {<<W!Home, e, f>>}
        /\ Removing(W!Add(W!Home, e, f, W!Threshold(e, t))) = {}
    BY <1>4, RowsOfOperations
  <1>6. Brings(<<W!Add(W!Home, e, f, t)>>, {<<W!Home, e, f>>}, {})
    BY <1>2, <1>3, <1>5, OneBrings
  <1>7. Brings(<<W!Delete(W!Home, e, f)>>, {}, {<<W!Home, e, f>>})
    BY <1>2, <1>3, <1>5, OneBrings
  <1>8. Brings(<<W!Add(W!Home, e, f, W!Threshold(e, t))>>, {<<W!Home, e, f>>}, {})
    BY <1>2, <1>3, <1>5, OneBrings
  <1>9. f # "" => W!Subscribe(e, f, t) = W!Add(W!Home, e, f, W!Threshold(e, t))
    BY <1>4 DEF W!Subscribe
  <1> QED
    BY <1>6, <1>7, <1>8, <1>9

\* The rows of a page, for one validator and for several.
LEMMA HomeKeysAre ==
    ASSUME NEW es, NEW vs
    PROVE  /\ W!HomeKeys(es, vs) = UNION {W!HomeKeys(es, {v}) : v \in vs}
           /\ \A f : W!HomeKeys(es, {f}) = UNION {{<<W!Home, e, f>>} : e \in es}
           /\ \A key : key \in W!HomeKeys(es, vs)
                         <=> \E e \in es, v \in vs : key = <<W!Home, e, v>>
           /\ W!HomeKeys({}, vs) = {}
  BY DEF W!HomeKeys

\* The lists a page makes of its boxes.
LEMMA PagesBring ==
    ASSUME NEW f \in W!Filters, NEW t \in W!Thresholds
    PROVE  /\ \A es \in SUBSET W!PageEvents :
                /\ Brings(W!Adds(es, f), W!HomeKeys(es, {f}), {})
                /\ f # "" => Brings(W!Subscribes(es, f, t), W!HomeKeys(es, {f}), {})
           /\ \A all \in {W!PageEvents, {"network"}} : \A es \in SUBSET all :
                Brings(W!Boxes(all, es, f), W!HomeKeys(es, {f}), W!HomeKeys(all \ es, {f}))
  <1>1. \A all \in {W!PageEvents, {"network"}} : \A es \in SUBSET all : IsFiniteSet(es)
    <2>1. IsFiniteSet(W!PageEvents) /\ IsFiniteSet({"network"})
      BY PageEventsAreTwo, FS_Singleton
    <2> QED
      BY <2>1, FS_Subset
  <1>2. "zero" \in W!Thresholds
    BY DEF W!Thresholds
  <1>3. ASSUME NEW es \in SUBSET W!PageEvents
        PROVE  Brings(W!Adds(es, f), W!HomeKeys(es, {f}), {})
    <2>1. PICK opsOf, onOf, offOf : /\ opsOf = [e \in es |-> <<W!Add(W!Home, e, f, "zero")>>]
                                    /\ onOf = [e \in es |-> {<<W!Home, e, f>>}]
                                    /\ offOf = [e \in es |-> {}]
      OBVIOUS
    <2>2. DOMAIN opsOf = es /\ IsFiniteSet(es)
      BY <1>1, <2>1
    <2>3. ASSUME NEW e \in es
          PROVE  Brings(opsOf[e], onOf[e], offOf[e]) /\ Len(opsOf[e]) = 1
      BY <1>2, <2>1, BoxBrings
    <2>4. Brings(W!ForAll(1, opsOf), UNION {onOf[e] : e \in es}, UNION {offOf[e] : e \in es})
      BY ONLY <2>2, <2>3, AllBring
    <2>5. UNION {onOf[e] : e \in es} = W!HomeKeys(es, {f}) /\ UNION {offOf[e] : e \in es} = {}
      BY <2>1, HomeKeysAre
    <2> QED
      BY <2>1, <2>4, <2>5 DEF W!Adds
  <1>4. ASSUME NEW es \in SUBSET W!PageEvents, f # ""
        PROVE  Brings(W!Subscribes(es, f, t), W!HomeKeys(es, {f}), {})
    <2>1. PICK opsOf, onOf, offOf : /\ opsOf = [e \in es |-> <<W!Subscribe(e, f, t)>>]
                                    /\ onOf = [e \in es |-> {<<W!Home, e, f>>}]
                                    /\ offOf = [e \in es |-> {}]
      OBVIOUS
    <2>2. DOMAIN opsOf = es /\ IsFiniteSet(es)
      BY <1>1, <2>1
    <2>3. ASSUME NEW e \in es
          PROVE  Brings(opsOf[e], onOf[e], offOf[e]) /\ Len(opsOf[e]) = 1
      BY <1>4, <2>1, BoxBrings
    <2>4. Brings(W!ForAll(1, opsOf), UNION {onOf[e] : e \in es}, UNION {offOf[e] : e \in es})
      BY ONLY <2>2, <2>3, AllBring
    <2>5. UNION {onOf[e] : e \in es} = W!HomeKeys(es, {f}) /\ UNION {offOf[e] : e \in es} = {}
      BY <2>1, HomeKeysAre
    <2> QED
      BY <2>1, <2>4, <2>5 DEF W!Subscribes
  <1>5. ASSUME NEW all \in {W!PageEvents, {"network"}}, NEW es \in SUBSET all
        PROVE  Brings(W!Boxes(all, es, f), W!HomeKeys(es, {f}), W!HomeKeys(all \ es, {f}))
    <2>1. PICK opsOf, onOf, offOf :
            /\ opsOf = [e \in all |-> <<IF e \in es THEN W!Add(W!Home, e, f, "zero")
                                        ELSE W!Delete(W!Home, e, f)>>]
            /\ onOf = [e \in all |-> IF e \in es THEN {<<W!Home, e, f>>} ELSE {}]
            /\ offOf = [e \in all |-> IF e \in es THEN {} ELSE {<<W!Home, e, f>>}]
      OBVIOUS
    <2>2. DOMAIN opsOf = all /\ IsFiniteSet(all)
      BY <1>1, <2>1
    <2>3. ASSUME NEW e \in all
          PROVE  Brings(opsOf[e], onOf[e], offOf[e]) /\ Len(opsOf[e]) = 1
      <3>1. CASE e \in es
        BY <1>2, <2>1, <3>1, BoxBrings
      <3>2. CASE e \notin es
        BY <1>2, <2>1, <3>2, BoxBrings
      <3> QED
        BY <3>1, <3>2
    <2>4. Brings(W!ForAll(1, opsOf), UNION {onOf[e] : e \in all}, UNION {offOf[e] : e \in all})
      BY ONLY <2>2, <2>3, AllBring
    <2>5. UNION {onOf[e] : e \in all} = W!HomeKeys(es, {f})
      BY <2>1, HomeKeysAre
    <2>6. UNION {offOf[e] : e \in all} = W!HomeKeys(all \ es, {f})
      BY <2>1, HomeKeysAre
    <2> QED
      BY <2>1, <2>4, <2>5, <2>6 DEF W!Boxes
  <1> QED
    BY <1>3, <1>4, <1>5

\* The same for each of several validators.
LEMMA ManyBring ==
    ASSUME NEW vs \in SUBSET Validators, NEW opsOf, NEW n \in {0, 1, 2, 3}, DOMAIN opsOf = vs,
           NEW on, NEW off,
           \A v \in vs : Brings(opsOf[v], W!HomeKeys(on, {v}), W!HomeKeys(off, {v})) /\ Len(opsOf[v]) = n
    PROVE  Brings(W!ForAll(n, opsOf), W!HomeKeys(on, vs), W!HomeKeys(off, vs))
  <1>1. IsFiniteSet(vs)
    BY FS_Subset, WatchlistConstants
  <1>2. PICK onOf, offOf : /\ onOf = [v \in vs |-> W!HomeKeys(on, {v})]
                           /\ offOf = [v \in vs |-> W!HomeKeys(off, {v})]
    OBVIOUS
  <1>3. \A v \in DOMAIN opsOf : Brings(opsOf[v], onOf[v], offOf[v]) /\ Len(opsOf[v]) = n
    BY <1>2
  <1>4. IsFiniteSet(DOMAIN opsOf) /\ n \in {0, 1, 2, 3}
    BY <1>1
  <1>5. PICK onAll, offAll : /\ onAll = UNION {onOf[v] : v \in DOMAIN opsOf}
                             /\ offAll = UNION {offOf[v] : v \in DOMAIN opsOf}
    OBVIOUS
  <1>6. Brings(W!ForAll(n, opsOf), onAll, offAll)
    <2>1. Brings(W!ForAll(n, opsOf), UNION {onOf[x] : x \in DOMAIN opsOf},
                 UNION {offOf[x] : x \in DOMAIN opsOf})
      <3>1. \A x \in DOMAIN opsOf : Brings(opsOf[x], onOf[x], offOf[x]) /\ Len(opsOf[x]) = n
        BY <1>3
      <3>2. CASE n = 0
        BY ONLY <1>4, <3>1, <3>2, AllBring
      <3>3. CASE n = 1
        BY ONLY <1>4, <3>1, <3>3, AllBring
      <3>4. CASE n = 2
        BY ONLY <1>4, <3>1, <3>4, AllBring
      <3>5. CASE n = 3
        BY ONLY <1>4, <3>1, <3>5, AllBring
      <3> QED
        BY <1>4, <3>2, <3>3, <3>4, <3>5
    <2> QED
      BY ONLY <1>5, <2>1
  <1>7. onAll = W!HomeKeys(on, vs)
    <2>1. \A key : key \in onAll <=> \E v \in vs : key \in W!HomeKeys(on, {v})
      BY <1>2, <1>5
    <2>2. \A key : key \in W!HomeKeys(on, vs) <=> \E v \in vs : key \in W!HomeKeys(on, {v})
      BY DEF W!HomeKeys
    <2> QED
      BY ONLY <2>1, <2>2
  <1>8. offAll = W!HomeKeys(off, vs)
    <2>1. \A key : key \in offAll <=> \E v \in vs : key \in W!HomeKeys(off, {v})
      BY <1>2, <1>5
    <2>2. \A key : key \in W!HomeKeys(off, vs) <=> \E v \in vs : key \in W!HomeKeys(off, {v})
      BY DEF W!HomeKeys
    <2> QED
      BY ONLY <2>1, <2>2
  <1> QED
    BY <1>6, <1>7, <1>8

\* Rows are cleared before others are written.
LEMMA ClearedFirst ==
    ASSUME NEW op \in PlainOps, op.op = "delete", NEW rest, NEW on, NEW off, Brings(rest, on, {}),
           off \subseteq Removing(op), off \cap on = {}
    PROVE  Promises(<<op>> \o rest, on, off)
  <1>1. Plain(<<op>>) /\ Plain(rest)
    BY OneIsPlain DEF Brings
  <1>2. PICK ops : ops = <<op>> \o rest
    OBVIOUS
  <1>3. Ops(ops) = {op} \cup Ops(rest)
    <2>1. PICK first : first = <<op>> /\ first \in Seq(PlainOps)
      BY <1>1 DEF Plain
    <2>2. rest \in Seq(PlainOps)
      BY <1>1 DEF Plain
    <2>3. Ops(first \o rest) = Ops(first) \cup Ops(rest)
      BY ONLY <2>1, <2>2, OpsOfJoined
    <2> QED
      BY <1>2, <2>1, <2>3, OpsOfOne
  <1>4. ops # <<>> /\ Head(ops) = op /\ Tail(ops) = rest
    <2>1. op \in PlainOps /\ rest \in Seq(PlainOps)
      BY <1>1 DEF Plain
    <2>2. PICK n \in Nat : n = Len(rest) /\ rest \in [1 .. n -> PlainOps]
      BY <2>1
    <2>3. /\ Len(ops) = n + 1 /\ ops \in Seq(PlainOps) /\ ops[1] = op
          /\ \A i \in 1 .. n : ops[i + 1] = rest[i]
      BY <1>2, <2>1, <2>2
    <2>4. PICK left : left = Tail(ops)
      OBVIOUS
    <2>5. left \in Seq(PlainOps) /\ Len(left) = n /\ \A i \in 1 .. n : left[i] = ops[i + 1]
      BY ONLY <2>2, <2>3, <2>4
    <2>6. left \in [1 .. n -> PlainOps] /\ \A i \in 1 .. n : left[i] = rest[i]
      BY ONLY <2>3, <2>5
    <2>7. left = rest
      BY ONLY <2>2, <2>6
    <2> QED
      BY <2>2, <2>3, <2>4, <2>7
  <1>5. Adding(op) = {}
    BY DEF Adding
  <1>6. ASSUME NEW key \in on
        PROVE  ToComeAfter(key, ops)
    BY <1>4, <1>6 DEF ToComeAfter, Brings
  <1>7. ASSUME NEW key \in off
        PROVE  ToGo(key, ops)
    BY <1>3, <1>5, <1>7 DEF ToGo, Brings
  <1>8. ListsLast(ops, on, off)
    BY <1>3 DEF ListsLast, Brings
  <1> QED
    BY <1>2, <1>6, <1>7, <1>8 DEF Promises

-----------------------------------------------------------------------------
(* The watchlist: what a request is for *)

\* A request and what it is for.
Undertakes(tab) == \E ops, on, off : W!Begin(tab, ops, on, off) /\ Promises(ops, on, off)

\* A tag brings no row of a subscription.
LEMMA TagBringsNothing ==
    ASSUME NEW vs \in SUBSET Validators
    PROVE  Brings(<<W!Tag(vs)>>, {}, {}) /\ Plain(<<W!Tag(vs)>>) /\ Len(<<W!Tag(vs)>>) = 1
  <1>1. PICK op : op = W!Tag(vs)
    OBVIOUS
  <1>2. op \in PlainOps /\ op.op # "each"
    BY <1>1, OperationsArePlain DEF W!Tag
  <1>3. Adding(op) = {} /\ Removing(op) = {}
    BY <1>1, RowsOfOperations
  <1>4. Brings(<<op>>, {}, {})
    BY <1>2, <1>3, OneBrings
  <1>5. Plain(<<op>>) /\ Len(<<op>>) = 1
    BY <1>2, OneIsPlain
  <1> QED
    BY ONLY <1>1, <1>4, <1>5

\* Pages for validators.
LEMMA AskOfValidatorsUndertakes ==
    ASSUME NEW tab \in Tabs, NEW vs \in SUBSET Validators, W!AskOfValidators(tab, vs)
    PROVE  Undertakes(tab)
  <1>1. ASSUME NEW ops, NEW on, NEW off, W!Begin(tab, ops, on, off), Promises(ops, on, off)
        PROVE  Undertakes(tab)
    BY <1>1 DEF Undertakes
  <1>2. vs \subseteq W!Filters /\ "own" \in W!Thresholds /\ "" \notin vs
    BY UsersAssumption DEF W!WatchlistAssumption, W!Filters, W!Thresholds
  <1>3. CASE W!UserDashboardWatchlistAdd(tab, vs)
    <2>2. Brings(<<W!Tag(vs)>>, {}, {})
      BY TagBringsNothing
    <2>3. Promises(<<W!Tag(vs)>>, {}, {})
      BY <2>2, BroughtIsPromised
    <2> QED
      BY <1>1, <1>3, <2>3 DEF W!UserDashboardWatchlistAdd
  <1>4. CASE W!RemoveAllValidatorsAndUnsubscribe(tab, vs)
    <2>1. PICK opsOf : opsOf = [v \in vs |-> <<W!Untag(v)>>]
      OBVIOUS
    <2>2. ASSUME NEW v \in vs
          PROVE  /\ Brings(opsOf[v], W!HomeKeys({}, {v}), W!HomeKeys(W!EventNames, {v}))
                 /\ Len(opsOf[v]) = 1
      <3>1. W!Untag(v) \in PlainOps /\ W!Untag(v).op # "each"
        BY OperationsArePlain DEF W!Untag
      <3>2. Adding(W!Untag(v)) = {} /\ Removing(W!Untag(v)) = W!HomeKeys(W!EventNames, {v})
        BY RowsOfOperations DEF W!HomeKeys
      <3>3. W!HomeKeys({}, {v}) = {}
        BY HomeKeysAre
      <3> QED
        BY <2>1, <3>1, <3>2, <3>3, OneBrings
    <2>3. DOMAIN opsOf = vs
      BY <2>1
    <2>4. Brings(W!ForAll(1, opsOf), W!HomeKeys({}, vs), W!HomeKeys(W!EventNames, vs))
      BY <2>2, <2>3, ManyBring
    <2>5. W!HomeKeys({}, vs) = {} /\ W!HomeKeys(W!PageEvents, vs) \subseteq W!HomeKeys(W!EventNames, vs)
      BY DEF W!HomeKeys, W!EventNames
    <2>6. Promises(W!ForAll(1, opsOf), {}, W!HomeKeys(W!PageEvents, vs))
      BY <2>4, <2>5, BroughtIsPromised
    <2> QED
      BY <1>1, <1>4, <2>1, <2>6 DEF W!RemoveAllValidatorsAndUnsubscribe
  <1>5. ASSUME NEW es \in SUBSET W!PageEvents, W!UserUpdateSubscriptions(tab, vs, es, "own")
        PROVE  Undertakes(tab)
    <2>1. PICK opsOf : opsOf = [v \in vs |-> W!Subscribes(es, v, "own")]
      OBVIOUS
    <2>2. PICK n \in {0, 1, 2, 3} : n = Cardinality(es)
      BY PageEventsAreTwo
    <2>3. ASSUME NEW v \in vs
          PROVE  /\ Brings(opsOf[v], W!HomeKeys(es, {v}), W!HomeKeys({}, {v}))
                 /\ Len(opsOf[v]) = n
      <3>1. v \in W!Filters /\ v # "" /\ opsOf[v] = W!Subscribes(es, v, "own")
        BY <1>2, <2>1
      <3>2. Brings(opsOf[v], W!HomeKeys(es, {v}), {})
        BY <1>2, <3>1, PagesBring
      <3>3. Len(opsOf[v]) = n
        BY <1>2, <2>2, <3>1, PagesArePlain
      <3>4. W!HomeKeys({}, {v}) = {}
        BY HomeKeysAre
      <3> QED
        BY <3>2, <3>3, <3>4
    <2>4. DOMAIN opsOf = vs
      BY <2>1
    <2>5. Brings(W!ForAll(n, opsOf), W!HomeKeys(es, vs), W!HomeKeys({}, vs))
      BY <2>3, <2>4, ManyBring
    <2>6. /\ W!Clear(vs) \in PlainOps /\ W!Clear(vs).op = "delete"
          /\ Removing(W!Clear(vs)) = W!HomeKeys({"slashed"}, vs)
      BY OperationsArePlain, RowsOfOperations DEF W!Clear, W!HomeKeys
    <2>7. /\ W!HomeKeys({}, vs) = {} /\ W!HomeKeys({"slashed"} \ es, vs) \subseteq W!HomeKeys({"slashed"}, vs)
          /\ W!HomeKeys({"slashed"} \ es, vs) \cap W!HomeKeys(es, vs) = {}
      BY DEF W!HomeKeys
    <2>8. Promises(<<W!Clear(vs)>> \o W!ForAll(n, opsOf), W!HomeKeys(es, vs), W!HomeKeys({"slashed"} \ es, vs))
      BY <2>5, <2>6, <2>7, ClearedFirst
    <2>9. W!Cardinality(es) = n
      BY <2>2, WatchlistConstants
    <2> QED
      BY <1>1, <1>5, <2>1, <2>8, <2>9 DEF W!UserUpdateSubscriptions
  <1>6. ASSUME NEW es \in SUBSET W!PageEvents
        PROVE  W!HomeKeys(es, vs) \cap W!HomeKeys(W!PageEvents \ es, vs) = {}
    BY DEF W!HomeKeys
  <1>7. ASSUME NEW es \in SUBSET W!PageEvents, W!UsersModalAddValidator(tab, vs, es)
        PROVE  Undertakes(tab)
    <2>1. PICK opsOf : opsOf = [v \in vs |-> <<W!Tag({v})>> \o W!Boxes(W!PageEvents, es, v)]
      OBVIOUS
    <2>2. ASSUME NEW v \in vs
          PROVE  /\ Brings(opsOf[v], W!HomeKeys(es, {v}), W!HomeKeys(W!PageEvents \ es, {v}))
                 /\ Len(opsOf[v]) = 3
      <3>1. PICK first, second : first = <<W!Tag({v})>> /\ second = W!Boxes(W!PageEvents, es, v)
        OBVIOUS
      <3>2. {v} \in SUBSET Validators
        BY <2>2
      <3>3. Brings(first, {}, {}) /\ Plain(first) /\ Len(first) = 1
        BY <3>1, <3>2, TagBringsNothing
      <3>4. Brings(second, W!HomeKeys(es, {v}), W!HomeKeys(W!PageEvents \ es, {v}))
        BY <1>2, <3>1, PagesBring
      <3>5. Plain(second) /\ Len(second) = 2
        BY <1>2, <3>1, PagesArePlain
      <3>6. Brings(first \o second, {} \cup W!HomeKeys(es, {v}), {} \cup W!HomeKeys(W!PageEvents \ es, {v}))
        BY <3>3, <3>4, BothBring
      <3>7. Len(first \o second) = Len(first) + Len(second)
        BY ONLY <3>3, <3>5, JoinedArePlain
      <3> QED
        BY <2>1, <3>1, <3>3, <3>5, <3>6, <3>7
    <2>3. DOMAIN opsOf = vs
      BY <2>1
    <2>4. Brings(W!ForAll(3, opsOf), W!HomeKeys(es, vs), W!HomeKeys(W!PageEvents \ es, vs))
      BY <2>2, <2>3, ManyBring
    <2>5. Promises(W!ForAll(3, opsOf), W!HomeKeys(es, vs), W!HomeKeys(W!PageEvents \ es, vs))
      BY <1>6, <2>4, BroughtIsPromised
    <2>6. 1 + W!Cardinality(W!PageEvents) = 3
      BY PageEventsAreTwo, WatchlistConstants
    <2> QED
      BY <1>1, <1>7, <2>1, <2>5, <2>6 DEF W!UsersModalAddValidator
  <1>8. ASSUME NEW es \in SUBSET W!PageEvents, W!UserModalManageNotificationModal(tab, vs, es)
        PROVE  Undertakes(tab)
    <2>1. PICK opsOf : opsOf = [v \in vs |-> W!Boxes(W!PageEvents, es, v)]
      OBVIOUS
    <2>2. \A v \in vs : /\ Brings(opsOf[v], W!HomeKeys(es, {v}), W!HomeKeys(W!PageEvents \ es, {v}))
                        /\ Len(opsOf[v]) = 2
      BY <1>2, <2>1, PagesBring, PagesArePlain
    <2>3. DOMAIN opsOf = vs
      BY <2>1
    <2>4. Brings(W!ForAll(2, opsOf), W!HomeKeys(es, vs), W!HomeKeys(W!PageEvents \ es, vs))
      BY <2>2, <2>3, ManyBring
    <2>5. Promises(W!ForAll(2, opsOf), W!HomeKeys(es, vs), W!HomeKeys(W!PageEvents \ es, vs))
      BY <1>6, <2>4, BroughtIsPromised
    <2>6. W!Cardinality(W!PageEvents) = 2
      BY PageEventsAreTwo, WatchlistConstants
    <2> QED
      BY <1>1, <1>8, <2>1, <2>5, <2>6 DEF W!UserModalManageNotificationModal
  <1> QED
    BY <1>3, <1>4, <1>5, <1>7, <1>8 DEF W!AskOfValidators, W!UserModalRemoveSelectedValidator

\* Requests for one validator.
LEMMA AskOfOneUndertakes ==
    ASSUME NEW tab \in Tabs, NEW v \in Validators \cup {W!TooShort}, NEW es \in SUBSET W!PageEvents,
           \/ v \in Validators /\ W!UserValidatorWatchlistRemove(tab, v)
           \/ W!UserValidatorWatchlistAdd(tab, v, es) /\ (v # W!TooShort => v \in Validators)
           \/ v \in Validators /\ W!AddValidatorsAndSubscribe(tab, v, es)
    PROVE  Undertakes(tab)
  <1>1. ASSUME NEW ops, NEW on, NEW off, W!Begin(tab, ops, on, off), Promises(ops, on, off)
        PROVE  Undertakes(tab)
    BY <1>1 DEF Undertakes
  <1>2. v \in W!Filters /\ "zero" \in W!Thresholds /\ v # ""
    BY UsersAssumption DEF W!WatchlistAssumption, W!Filters, W!Thresholds, W!TooShort
  <1>3. Brings(<<>>, {}, {}) /\ (v \in Validators => Brings(<<W!Tag({v})>>, {}, {}))
    <2>1. W!Tag({}) \in PlainOps /\ W!Tag({}).op # "each"
      BY OperationsArePlain DEF W!Tag
    <2>3. Brings(<<>>, {}, {})
      BY <2>1, OneBrings
    <2>4. ASSUME v \in Validators
          PROVE  Brings(<<W!Tag({v})>>, {}, {})
      <3>1. {v} \in SUBSET Validators
        BY <2>4
      <3> QED
        BY <3>1, TagBringsNothing
    <2> QED
      BY <2>3, <2>4
  <1>4. CASE v \in Validators /\ W!UserValidatorWatchlistRemove(tab, v)
    <2>1. /\ W!Untag(v) \in PlainOps /\ W!Untag(v).op # "each"
          /\ Adding(W!Untag(v)) = {} /\ Removing(W!Untag(v)) = W!HomeKeys(W!EventNames, {v})
      BY <1>4, OperationsArePlain, RowsOfOperations DEF W!Untag, W!HomeKeys
    <2>2. W!HomeKeys(W!PageEvents, {v}) \subseteq W!HomeKeys(W!EventNames, {v})
      BY DEF W!HomeKeys, W!EventNames
    <2>3. Brings(<<W!Untag(v)>>, {}, W!HomeKeys(W!EventNames, {v}))
      BY <2>1, OneBrings
    <2>4. Promises(<<W!Untag(v)>>, {}, W!HomeKeys(W!PageEvents, {v}))
      BY <2>2, <2>3, BroughtIsPromised
    <2> QED
      BY <1>1, <1>4, <2>4 DEF W!UserValidatorWatchlistRemove
  <1>5. CASE W!UserValidatorWatchlistAdd(tab, v, es) /\ (v # W!TooShort => v \in Validators)
    <2>1. PICK ending : ending = (IF v = W!TooShort THEN <<>> ELSE <<W!Tag({v})>>)
      OBVIOUS
    <2>2. Brings(ending, {}, {})
      BY <1>3, <1>5, <2>1
    <2>3. Brings(W!Adds(es, v), W!HomeKeys(es, {v}), {})
      BY <1>2, PagesBring
    <2>4. Brings(W!Adds(es, v) \o ending, W!HomeKeys(es, {v}) \cup {}, {} \cup {})
      BY <2>2, <2>3, BothBring
    <2>5. Promises(W!Adds(es, v) \o ending, W!HomeKeys(es, {v}), {})
      BY <2>4, BroughtIsPromised
    <2> QED
      BY <1>1, <1>5, <2>1, <2>5 DEF W!UserValidatorWatchlistAdd
  <1>6. CASE v \in Validators /\ W!AddValidatorsAndSubscribe(tab, v, es)
    <2>1. Brings(W!Subscribes(es, v, "zero"), W!HomeKeys(es, {v}), {})
      BY <1>2, PagesBring
    <2>2. Brings(<<W!Tag({v})>> \o W!Subscribes(es, v, "zero"), {} \cup W!HomeKeys(es, {v}), {} \cup {})
      BY <1>3, <1>6, <2>1, BothBring
    <2>3. Promises(<<W!Tag({v})>> \o W!Subscribes(es, v, "zero"), W!HomeKeys(es, {v}), {})
      BY <2>2, BroughtIsPromised
    <2> QED
      BY <1>1, <1>6, <2>3 DEF W!AddValidatorsAndSubscribe
  <1> QED
    BY <1>4, <1>5, <1>6

\* The rows subscribing and unsubscribing by event and filter stand for.
LEMMA MeantIs ==
    ASSUME WatchTypes, NEW e \in W!EventNames \ {"tax"}, NEW f \in W!Filters, NEW t \in W!Thresholds
    PROVE  /\ Adding(W!Subscribe(e, f, t)) = W!Meant(e, f) /\ Removing(W!Subscribe(e, f, t)) = {}
           /\ Adding(W!Unsubscribe(e, f)) = {}
           /\ {key \in W!Meant(e, f) : key[1] = W!Home => key[2] # "client"}
                \subseteq Removing(W!Unsubscribe(e, f))
           /\ Adding(W!UnsubscribeOne(e, f)) = {}
           /\ (f = "" => e # "collateral") =>
                W!Meant(e, f) \ ({W!Home} \X {"client"} \X W!Filters) \subseteq Removing(W!UnsubscribeOne(e, f))
           /\ {W!Subscribe(e, f, t).op, W!Unsubscribe(e, f).op, W!UnsubscribeOne(e, f).op}
                \cap {"tag", "untag"} = {}
  <1>1. PICK all : all = (f = "" /\ e # "machine")
    OBVIOUS
  <1>2. PICK kind, listed : /\ kind = (IF e = "collateral" THEN "nodes" ELSE "validators")
                            /\ listed = W!Listed(kind)
    OBVIOUS
  <1>3. W!Meant(e, f) = IF all THEN {W!Home} \X {e} \X listed ELSE {<<W!NetworkOf(e), e, f>>}
    BY <1>1, <1>2 DEF W!Meant
  <1>4. listed \subseteq W!Filters /\ (kind = "validators" => listed = tags) /\ tags \subseteq W!Filters
    BY <1>2 DEF WatchTypes, W!Listed, W!Filters
  <1>5. PICK own : own = W!Threshold(e, t) /\ own # W!Removes
    BY DEF W!Threshold, W!Thresholds, W!Removes
  <1>6. /\ Adding(W!Subscribe(e, f, t)) = W!Meant(e, f) /\ Removing(W!Subscribe(e, f, t)) = {}
        /\ W!Subscribe(e, f, t).op \notin {"tag", "untag"}
    <2>1. CASE all
      <3>1. W!Subscribe(e, f, t) = W!Each(e, kind, own)
        BY <1>1, <1>2, <1>5, <2>1 DEF W!Subscribe
      <3>2. /\ Adding(W!Each(e, kind, own)) = {W!Home} \X {e} \X listed
            /\ Removing(W!Each(e, kind, own)) = {} /\ W!Each(e, kind, own).op = "each"
        BY <1>2, <1>5 DEF Adding, Removing, W!Each
      <3> QED
        BY <1>3, <2>1, <3>1, <3>2
    <2>2. CASE ~ all
      <3>1. W!Subscribe(e, f, t) = W!Add(W!NetworkOf(e), e, f, own)
        BY <1>1, <1>5, <2>2 DEF W!Subscribe
      <3>2. /\ Adding(W!Add(W!NetworkOf(e), e, f, own)) = {<<W!NetworkOf(e), e, f>>}
            /\ Removing(W!Add(W!NetworkOf(e), e, f, own)) = {}
            /\ W!Add(W!NetworkOf(e), e, f, own).op = "add"
        BY RowsOfOperations DEF W!Add
      <3> QED
        BY <1>3, <2>2, <3>1, <3>2
    <2> QED
      BY <1>1, <2>1, <2>2
  <1>7. /\ Adding(W!Delete(W!NetworkOf(e), e, f)) = {}
        /\ Removing(W!Delete(W!NetworkOf(e), e, f)) = {<<W!NetworkOf(e), e, f>>}
        /\ W!Delete(W!NetworkOf(e), e, f).op = "delete"
    <2>1. W!DeletedKey(W!NetworkOf(e), e, f) = <<W!NetworkOf(e), e, f>>
      BY DEF W!DeletedKey, W!NetworkOf
    <2> QED
      BY <2>1, RowsOfOperations DEF W!Delete
  <1>8. /\ Adding(W!Each(e, "validators", W!Removes)) = {}
        /\ Removing(W!Each(e, "validators", W!Removes)) = {W!DeletedKey(W!Home, e, g) : g \in tags}
        /\ W!Each(e, "validators", W!Removes).op = "each"
    BY DEF Adding, Removing, W!Each, W!Listed
  <1>9. e # "client" /\ e # "machine" => \A g : W!DeletedKey(W!Home, e, g) = <<W!Home, e, g>>
    BY DEF W!DeletedKey, W!IsUserIndexed
  <1>10. all /\ e # "client" /\ e # "collateral" =>
           W!Meant(e, f) \subseteq {W!DeletedKey(W!Home, e, g) : g \in tags}
    <2>1. ASSUME all, e # "client", e # "collateral", NEW key \in W!Meant(e, f)
          PROVE  \E g \in tags : key = W!DeletedKey(W!Home, e, g)
      <3>1. e # "machine" /\ listed = tags
        BY <1>1, <1>2, <1>4, <2>1
      <3>2. PICK g \in tags : key = <<W!Home, e, g>>
        BY <1>3, <2>1, <3>1
      <3> QED
        BY <1>9, <2>1, <3>1, <3>2
    <2> QED
      BY <2>1
  <1>11. all /\ e = "client" => W!Meant(e, f) \subseteq {W!Home} \X {"client"} \X W!Filters
    BY <1>3, <1>4
  <1>12. \A key \in {W!Home} \X {"client"} \X W!Filters : key[1] = W!Home /\ key[2] = "client"
    OBVIOUS
  <1>13. /\ Adding(W!Unsubscribe(e, f)) = {} /\ W!Unsubscribe(e, f).op \notin {"tag", "untag"}
         /\ {key \in W!Meant(e, f) : key[1] = W!Home => key[2] # "client"}
              \subseteq Removing(W!Unsubscribe(e, f))
    <2>1. CASE all /\ e = "collateral"
      <3>1. W!Unsubscribe(e, f) = W!DeleteAll(W!Home, e)
        BY <1>1, <2>1 DEF W!Unsubscribe
      <3>2. /\ Adding(W!DeleteAll(W!Home, e)) = {} /\ W!DeleteAll(W!Home, e).op = "delete"
            /\ Removing(W!DeleteAll(W!Home, e)) = {W!DeletedKey(W!Home, e, g) : g \in W!Filters}
        BY RowsOfOperations DEF W!DeleteAll
      <3>3. ASSUME NEW key \in W!Meant(e, f)
            PROVE  \E g \in W!Filters : key = W!DeletedKey(W!Home, e, g)
        BY <1>3, <1>4, <1>9, <2>1
      <3> QED
        BY <3>1, <3>2, <3>3
    <2>2. CASE all /\ e # "collateral"
      <3>1. W!Unsubscribe(e, f) = W!Each(e, "validators", W!Removes)
        BY <1>1, <2>2 DEF W!Unsubscribe
      <3> QED
        BY <1>8, <1>10, <1>11, <1>12, <2>2, <3>1
    <2>3. CASE ~ all
      <3>1. W!Unsubscribe(e, f) = W!Delete(W!NetworkOf(e), e, f)
        BY <1>1, <2>3 DEF W!Unsubscribe
      <3> QED
        BY <1>3, <1>7, <2>3, <3>1
    <2> QED
      BY <1>1, <2>1, <2>2, <2>3
  <1>14. /\ Adding(W!UnsubscribeOne(e, f)) = {} /\ W!UnsubscribeOne(e, f).op \notin {"tag", "untag"}
         /\ (f = "" => e # "collateral") =>
              W!Meant(e, f) \ ({W!Home} \X {"client"} \X W!Filters) \subseteq Removing(W!UnsubscribeOne(e, f))
    <2>1. CASE f = "" /\ ~ W!IsUserIndexed(e)
      <3>1. all /\ e # "client"
        BY <1>1, <2>1 DEF W!IsUserIndexed
      <3>2. W!UnsubscribeOne(e, f) = W!Each(e, "validators", W!Removes)
        BY <2>1 DEF W!UnsubscribeOne
      <3> QED
        BY <1>8, <1>10, <2>1, <3>1, <3>2
    <2>2. CASE ~ (f = "" /\ ~ W!IsUserIndexed(e))
      <3>1. W!UnsubscribeOne(e, f) = W!Delete(W!NetworkOf(e), e, f)
        BY <2>2 DEF W!UnsubscribeOne
      <3>2. all => e = "client"
        BY <1>1, <2>2 DEF W!IsUserIndexed
      <3> QED
        BY <1>3, <1>7, <1>11, <3>1, <3>2
    <2> QED
      BY <2>1, <2>2
  <1> QED
    BY <1>6, <1>13, <1>14

\* An item that is left out of a list is in it before.
LEMMA OnceIsEnough ==
    ASSUME NEW items \in W!Lists
    PROVE  \A i \in DOMAIN items : \E k \in DOMAIN W!OnlyOnce(items) : W!OnlyOnce(items)[k] = items[i]
  <1>1. PICK once : once = W!OnlyOnce(items)
    OBVIOUS
  <1>2. CASE once = items
    BY <1>1, <1>2
  <1>3. CASE once # items
    <2>1. /\ once = <<items[1]>> /\ Len(items) = 2
          /\ items[2][2] = "" /\ items[1][1] = items[2][1]
      BY <1>1, <1>3 DEF W!OnlyOnce
    <2>2. PICK ending : ending = <<"offline", "">>
      OBVIOUS
    <2>3. PICK item : items = <<item>> \/ (items = <<item, ending>> /\ item \in {"slashed", "offline"} \X {""})
      BY <2>2 DEF W!Lists
    <2>4. /\ Len(<<item>>) # 2 /\ <<item, ending>>[1] = item /\ <<item, ending>>[2] = ending
          /\ DOMAIN <<item, ending>> = {1, 2}
      OBVIOUS
    <2>5. items = <<item, ending>> /\ item \in {"slashed", "offline"} \X {""}
      <3>1. CASE items = <<item>>
        <4>1. Len(items) # 2
          BY ONLY <2>4, <3>1
        <4> QED
          BY ONLY <2>1, <4>1
      <3> QED
        BY ONLY <2>3, <3>1
    <2>6. items[1] = item /\ items[2] = ending /\ DOMAIN items = {1, 2}
      BY ONLY <2>4, <2>5
    <2>7. item = ending
      <3>1. item[1] = "offline" /\ item[2] = ""
        BY ONLY <2>1, <2>2, <2>5, <2>6
      <3>2. item = <<item[1], item[2]>>
        <4>1. PICK events, none : item \in events \X none
          BY ONLY <2>5
        <4> QED
          BY ONLY <4>1
      <3>3. <<item[1], item[2]>> = <<"offline", "">>
        BY ONLY <3>1
      <3> QED
        BY ONLY <2>2, <3>2, <3>3
    <2>8. once = <<item>>
      BY ONLY <2>1, <2>6
    <2>9. DOMAIN once = {1} /\ once[1] = item
      BY ONLY <2>8
    <2> QED
      BY ONLY <1>1, <2>6, <2>7, <2>9
  <1> QED
    BY <1>2, <1>3

\* Items asked for together are promised as far as the lists they stand for are
\* read whole.
LEMMA ItemsArePromised ==
    ASSUME WatchTypes, NEW items \in W!Lists
    PROVE  LET once == W!OnlyOnce(items)
           IN /\ Promises([i \in DOMAIN once |-> W!Subscribe(once[i][1], once[i][2], "own")],
                          IF W!Fits THEN W!AllMeant(items) ELSE {}, {})
              /\ Promises([i \in DOMAIN once |-> W!Unsubscribe(once[i][1], once[i][2])], {},
                          IF W!Fits THEN {key \in W!AllMeant(items) : key[1] = W!Home => key[2] # "client"}
                          ELSE {})
  <1>1. PICK once : once = W!OnlyOnce(items) /\ once \in Seq(EventFilters)
    BY ListsAre
  <1>2. \A i \in DOMAIN once : once[i][1] \in W!EventNames \ {"tax"} /\ once[i][2] \in W!Filters
    BY <1>1 DEF EventFilters
  <1>3. PICK meantOf : meantOf = [i \in DOMAIN once |-> W!Meant(once[i][1], once[i][2])]
    OBVIOUS
  <1>4. ASSUME NEW key \in W!AllMeant(items)
        PROVE  \E i \in DOMAIN once : key \in meantOf[i]
    <2>1. PICK i \in DOMAIN items : key \in W!Meant(items[i][1], items[i][2])
      BY <1>4 DEF W!AllMeant
    <2>2. PICK k \in DOMAIN once : once[k] = items[i]
      BY <1>1, OnceIsEnough
    <2> QED
      BY <1>3, <2>1, <2>2
  <1>5. "own" \in W!Thresholds
    BY DEF W!Thresholds
  <1>6. PICK subscribe, unsubscribe :
          /\ subscribe = [i \in DOMAIN once |-> W!Subscribe(once[i][1], once[i][2], "own")]
          /\ unsubscribe = [i \in DOMAIN once |-> W!Unsubscribe(once[i][1], once[i][2])]
    OBVIOUS
  <1>7. ASSUME NEW i \in DOMAIN once
        PROVE  /\ Adding(subscribe[i]) = meantOf[i] /\ Removing(subscribe[i]) = {}
               /\ Adding(unsubscribe[i]) = {}
               /\ {key \in meantOf[i] : key[1] = W!Home => key[2] # "client"} \subseteq Removing(unsubscribe[i])
               /\ subscribe[i].op \notin {"tag", "untag"} /\ unsubscribe[i].op \notin {"tag", "untag"}
    <2>1. PICK e \in W!EventNames \ {"tax"}, f \in W!Filters : e = once[i][1] /\ f = once[i][2]
      BY <1>2
    <2>2. /\ subscribe[i] = W!Subscribe(e, f, "own") /\ unsubscribe[i] = W!Unsubscribe(e, f)
          /\ meantOf[i] = W!Meant(e, f)
      BY <1>3, <1>6, <2>1
    <2>3. /\ Adding(W!Subscribe(e, f, "own")) = W!Meant(e, f) /\ Removing(W!Subscribe(e, f, "own")) = {}
          /\ Adding(W!Unsubscribe(e, f)) = {}
          /\ {key \in W!Meant(e, f) : key[1] = W!Home => key[2] # "client"}
               \subseteq Removing(W!Unsubscribe(e, f))
          /\ W!Subscribe(e, f, "own").op \notin {"tag", "untag"}
          /\ W!Unsubscribe(e, f).op \notin {"tag", "untag"}
      BY <1>5, MeantIs
    <2> QED
      BY ONLY <2>2, <2>3
  <1>8. DOMAIN subscribe = DOMAIN once /\ DOMAIN unsubscribe = DOMAIN once
    BY <1>6
  <1>9. PICK on : on = IF W!Fits THEN W!AllMeant(items) ELSE {}
    OBVIOUS
  <1>10. Promises(subscribe, on, {})
    <2>1. ASSUME NEW key \in on
          PROVE  ToCome(key, subscribe)
      <3>1. PICK i \in DOMAIN once : key \in meantOf[i]
        BY <1>4, <1>9, <2>1
      <3> QED
        BY <1>7, <1>8, <3>1 DEF ToCome, Ops
    <2>2. ListsLast(subscribe, on, {})
      BY <1>7, <1>8, <1>9 DEF ListsLast, Ops
    <2> QED
      BY <2>1, <2>2 DEF Promises
  <1>11. PICK off : off = IF W!Fits THEN {key \in W!AllMeant(items) : key[1] = W!Home => key[2] # "client"}
                          ELSE {}
    OBVIOUS
  <1>12. Promises(unsubscribe, {}, off)
    <2>1. ASSUME NEW key \in off
          PROVE  ToGo(key, unsubscribe)
      <3>1. key \in W!AllMeant(items) /\ (key[1] = W!Home => key[2] # "client")
        BY <1>11, <2>1
      <3>2. PICK i \in DOMAIN once : key \in meantOf[i]
        BY <1>4, <3>1
      <3>3. key \in Removing(unsubscribe[i])
        BY <1>7, <3>1, <3>2
      <3> QED
        BY <1>7, <1>8, <3>3 DEF ToGo, Ops
    <2>2. ListsLast(unsubscribe, {}, off)
      BY <1>7, <1>8, <1>11 DEF ListsLast, Ops
    <2> QED
      BY <2>1, <2>2 DEF Promises
  <1> QED
    BY <1>1, <1>6, <1>9, <1>10, <1>11, <1>12

\* Requests for events, reports and webhooks.
LEMMA AskOfEventsUndertakes ==
    ASSUME WatchTypes, NEW tab \in Tabs, W!AskOfEvents(tab)
    PROVE  Undertakes(tab)
  <1>1. ASSUME NEW ops, NEW on, NEW off, W!Begin(tab, ops, on, off), Promises(ops, on, off)
        PROVE  Undertakes(tab)
    BY <1>1 DEF Undertakes
  <1>2. ASSUME NEW e \in W!PageEvents, W!UserValidatorWatchlistAdd(tab, W!TooShort, {e})
        PROVE  Undertakes(tab)
    BY <1>2, AskOfOneUndertakes
  <1>3. ASSUME NEW es \in SUBSET {"network"}, W!UserModalAddNetworkEvent(tab, es)
        PROVE  Undertakes(tab)
    <2>1. "network" \in W!Filters /\ "zero" \in W!Thresholds
      BY DEF W!Filters, W!Thresholds
    <2>2. Brings(W!Boxes({"network"}, es, "network"), W!HomeKeys(es, {"network"}),
                 W!HomeKeys({"network"} \ es, {"network"}))
      BY <2>1, PagesBring
    <2>3. W!HomeKeys(es, {"network"}) \cap W!HomeKeys({"network"} \ es, {"network"}) = {}
      BY DEF W!HomeKeys
    <2>4. Promises(W!Boxes({"network"}, es, "network"), W!HomeKeys(es, {"network"}),
                   W!HomeKeys({"network"} \ es, {"network"}))
      BY <2>2, <2>3, BroughtIsPromised
    <2> QED
      BY <1>1, <1>3, <2>4 DEF W!UserModalAddNetworkEvent
  <1>4. ASSUME NEW items \in W!Lists,
               \/ W!MultipleUsersNotificationsSubscribe(tab, items, "own")
               \/ W!MultipleUsersNotificationsUnsubscribe(tab, items)
        PROVE  Undertakes(tab)
    BY <1>1, <1>4, ItemsArePromised
       DEF W!MultipleUsersNotificationsSubscribe, W!MultipleUsersNotificationsUnsubscribe
  <1>5. ASSUME NEW item \in W!Items, W!UserNotificationsUnsubscribe(tab, item[1], item[2])
        PROVE  Undertakes(tab)
    <2>1. PICK e \in W!EventNames \ {"tax"}, f \in W!Filters : e = item[1] /\ f = item[2]
      BY ListsAre DEF EventFilters
    <2>2. PICK op, off : /\ op = W!UnsubscribeOne(e, f)
                         /\ off = IF W!Fits /\ (f = "" => e # "collateral")
                                  THEN W!Meant(e, f) \ ({W!Home} \X {"client"} \X W!Filters) ELSE {}
      OBVIOUS
    <2>3. "own" \in W!Thresholds
      BY DEF W!Thresholds
    <2>4. /\ Adding(W!UnsubscribeOne(e, f)) = {}
          /\ (f = "" => e # "collateral") =>
               W!Meant(e, f) \ ({W!Home} \X {"client"} \X W!Filters) \subseteq Removing(W!UnsubscribeOne(e, f))
          /\ W!UnsubscribeOne(e, f).op \notin {"tag", "untag"}
      BY <2>3, MeantIs
    <2>5. Adding(op) = {} /\ off \subseteq Removing(op) /\ op.op \notin {"tag", "untag"}
      BY ONLY <2>2, <2>4
    <2>6. off = {} \/ W!Fits
      BY <2>2
    <2>7. Promises(<<op>>, {}, off)
      BY <2>5, <2>6, OpsOfOne DEF Promises, ToGo, ListsLast
    <2> QED
      BY <1>1, <1>5, <2>1, <2>2, <2>7 DEF W!UserNotificationsUnsubscribe
  <1>6. ASSUME NEW key \in DOMAIN subs, key[1] # "other",
               W!UserNotificationsUnsubscribeByHash(tab, {key})
        PROVE  Undertakes(tab)
    <2>1. Adding(W!Forget({key})) = {} /\ Removing(W!Forget({key})) = {key} /\ W!Forget({key}).op = "delete"
      BY RowsOfOperations DEF W!Forget
    <2>2. PICK op : op = W!Forget({key})
      OBVIOUS
    <2>3. Ops(<<op>>) = {op} /\ Adding(op) = {} /\ Removing(op) = {key} /\ op.op = "delete"
      BY <2>1, <2>2, OpsOfOne
    <2>4. ToGo(key, <<op>>)
      BY <2>3 DEF ToGo
    <2>5. ListsLast(<<op>>, {}, {key})
      BY <2>3 DEF ListsLast
    <2>6. Promises(<<W!Forget({key})>>, {}, {key})
      BY <2>2, <2>4, <2>5 DEF Promises
    <2> QED
      BY <1>1, <1>6, <2>6 DEF W!UserNotificationsUnsubscribeByHash
  <1>7. ASSUME NEW report \in W!TaxReports, W!RewardNotificationSubscribe(tab, report)
        PROVE  Undertakes(tab)
    <2>1. PICK op, key : op = W!Add(W!Home, "tax", report, "zero") /\ key = <<W!Home, "tax", report>>
      OBVIOUS
    <2>2. Adding(op) = {key} /\ Removing(op) = {} /\ op.op = "add"
      BY <2>1, RowsOfOperations DEF W!Add
    <2>3. Promises(<<op>>, {key}, {})
      BY <2>2, OpsOfOne DEF Promises, ToCome, ListsLast
    <2> QED
      BY <1>1, <1>7, <2>1, <2>3 DEF W!RewardNotificationSubscribe
  <1>8. ASSUME NEW report \in W!TaxReports, W!RewardNotificationUnsubscribe(tab, report)
        PROVE  Undertakes(tab)
    <2>1. PICK op, key : op = W!Delete(W!Home, "tax", report) /\ key = <<W!Home, "tax", report>>
      OBVIOUS
    <2>2. W!DeletedKey(W!Home, "tax", report) = key
      BY <2>1 DEF W!DeletedKey, W!IsUserIndexed
    <2>3. Adding(op) = {} /\ Removing(op) = {key} /\ op.op = "delete"
      BY <2>1, <2>2, RowsOfOperations DEF W!Delete
    <2>4. Promises(<<op>>, {}, {key})
      BY <2>3, OpsOfOne DEF Promises, ToGo, ListsLast
    <2> QED
      BY <1>1, <1>8, <2>1, <2>4 DEF W!RewardNotificationUnsubscribe
  <1>9. ASSUME NEW n, W!Begin(tab, <<W!Hook(n)>>, {}, {})
        PROVE  Undertakes(tab)
    <2>1. W!Hook(n).op = "hook"
      BY DEF W!Hook
    <2>2. Promises(<<W!Hook(n)>>, {}, {})
      BY <2>1, OpsOfOne DEF Promises, ListsLast
    <2> QED
      BY <1>1, <1>9, <2>2
  <1>10. CASE W!UsersAddWebhook(tab)
    BY <1>9, <1>10 DEF W!UsersAddWebhook
  <1>11. CASE W!UsersDeleteWebhook(tab)
    BY <1>9, <1>11 DEF W!UsersDeleteWebhook
  <1> QED
    BY <1>2, <1>3, <1>4, <1>5, <1>6, <1>7, <1>8, <1>10, <1>11 DEF W!AskOfEvents

\* Whatever the user asks for.
LEMMA AskUndertakes ==
    ASSUME WatchTypes, NEW tab \in Tabs, W!Ask(tab)
    PROVE  Undertakes(tab)
  <1>1. ASSUME NEW v \in Validators, W!AskOfOne(tab, v)
        PROVE  Undertakes(tab)
    <2>1. CASE W!UserValidatorWatchlistRemove(tab, v)
      <3>1. {} \in SUBSET W!PageEvents
        OBVIOUS
      <3> QED
        BY <2>1, <3>1, AskOfOneUndertakes
    <2>2. ASSUME NEW es \in SUBSET W!PageEvents,
                 W!UserValidatorWatchlistAdd(tab, v, es) \/ W!AddValidatorsAndSubscribe(tab, v, es)
          PROVE  Undertakes(tab)
      BY <2>2, AskOfOneUndertakes
    <2> QED
      BY <1>1, <2>1, <2>2 DEF W!AskOfOne
  <1>2. ASSUME NEW vs \in SUBSET Validators, W!AskOfValidators(tab, vs)
        PROVE  Undertakes(tab)
    BY <1>2, AskOfValidatorsUndertakes
  <1> QED
    BY <1>1, <1>2, AskOfEventsUndertakes DEF W!Ask

-----------------------------------------------------------------------------
(* The watchlist: what is done about it *)

\* What is promised when nothing is to be cleared first any more.
Settling(ops, on, off) ==
  /\ \A key \in on : ToCome(key, ops)
  /\ \A key \in off : ToGo(key, ops)
  /\ ListsLast(ops, on, off)

\* Promises depend on the rows, the followed validators and the plan of the user.
LEMMA PromisesStay ==
    ASSUME NEW ops, NEW on, NEW off, UNCHANGED <<plan, tags, subs>>
    PROVE  /\ Promises(ops, on, off) => Promises(ops, on, off)'
           /\ Settling(ops, on, off) => Settling(ops, on, off)'
  <1>1. \A op : Adding(op)' = Adding(op) /\ Removing(op)' = Removing(op)
    BY DEF Adding, Removing, W!Listed
  <1>2. W!Fits' = W!Fits
    BY DEF W!Fits
  <1>3. Ops(ops)' = Ops(ops) /\ Ops(Tail(ops))' = Ops(Tail(ops))
    OBVIOUS
  <1>4. \A key : /\ ToCome(key, ops)' = ToCome(key, ops)
                 /\ ToComeAfter(key, ops)' = ToComeAfter(key, ops)
                 /\ ToGo(key, ops)' = ToGo(key, ops)
    BY <1>1, <1>3 DEF ToCome, ToComeAfter, ToGo
  <1>5. ListsLast(ops, on, off)' = ListsLast(ops, on, off)
    BY <1>2, <1>3 DEF ListsLast
  <1> QED
    BY <1>4, <1>5 DEF Promises, Settling

\* An operation of the plan is done, one that is no list.
LEMMA FirstDone ==
    ASSUME NEW Kind, NEW ops \in Seq(Kind), ops # <<>>, NEW on, NEW off, Promises(ops, on, off),
           plan' = plan, Head(ops).op # "each", tags' = tags \/ Head(ops).op \in {"tag", "untag"},
           DOMAIN subs' = (DOMAIN subs \ Removing(Head(ops))) \cup Adding(Head(ops))
    PROVE  Settling(Tail(ops), on, off)'
  <1>1. PICK first, rest : first = Head(ops) /\ rest = Tail(ops)
    OBVIOUS
  <1>2. Ops(ops) = {first} \cup Ops(rest)
    BY <1>1, OpsOfRest
  <1>3. \A op \in Ops(rest) : op.op = "each" => op \in Ops(ops) /\ first \in Ops(ops)
    BY <1>2
  <1>4. (\E op \in Ops(rest) : op.op = "each") =>
          /\ on \cup off = {} \/ W!Fits
          /\ first.op \notin {"tag", "untag"} /\ \A op \in Ops(rest) : op.op \notin {"tag", "untag"}
    BY <1>2 DEF Promises, ListsLast
  <1>5. \A op \in Ops(rest) : Adding(op)' = Adding(op) /\ Removing(op)' = Removing(op)
    <2>1. CASE tags' = tags
      BY <2>1 DEF Adding, Removing, W!Listed
    <2>2. CASE tags' # tags
      <3>1. \A op \in Ops(rest) : op.op # "each"
        BY <1>1, <1>4, <2>2
      <3> QED
        BY <3>1 DEF Adding, Removing
    <2> QED
      BY <2>1, <2>2
  <1>6. PICK keysNow, keysThen, added, removed :
          /\ keysNow = DOMAIN subs /\ keysThen = DOMAIN subs'
          /\ added = Adding(first) /\ removed = Removing(first)
    OBVIOUS
  <1>7. keysThen = (keysNow \ removed) \cup added
    BY <1>1, <1>6
  <1>8. first.op = "delete" => added = {}
    BY <1>6 DEF Adding
  <1>9. ASSUME NEW key \in on
        PROVE  ToCome(key, rest)'
    <2>1. CASE ToCome(key, ops)
      <3>1. /\ key \notin removed /\ \A op \in Ops(rest) : key \notin Removing(op)
            /\ key \in keysNow \/ key \in added \/ \E op \in Ops(rest) : key \in Adding(op)
        BY <1>2, <1>6, <2>1 DEF ToCome
      <3>2. /\ \A op \in Ops(rest) : key \notin Removing(op)'
            /\ key \in keysThen \/ \E op \in Ops(rest) : key \in Adding(op)'
        BY <1>5, <1>7, <3>1
      <3> QED
        BY <1>6, <3>2 DEF ToCome
    <2>2. CASE ToComeAfter(key, ops)
      <3>1. /\ \A op \in Ops(rest) : key \notin Removing(op)
            /\ \E op \in Ops(rest) : key \in Adding(op)
        BY <1>1, <2>2 DEF ToComeAfter
      <3>2. /\ \A op \in Ops(rest) : key \notin Removing(op)'
            /\ \E op \in Ops(rest) : key \in Adding(op)'
        BY <1>5, <3>1
      <3> QED
        BY <3>2 DEF ToCome
    <2> QED
      BY <1>9, <2>1, <2>2 DEF Promises
  <1>10. ASSUME NEW key \in off
         PROVE  ToGo(key, rest)'
    <2>1. /\ key \notin added /\ \A op \in Ops(rest) : key \notin Adding(op)
          /\ key \notin keysNow \/ key \in removed \/ \E op \in Ops(rest) : key \in Removing(op)
      BY <1>2, <1>6, <1>10 DEF Promises, ToGo
    <2>2. /\ \A op \in Ops(rest) : key \notin Adding(op)'
          /\ key \notin keysThen \/ \E op \in Ops(rest) : key \in Removing(op)'
      BY <1>5, <1>7, <2>1
    <2> QED
      BY <1>6, <2>2 DEF ToGo
  <1>11. ListsLast(rest, on, off)'
    <2>1. ASSUME \E op \in Ops(rest) : op.op = "each", W!Fits
          PROVE  W!Fits'
      <3>1. tags' = tags
        BY <1>1, <1>4, <2>1
      <3> QED
        BY <2>1, <3>1 DEF W!Fits
    <2>2. (\E op \in Ops(rest) : op.op = "each") =>
            /\ on \cup off = {} \/ W!Fits'
            /\ \A op \in Ops(rest) : op.op \notin {"tag", "untag"}
      BY <1>4, <2>1
    <2> QED
      BY <2>2 DEF ListsLast
  <1> QED
    BY <1>1, <1>9, <1>10, <1>11 DEF Settling

\* The smaller of two numbers is the first if that is not greater.
LEMMA FirstIsLesser ==
    ASSUME NEW m \in Nat, NEW n \in Nat, m <= n
    PROVE  W!Min({m, n}) = m
  <1>1. \A S : W!Min(S) = CHOOSE x \in S : \A y \in S : x <= y
    BY Zenon DEF W!Min
  <1>2. m \in {m, n} /\ \A y \in {m, n} : m <= y
    OBVIOUS
  <1>3. W!Min({m, n}) \in {m, n} /\ \A y \in {m, n} : W!Min({m, n}) <= y
    BY <1>1, <1>2
  <1> QED
    BY <1>3

\* What a list becomes: all its rows if it is read whole, and no others.
LEMMA ExpandedBrings ==
    ASSUME WatchTypes, NEW op \in Eaching, NEW order \in W!SetToSeqs(W!Listed(op.list))
    PROVE  LET ops == W!Expanded(op, order)
           IN /\ \A x \in Ops(ops) : /\ x.op \in {"add", "delete"}
                                     /\ Adding(x) \subseteq Adding(op) /\ Removing(x) \subseteq Removing(op)
              /\ W!Fits => /\ \A key \in Adding(op) : \E x \in Ops(ops) : key \in Adding(x)
                           /\ \A key \in Removing(op) : \E x \in Ops(ops) : key \in Removing(x)
  <1>1. PICK listed, e, t, ops : /\ listed = W!Listed(op.list) /\ e = op.event /\ t = op.threshold
                                 /\ ops = W!Expanded(op, order)
    OBVIOUS
  <1>2. tags \subseteq Validators /\ IsFiniteSet(tags)
    BY WatchlistConstants, FS_Subset DEF WatchTypes
  <1>3. PICK several \in Nat : several = Cardinality(tags)
    BY <1>2, FS_CardinalityType
  <1>4. IsFiniteSet(listed) /\ Cardinality(listed) <= several
    <2>1. CASE op.list = "nodes"
      <3>1. listed = {NodeOf[v] : v \in tags}
        BY <1>1, <2>1 DEF W!Listed
      <3>2. PICK f : f = [v \in tags |-> NodeOf[v]]
        OBVIOUS
      <3>3. f \in Surjection(tags, listed)
        BY <3>1, <3>2 DEF Surjection
      <3> QED
        BY <1>2, <1>3, <3>3, FS_Surjection
    <2>2. CASE op.list # "nodes"
      <3>1. listed = tags
        BY <1>1, <2>2 DEF W!Listed
      <3> QED
        BY <1>2, <1>3, <3>1
    <2> QED
      BY <2>1, <2>2
  <1>5. PICK c \in Nat : c = Cardinality(listed) /\ c <= several
    BY <1>4, FS_CardinalityType
  <1>6. order \in [1 .. c -> listed] /\ \A i, k \in 1 .. c : i # k => order[i] # order[k]
    BY <1>1, <1>5, WatchlistConstants DEF W!SetToSeqs
  <1>7. \A f \in listed : \E i \in 1 .. c : order[i] = f
    <2>1. order \in Injection(1 .. c, listed)
      BY <1>6 DEF Injection, IsInjective
    <2>2. IsFiniteSet(1 .. c) /\ Cardinality(1 .. c) = c
      BY FS_Interval
    <2>3. order \in Surjection(1 .. c, listed)
      BY <1>4, <1>5, <2>1, <2>2, FS_Injection
    <2> QED
      BY <2>3 DEF Surjection
  <1>8. order \in Seq(listed) /\ Len(order) = c
    BY <1>5, <1>6
  <1>9. PICK k, most : /\ k = W!Min({Len(order), MaxValidators[plan] + 1})
                       /\ most = MaxValidators[plan] + 1
    OBVIOUS
  <1>10. most \in Nat /\ k \in Nat /\ k <= c
    BY <1>8, <1>9, LesserOfTwo, WatchlistConstants DEF WatchTypes
  <1>11. DOMAIN W!Cut(order) = 1 .. k
    BY <1>6, <1>8, <1>9, <1>10 DEF W!Cut
  <1>12. ops = [i \in 1 .. k |-> IF t = W!Removes THEN W!Delete(W!Home, e, order[i])
                                 ELSE W!Add(W!Home, e, order[i], t)]
    BY <1>1, <1>11 DEF W!Expanded
  <1>13. /\ op.op = "each"
         /\ Adding(op) = IF t # W!Removes THEN {W!Home} \X {e} \X listed ELSE {}
         /\ Removing(op) = IF t = W!Removes THEN {W!DeletedKey(W!Home, e, f) : f \in listed} ELSE {}
    BY <1>1 DEF Eaching, Adding, Removing
  <1>14. ASSUME NEW i \in 1 .. k
         PROVE  /\ ops[i].op \in {"add", "delete"} /\ order[i] \in listed
                /\ Adding(ops[i]) = IF t = W!Removes THEN {} ELSE {<<W!Home, e, order[i]>>}
                /\ Removing(ops[i]) = IF t = W!Removes THEN {W!DeletedKey(W!Home, e, order[i])} ELSE {}
    <2>1. PICK f \in listed : f = order[i]
      BY <1>5, <1>6, <1>10
    <2>2. CASE t = W!Removes
      <3>1. ops[i] = W!Delete(W!Home, e, f)
        BY <1>12, <2>1, <2>2
      <3>2. W!Delete(W!Home, e, f).op = "delete"
        BY DEF W!Delete
      <3>3. Adding(ops[i]) = {} /\ Removing(ops[i]) = {W!DeletedKey(W!Home, e, f)}
        BY <3>1, RowsOfOperations
      <3> QED
        BY <2>1, <2>2, <3>1, <3>2, <3>3
    <2>3. CASE t # W!Removes
      <3>1. ops[i] = W!Add(W!Home, e, f, t)
        BY <1>12, <2>1, <2>3
      <3>2. W!Add(W!Home, e, f, t).op = "add"
        BY DEF W!Add
      <3>3. Adding(ops[i]) = {<<W!Home, e, f>>} /\ Removing(ops[i]) = {}
        BY <3>1, RowsOfOperations
      <3> QED
        BY <2>1, <2>3, <3>1, <3>2, <3>3
    <2> QED
      BY <2>2, <2>3
  <1>15. DOMAIN ops = 1 .. k
    BY <1>12
  <1>16. ASSUME NEW x \in Ops(ops)
         PROVE  /\ x.op \in {"add", "delete"}
                /\ Adding(x) \subseteq Adding(op) /\ Removing(x) \subseteq Removing(op)
    <2>1. PICK i \in 1 .. k : x = ops[i]
      BY <1>15 DEF Ops
    <2>2. CASE t = W!Removes
      BY <1>13, <1>14, <2>1, <2>2
    <2>3. CASE t # W!Removes
      BY <1>13, <1>14, <2>1, <2>3
    <2> QED
      BY <2>2, <2>3
  <1>17. ASSUME W!Fits
         PROVE  k = c
    <2>1. several <= most
      BY <1>3, <1>9, <1>17, WatchlistConstants DEF W!Fits
    <2>2. c <= most
      BY <1>3, <1>5, <1>10, <2>1
    <2> QED
      BY <1>8, <1>9, <1>10, <2>2, FirstIsLesser
  <1>18. ASSUME W!Fits
         PROVE  /\ \A key \in Adding(op) : \E x \in Ops(ops) : key \in Adding(x)
                /\ \A key \in Removing(op) : \E x \in Ops(ops) : key \in Removing(x)
    <2>1. \A f \in listed : \E i \in DOMAIN ops : order[i] = f
      BY <1>7, <1>15, <1>17, <1>18
    <2>2. ASSUME NEW key \in Adding(op)
          PROVE  \E x \in Ops(ops) : key \in Adding(x)
      <3>1. t # W!Removes /\ \E f \in listed : key = <<W!Home, e, f>>
        BY <1>13, <2>2
      <3>2. PICK i \in DOMAIN ops : key = <<W!Home, e, order[i]>>
        BY <2>1, <3>1
      <3>3. key \in Adding(ops[i])
        BY <1>14, <1>15, <3>1, <3>2
      <3> QED
        BY <3>3 DEF Ops
    <2>3. ASSUME NEW key \in Removing(op)
          PROVE  \E x \in Ops(ops) : key \in Removing(x)
      <3>1. t = W!Removes /\ \E f \in listed : key = W!DeletedKey(W!Home, e, f)
        BY <1>13, <2>3
      <3>2. PICK i \in DOMAIN ops : key = W!DeletedKey(W!Home, e, order[i])
        BY <2>1, <3>1
      <3>3. key \in Removing(ops[i])
        BY <1>14, <1>15, <3>1, <3>2
      <3> QED
        BY <3>3 DEF Ops
    <2> QED
      BY <2>2, <2>3
  <1> QED
    BY <1>1, <1>16, <1>18

\* A list that comes first is read, and becomes one operation for each member.
LEMMA ListRead ==
    ASSUME WatchTypes, NEW op \in Eaching, NEW order \in W!SetToSeqs(W!Listed(op.list)),
           NEW ops \in Seq(PlainOps), ops # <<>>, Head(ops) = op, NEW on, NEW off, Promises(ops, on, off)
    PROVE  Settling(W!Expanded(op, order) \o Tail(ops), on, off)
  <1>1. PICK first, rest : first = W!Expanded(op, order) /\ rest = Tail(ops)
    OBVIOUS
  <1>2. /\ Ops(ops) = {op} \cup Ops(rest)
        /\ Ops(first \o rest) = Ops(first) \cup Ops(rest)
    <2>1. rest \in Seq(PlainOps)
      BY <1>1
    <2>2. first \in Seq(PlainOps)
      BY <1>1, ExpandedIs DEF Plain
    <2>3. Ops(first \o rest) = Ops(first) \cup Ops(rest)
      BY ONLY <2>1, <2>2, OpsOfJoined
    <2> QED
      BY <1>1, <2>3, OpsOfRest
  <1>3. /\ \A x \in Ops(first) : /\ x.op \in {"add", "delete"}
                                 /\ Adding(x) \subseteq Adding(op) /\ Removing(x) \subseteq Removing(op)
        /\ W!Fits => /\ \A key \in Adding(op) : \E x \in Ops(first) : key \in Adding(x)
                     /\ \A key \in Removing(op) : \E x \in Ops(first) : key \in Removing(x)
    BY <1>1, ExpandedBrings
  <1>4. op.op = "each"
    BY DEF Eaching
  <1>5. /\ on \cup off = {} \/ W!Fits
        /\ \A x \in Ops(rest) : x.op \notin {"tag", "untag"}
    BY <1>2, <1>4 DEF Promises, ListsLast
  <1>6. ASSUME NEW key \in on
        PROVE  ToCome(key, first \o rest)
    <2>1. W!Fits /\ ToCome(key, ops)
      BY <1>4, <1>5, <1>6 DEF Promises, ToComeAfter
    <2> QED
      BY <1>2, <1>3, <2>1 DEF ToCome
  <1>7. ASSUME NEW key \in off
        PROVE  ToGo(key, first \o rest)
    <2>1. W!Fits /\ ToGo(key, ops)
      BY <1>5, <1>7 DEF Promises
    <2> QED
      BY <1>2, <1>3, <2>1 DEF ToGo
  <1>8. ListsLast(first \o rest, on, off)
    BY <1>2, <1>3, <1>5 DEF ListsLast
  <1> QED
    BY <1>1, <1>6, <1>7, <1>8 DEF Settling

\* An operation of a handler that keeps its promises.
LEMMA RunSettles ==
    ASSUME WatchInv, NEW tab \in Tabs, W!Run(tab), NEW ops, ops = running[tab].ops,
           NEW on, NEW off, Promises(ops, on, off)
    PROVE  \E later : W!Onward(tab, later) /\ Settling(later, on, off)'
  <1>1. PICK op, rest : op = Head(ops) /\ rest = Tail(ops)
    OBVIOUS
  <1>2. /\ ops # <<>> /\ plan' = plan
        /\ \/ W!RunTag(tab, op) \/ W!RunUntag(tab, op) \/ W!RunAdd(tab, op) \/ W!RunDelete(tab, op)
           \/ W!RunEach(tab, op) \/ W!RunHook(tab, op)
    BY <1>1 DEF W!Run
  <1>3. PICK Kind : Kind = PlainOps \cup TaxOps \cup HookOps
    OBVIOUS
  <1>4. ops \in Seq(Kind) /\ op \in Kind /\ (op \in Eaching => ops \in Seq(PlainOps))
    <2>1. Plain(ops) \/ Taxing(ops) \/ Hooking(ops)
      BY DEF WatchInv, PlansFine
    <2>2. CASE Plain(ops)
      <3>1. ops \in Seq(PlainOps)
        BY <2>2 DEF Plain
      <3>2. ops \in Seq(Kind)
        BY <1>3, <3>1
      <3> QED
        BY <1>1, <1>2, <3>1, <3>2
    <2>3. CASE Taxing(ops) \/ Hooking(ops)
      <3>1. PICK one \in TaxOps \cup HookOps : ops = <<one>>
        BY <2>3 DEF Taxing, Hooking
      <3>2. op = one /\ ops \in Seq(Kind)
        BY <1>1, <1>3, <3>1
      <3>3. one \notin Eaching
        BY <3>1 DEF TaxOps, HookOps, Eaching
      <3> QED
        BY <1>3, <3>1, <3>2, <3>3
    <2> QED
      BY <2>1, <2>2, <2>3
  <1>5. ASSUME op.op # "each", tags' = tags \/ op.op \in {"tag", "untag"}, W!Onward(tab, rest),
               DOMAIN subs' = (DOMAIN subs \ Removing(op)) \cup Adding(op)
        PROVE  \E later : W!Onward(tab, later) /\ Settling(later, on, off)'
    <2>1. Settling(rest, on, off)'
      BY <1>1, <1>2, <1>4, <1>5, FirstDone
    <2> QED
      BY <1>5, <2>1
  <1>6. CASE W!RunTag(tab, op)
    <2>1. op.op = "tag" /\ W!Onward(tab, rest) /\ subs' = subs
      BY <1>1, <1>6 DEF W!RunTag
    <2>2. Adding(op) = {} /\ Removing(op) = {}
      BY <2>1 DEF Adding, Removing
    <2> QED
      BY <1>5, <2>1, <2>2
  <1>7. CASE W!RunUntag(tab, op)
    <2>1. op.op = "untag" /\ W!Onward(tab, rest) /\ subs' = W!Without(W!SubsOf(op.vs))
      BY <1>1, <1>7 DEF W!RunUntag
    <2>2. Adding(op) = {} /\ Removing(op) = {W!Home} \X W!EventNames \X op.vs
      BY <2>1 DEF Adding, Removing
    <2>3. DOMAIN subs' = DOMAIN subs \ W!SubsOf(op.vs)
      BY <2>1, WithoutIs
    <2>4. \A key \in DOMAIN subs : key \in W!SubsOf(op.vs) <=> key \in Removing(op)
      <3>1. DOMAIN subs \subseteq W!Networks \X W!EventNames \X W!Filters
        BY DEF WatchInv, WatchTypes
      <3> QED
        BY <2>2, <3>1 DEF W!SubsOf
    <2>5. DOMAIN subs' = (DOMAIN subs \ Removing(op)) \cup Adding(op)
      BY <2>2, <2>3, <2>4
    <2> QED
      BY <1>5, <2>1, <2>5
  <1>8. CASE W!RunAdd(tab, op)
    <2>1. op.op = "add" /\ W!Onward(tab, rest) /\ subs' = W!WithSub(op.key, op.threshold) /\ tags' = tags
      BY <1>1, <1>8 DEF W!RunAdd
    <2>2. Adding(op) = {op.key} /\ Removing(op) = {}
      BY <2>1 DEF Adding, Removing
    <2>3. DOMAIN subs' = DOMAIN subs \cup {op.key}
      <3>1. PICK key, t, new : key = op.key /\ t = op.threshold /\ new = subs'
        OBVIOUS
      <3>2. new = W!WithSub(key, t)
        BY <2>1, <3>1
      <3>3. DOMAIN new = DOMAIN subs \cup {key}
        BY ONLY <3>2, WithSubIs
      <3> QED
        BY <3>1, <3>3
    <2> QED
      BY <1>5, <2>1, <2>2, <2>3
  <1>9. CASE W!RunDelete(tab, op)
    <2>1. op.op = "delete" /\ W!Onward(tab, rest) /\ subs' = W!Without(op.keys) /\ tags' = tags
      BY <1>1, <1>9 DEF W!RunDelete
    <2>2. Adding(op) = {} /\ Removing(op) = op.keys
      BY <2>1 DEF Adding, Removing
    <2>3. DOMAIN subs' = DOMAIN subs \ op.keys
      BY <2>1, WithoutIs
    <2> QED
      BY <1>5, <2>1, <2>2, <2>3
  <1>10. CASE W!RunEach(tab, op)
    <2>1. PICK order \in W!SetToSeqs(W!Listed(op.list)) : W!Onward(tab, W!Expanded(op, order) \o rest)
      BY <1>1, <1>10 DEF W!RunEach
    <2>2. op.op = "each" /\ UNCHANGED <<plan, tags, subs>>
      BY <1>2, <1>10 DEF W!RunEach
    <2>3. op \in Eaching
      BY <1>3, <1>4, <2>2, KindOf
    <2>4. PICK later : later = W!Expanded(op, order) \o rest
      OBVIOUS
    <2>5. Settling(later, on, off)
      BY <1>1, <1>2, <1>4, <2>3, <2>4, ListRead DEF WatchInv
    <2>6. Settling(later, on, off)'
      BY <2>2, <2>5, PromisesStay
    <2> QED
      BY <2>1, <2>4, <2>6
  <1>11. CASE W!RunHook(tab, op)
    <2>1. op.op = "hook" /\ W!Onward(tab, rest) /\ subs' = subs /\ tags' = tags
      BY <1>1, <1>11 DEF W!RunHook
    <2>2. Adding(op) = {} /\ Removing(op) = {}
      BY <2>1 DEF Adding, Removing
    <2> QED
      BY <1>5, <2>1, <2>2
  <1> QED
    BY <1>2, <1>6, <1>7, <1>8, <1>9, <1>10, <1>11

\* What else a step of a handler leaves of it and of the others.
LEMMA OnwardLeaves ==
    ASSUME WatchTypes, NEW tab \in Tabs, NEW ops, W!Onward(tab, ops)
    PROVE  /\ running'[tab].ops = ops
           /\ ops # <<>> => /\ running'[tab].on = running[tab].on /\ running'[tab].off = running[tab].off
                            /\ running'[tab].alone = running[tab].alone
           /\ \A x \in Tabs \ {tab} : ~ running'[x].alone /\ running'[x].ops = running[x].ops
  <1>1. running' = [t \in Tabs |-> IF t # tab THEN [running[t] EXCEPT !.alone = FALSE]
                             ELSE IF ops = <<>> THEN W!Idle ELSE [running[t] EXCEPT !.ops = ops]]
    BY DEF W!Onward
  <1>2. \A x \in Tabs : DOMAIN running[x] = {"ops", "on", "off", "alone"}
    BY DEF WatchTypes
  <1>3. running'[tab].ops = ops /\ \A x \in Tabs \ {tab} : running'[x].ops = running[x].ops
    BY OnwardIs
  <1>4. ASSUME NEW x \in Tabs, x # tab
        PROVE  ~ running'[x].alone
    <2>1. running'[x] = [running[x] EXCEPT !.alone = FALSE]
      BY <1>1, <1>4
    <2> QED
      BY <1>2, <2>1
  <1>5. ASSUME ops # <<>>
        PROVE  /\ running'[tab].on = running[tab].on /\ running'[tab].off = running[tab].off
               /\ running'[tab].alone = running[tab].alone
    <2>1. running'[tab] = [running[tab] EXCEPT !.ops = ops]
      BY <1>1, <1>5
    <2> QED
      BY <1>2, <2>1
  <1> QED
    BY <1>3, <1>4, <1>5

\* A request begins.
LEMMA AskKeepsPromises ==
    ASSUME WatchTypes, PromisesKept, NEW tab \in Tabs, W!Ask(tab)
    PROVE  PromisesKept'
  <1>1. PICK ops, on, off : W!Begin(tab, ops, on, off) /\ Promises(ops, on, off)
    BY AskUndertakes DEF Undertakes
  <1>2. /\ running' = [running EXCEPT ![tab] = [ops |-> ops, on |-> on, off |-> off, alone |-> TRUE]]
        /\ UNCHANGED <<plan, tags, subs>>
    BY <1>1 DEF W!Begin
  <1>3. DOMAIN running = Tabs
    BY DEF WatchTypes
  <1>4. ASSUME NEW x \in Tabs, running'[x].alone, running'[x].ops # <<>>
        PROVE  Promises(running[x].ops, running[x].on, running[x].off)'
    <2>1. CASE x = tab
      <3>1. running'[x] = [ops |-> ops, on |-> on, off |-> off, alone |-> TRUE]
        BY <1>2, <1>3, <2>1
      <3>2. running'[x].ops = ops /\ running'[x].on = on /\ running'[x].off = off
        BY <3>1
      <3>3. Promises(ops, on, off)'
        BY <1>1, <1>2, PromisesStay
      <3> QED
        BY <3>2, <3>3
    <2>2. CASE x # tab
      <3>1. PICK opsOf, onOf, offOf : opsOf = running[x].ops /\ onOf = running[x].on /\ offOf = running[x].off
        OBVIOUS
      <3>2. running'[x] = running[x]
        BY <1>2, <1>3, <2>2
      <3>3. Promises(opsOf, onOf, offOf)
        BY <1>4, <3>1, <3>2 DEF PromisesKept
      <3>4. Promises(opsOf, onOf, offOf)'
        BY <1>2, <3>3, PromisesStay
      <3> QED
        BY <3>1, <3>2, <3>4
    <2> QED
      BY <2>1, <2>2
  <1> QED
    BY <1>4 DEF PromisesKept

\* An operation runs: the others are not alone any more.
LEMMA RunKeepsPromises ==
    ASSUME WatchInv, PromisesKept, NEW tab \in Tabs, W!Run(tab)
    PROVE  PromisesKept'
  <1>1. PICK ops, on, off : ops = running[tab].ops /\ on = running[tab].on /\ off = running[tab].off
    OBVIOUS
  <1>2. ops # <<>>
    BY <1>1 DEF W!Run
  <1>3. ASSUME NEW x \in Tabs, running'[x].alone, running'[x].ops # <<>>
        PROVE  Promises(running[x].ops, running[x].on, running[x].off)'
    <2>1. \E rest : W!Onward(tab, rest)
      BY DEF W!Run, W!RunTag, W!RunUntag, W!RunAdd, W!RunDelete, W!RunEach, W!RunHook
    <2>2. x = tab
      <3>1. PICK rest : W!Onward(tab, rest)
        BY <2>1
      <3> QED
        BY <1>3, <3>1, OnwardLeaves DEF WatchInv
    <2>3. running[tab].alone
      <3>1. PICK rest : W!Onward(tab, rest)
        BY <2>1
      <3>2. running'[tab].ops = rest /\ (rest # <<>> => running'[tab].alone = running[tab].alone)
        BY <3>1, OnwardLeaves DEF WatchInv
      <3> QED
        BY <1>3, <2>2, <3>2
    <2>4. Promises(ops, on, off)
      BY <1>1, <1>2, <2>3 DEF PromisesKept
    <2>5. PICK later : W!Onward(tab, later) /\ Settling(later, on, off)'
      BY <1>1, <2>4, RunSettles
    <2>6. /\ running'[tab].ops = later
          /\ later # <<>> => running'[tab].on = on /\ running'[tab].off = off
      BY <1>1, <2>5, OnwardLeaves DEF WatchInv
    <2>7. running'[x].ops = later /\ running'[x].on = on /\ running'[x].off = off
      BY <1>3, <2>2, <2>6
    <2>8. Promises(later, on, off)'
      BY <2>5 DEF Settling, Promises
    <2> QED
      BY <2>7, <2>8
  <1> QED
    BY <1>3 DEF PromisesKept

\* An operation fails: a loop that unfollows goes on, and promises no row away.
LEMMA FailKeepsPromises ==
    ASSUME WatchInv, PromisesKept, NEW tab \in Tabs, W!Fail(tab)
    PROVE  PromisesKept'
  <1>1. PICK ops, on, off, rest : /\ ops = running[tab].ops /\ on = running[tab].on
                                  /\ off = running[tab].off /\ rest = Tail(ops)
    OBVIOUS
  <1>2. /\ ops # <<>> /\ UNCHANGED <<plan, tags, subs>>
        /\ running' = [running EXCEPT ![tab] =
             IF Head(ops).op = "untag" /\ Len(ops) > 1
             THEN [running[tab] EXCEPT !.ops = rest, !.off = {}] ELSE W!Idle]
    BY <1>1 DEF W!Fail
  <1>3. DOMAIN running = Tabs /\ DOMAIN running[tab] = {"ops", "on", "off", "alone"}
    BY DEF WatchInv, WatchTypes
  <1>4. ASSUME NEW x \in Tabs, x # tab, running'[x].alone, running'[x].ops # <<>>
        PROVE  Promises(running[x].ops, running[x].on, running[x].off)'
    <2>1. PICK opsOf, onOf, offOf : opsOf = running[x].ops /\ onOf = running[x].on /\ offOf = running[x].off
      OBVIOUS
    <2>2. running'[x] = running[x]
      BY <1>2, <1>3, <1>4
    <2>3. Promises(opsOf, onOf, offOf)
      BY <1>4, <2>1, <2>2 DEF PromisesKept
    <2>4. Promises(opsOf, onOf, offOf)'
      BY <1>2, <2>3, PromisesStay
    <2> QED
      BY <2>1, <2>2, <2>4
  <1>5. ASSUME running'[tab].alone, running'[tab].ops # <<>>
        PROVE  Promises(running[tab].ops, running[tab].on, running[tab].off)'
    <2>1. running'[tab] = IF Head(ops).op = "untag" /\ Len(ops) > 1
                          THEN [running[tab] EXCEPT !.ops = rest, !.off = {}] ELSE W!Idle
      BY <1>2, <1>3
    <2>2. W!Idle.ops = <<>>
      BY DEF W!Idle
    <2>3. Head(ops).op = "untag" /\ running'[tab] = [running[tab] EXCEPT !.ops = rest, !.off = {}]
      BY <1>5, <2>1, <2>2
    <2>4. /\ running'[tab].ops = rest /\ running'[tab].on = on /\ running'[tab].off = {}
          /\ running'[tab].alone = running[tab].alone
      BY <1>1, <1>3, <2>3
    <2>5. Promises(ops, on, off)
      BY <1>1, <1>2, <1>5, <2>4 DEF PromisesKept
    <2>6. PICK Kind : ops \in Seq(Kind)
      <3>1. Plain(ops) \/ Taxing(ops) \/ Hooking(ops)
        BY <1>1 DEF WatchInv, PlansFine
      <3>2. CASE Plain(ops)
        BY <3>2 DEF Plain
      <3>3. CASE Taxing(ops) \/ Hooking(ops)
        <4>1. PICK one : ops = <<one>>
          BY <3>3 DEF Taxing, Hooking
        <4>2. ops \in Seq({one})
          BY <4>1
        <4> QED
          BY <4>2
      <3> QED
        BY <3>1, <3>2, <3>3
    <2>7. Ops(ops) = {Head(ops)} \cup Ops(rest)
      BY <1>1, <1>2, <2>6, OpsOfRest
    <2>8. Adding(Head(ops)) = {}
      BY <2>3 DEF Adding
    <2>9. ASSUME NEW key \in on
          PROVE  ToCome(key, rest)
      <3>1. ToCome(key, ops)
        BY <2>3, <2>5, <2>9 DEF Promises, ToComeAfter
      <3> QED
        BY <2>7, <2>8, <3>1 DEF ToCome
    <2>10. ListsLast(rest, on, {})
      BY <2>5, <2>7 DEF Promises, ListsLast
    <2>11. Promises(rest, on, {})
      BY <2>9, <2>10 DEF Promises
    <2>12. Promises(rest, on, {})'
      BY <1>2, <2>11, PromisesStay
    <2> QED
      BY <2>4, <2>12
  <1>6. ASSUME NEW x \in Tabs, running'[x].alone, running'[x].ops # <<>>
        PROVE  Promises(running[x].ops, running[x].on, running[x].off)'
    BY <1>4, <1>5, <1>6
  <1> QED
    BY <1>6 DEF PromisesKept

\* No promises at the start.
LEMMA PromisesInit ==
    ASSUME W!Init
    PROVE  PromisesKept
  <1>1. running = [tab \in Tabs |-> W!Idle] /\ W!Idle.ops = <<>>
    BY DEF W!Init, W!Idle
  <1> QED
    BY <1>1 DEF PromisesKept

\* Whoever moves.
LEMMA PromisesStep ==
    ASSUME WatchInv, PromisesKept, [Next]_vars
    PROVE  PromisesKept'
  <1>1. CASE W!Next
    <2>1. PICK tab \in Tabs : W!Ask(tab) \/ W!Run(tab) \/ W!Fail(tab)
      BY <1>1 DEF W!Next
    <2> QED
      BY <2>1, AskKeepsPromises, RunKeepsPromises, FailKeepsPromises DEF WatchInv
  <1>2. CASE UNCHANGED ofWatchlist
    <2>1. UNCHANGED <<plan, tags, subs, running>>
      BY <1>2 DEF ofWatchlist
    <2>2. ASSUME NEW x \in Tabs, running'[x].alone, running'[x].ops # <<>>
          PROVE  Promises(running[x].ops, running[x].on, running[x].off)'
      <3>1. PICK ops, on, off : ops = running[x].ops /\ on = running[x].on /\ off = running[x].off
        OBVIOUS
      <3>2. Promises(ops, on, off)
        BY <2>1, <2>2, <3>1 DEF PromisesKept
      <3>3. Promises(ops, on, off)'
        BY <2>1, <3>2, PromisesStay
      <3> QED
        BY <2>1, <3>1, <3>3
    <2> QED
      BY <2>2 DEF PromisesKept
  <1> QED
    BY <1>1, <1>2, PartSteps

\* A handler that ends, undisturbed and without an error, has brought about what
\* it was for.
EndsAsAsked ==
  \A tab \in Tabs :
    LET was == running[tab]
    IN was.ops # <<>> /\ running'[tab].ops = <<>> /\ was.alone /\ failed' = failed
         => was.on \subseteq DOMAIN subs' /\ was.off \cap DOMAIN subs' = {}

\* Its last operation does it.
LEMMA LastSettles ==
    ASSUME WatchInv, PromisesKept, [Next]_vars
    PROVE  EndsAsAsked \/ UNCHANGED W!vars
  <1>1. CASE W!Next
    <2>1. PICK x \in Tabs : W!Ask(x) \/ W!Run(x) \/ W!Fail(x)
      BY <1>1 DEF W!Next
    <2>2. ASSUME NEW tab \in Tabs, running[tab].ops # <<>>, running'[tab].ops = <<>>,
                 running[tab].alone, failed' = failed
          PROVE  running[tab].on \subseteq DOMAIN subs' /\ running[tab].off \cap DOMAIN subs' = {}
      <3>1. PICK ops, on, off : ops = running[tab].ops /\ on = running[tab].on /\ off = running[tab].off
        OBVIOUS
      <3>2. ~ W!Fail(x)
        BY <2>2 DEF W!Fail, WatchInv, WatchTypes
      <3>3. ~ W!Ask(x)
        <4>1. ASSUME W!Ask(x)
              PROVE  FALSE
          <5>1. running[x].ops = <<>>
            BY <4>1 DEF W!Ask
          <5>2. PICK opsOf, onOf, offOf : W!Begin(x, opsOf, onOf, offOf)
            BY <4>1, AskUndertakes DEF Undertakes, WatchInv
          <5>3. running' = [running EXCEPT ![x] =
                  [ops |-> opsOf, on |-> onOf, off |-> offOf, alone |-> TRUE]]
            BY <5>2 DEF W!Begin
          <5>4. running'[tab] = running[tab]
            BY <2>2, <5>1, <5>3 DEF WatchInv, WatchTypes
          <5> QED
            BY <2>2, <5>4
        <4> QED
          BY <4>1
      <3>4. W!Run(x)
        BY <2>1, <3>2, <3>3
      <3>5. x = tab
        <4>1. PICK rest : W!Onward(x, rest)
          BY <3>4 DEF W!Run, W!RunTag, W!RunUntag, W!RunAdd, W!RunDelete, W!RunEach, W!RunHook
        <4>2. tab # x => running'[tab].ops = running[tab].ops
          BY <4>1, OnwardLeaves DEF WatchInv
        <4> QED
          BY <2>2, <4>2
      <3>6. Promises(ops, on, off)
        BY <2>2, <3>1 DEF PromisesKept
      <3>7. PICK later : W!Onward(tab, later) /\ Settling(later, on, off)'
        BY <3>1, <3>4, <3>5, <3>6, RunSettles
      <3>8. later = <<>>
        BY <2>2, <3>7, OnwardLeaves DEF WatchInv
      <3>9. Ops(later) = {}
        BY <3>8 DEF Ops
      <3>10. on \subseteq DOMAIN subs' /\ off \cap DOMAIN subs' = {}
        BY <3>7, <3>9 DEF Settling, ToCome, ToGo
      <3> QED
        BY <3>1, <3>10
    <2> QED
      BY <2>2 DEF EndsAsAsked
  <1>2. CASE UNCHANGED ofWatchlist
    BY <1>2 DEF ofWatchlist, W!vars
  <1> QED
    BY <1>1, <1>2, PartSteps

-----------------------------------------------------------------------------
(* The theorems *)

\* The invariant of the queue holds for ever.
THEOREM QueueInvAlways == Spec => []QueueInv
  <1>1. Init => QueueInv
    BY QueueInvInit
  <1>2. QueueInv /\ [Next]_vars => QueueInv'
    BY QueueInvStep
  <1> QED
    BY <1>1, <1>2, PTL DEF Spec

\* The invariants of the other components hold for ever.
THEOREM UsersInvAlways == Spec => [](PayInv /\ ReceiptInv /\ WatchInv)
  <1>1. Init => PayInv /\ ReceiptInv /\ WatchInv
    BY PayInvInit, ReceiptInvInit, WatchInvInit DEF Init
  <1>2. (PayInv /\ ReceiptInv /\ WatchInv) /\ [Next]_vars => (PayInv /\ ReceiptInv /\ WatchInv)'
    BY PayInvStep, ReceiptInvStep, WatchInvStep
  <1> QED
    BY <1>1, <1>2, PTL DEF Spec

\* No mail and no push batch is handed out more than once but for each failed
\* statement or stop, and the limit of mails per address and day holds, although
\* it is read, counted and used in three steps: the advisory lock makes them one
\* (notifications.go:152-211, mail.go:87-113).
THEOREM MailsStaySound == Spec => []MailsAreSound
  <1>1. QueueInv => MailsAreSound
    BY QueueInvImplies
  <1> QED
    BY <1>1, QueueInvAlways, PTL

\* Whatever order Stripe's events arrive in, and however often: the two tables of
\* plans tell the same of a plan unless a customer of its user is gone, and once
\* the events were handled in their order the tables have what Stripe has; a user
\* has no more rows of app plans than requests at the same time can bring
\* (stripe.go:190-492, api.go:1661-1687).
THEOREM RowsStaySound == Spec => []RowsAreSound
  <1>1. QueueInv => Q!TypeOK
    BY QueueInvImplies
  <1>2. PayInv /\ ReceiptInv /\ WatchInv => P!TypeOK /\ R!TypeOK /\ W!TypeOK
                                           /\ P!TablesAgree /\ P!SettledAsAtStripe /\ R!RowLimit
    BY PayInvImplies, ReceiptInvImplies, WatchInvImplies
  <1>3. QueueInv /\ (PayInv /\ ReceiptInv /\ WatchInv) => RowsAreSound
    BY <1>1, <1>2 DEF RowsAreSound
  <1> QED
    BY <1>3, QueueInvAlways, UsersInvAlways, PTL

\* However many pages a user has open and whatever fails between two statements:
\* a validator that was unfollowed has no subscription left unless a request named
\* it since, the other network's rows stay, a limit that was counted before the
\* row was written is passed by no more than the requests beside it, and a free
\* plan gets no thresholds of its own (user.go:1826-1837, 2630-2668,
\* validatorRewards.go:212-224, db/subscriptions.go:55-85).
THEOREM WatchlistStaysSound == Spec => []WatchlistIsSound
  <1>1. PayInv /\ ReceiptInv /\ WatchInv => WatchlistIsSound
    BY WatchInvImplies
  <1> QED
    BY <1>1, UsersInvAlways, PTL

\* A request that nothing failed in and nothing was done beside has brought about
\* what it was for when it ends, however many operations it took and whatever was
\* subscribed to before: the rows it deletes bear the names they were inserted
\* under, and what it writes it does not delete afterwards (frontend.go:258-297,
\* user.go:1813-1963).
THEOREM RequestsSettle == Spec => SettlesAsAsked
  <1>1. Init => WatchInv /\ PromisesKept
    BY WatchInvInit, PromisesInit DEF Init
  <1>2. (WatchInv /\ PromisesKept) /\ [Next]_vars => (WatchInv /\ PromisesKept)'
    BY WatchInvStep, PromisesStep
  <1>3. (WatchInv /\ PromisesKept) /\ [Next]_vars => [EndsAsAsked]_(W!vars)
    BY LastSettles
  <1>4. Spec => [][EndsAsAsked]_(W!vars)
    BY <1>1, <1>2, <1>3, PTL DEF Spec
  <1> QED
    BY <1>4 DEF SettlesAsAsked, W!SettlesAsAsked, EndsAsAsked
=============================================================================
