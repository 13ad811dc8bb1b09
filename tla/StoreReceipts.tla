--------------------------- MODULE StoreReceipts ---------------------------
(***************************************************************************)
(* Premium plans bought in an app store: the requests that register a      *)
(* receipt (handlers/api.go, RegisterMobileSubscriptions and               *)
(* RegisterEthpoolSubscription) and the exporter's loop that asks the      *)
(* stores about the registered ones (exporter/appsubscription_oracle.go),  *)
(* over users_app_subscriptions.                                           *)
(*                                                                         *)
(* exporter.Start has the loop commented out in this commit: as it stands  *)
(* no row is checked again; the model is of the two as written.            *)
(*                                                                         *)
(* Each receipt is a product of its own.  The stores are the environment:  *)
(* a receipt is paid, it ends, is renewed, and months after its end it is  *)
(* refused with an error that says it expired.  Rows added by hand (store  *)
(* "manuall") are judged by their date, which no error can hide.           *)
(***************************************************************************)
EXTENDS Integers, Sequences, FiniteSets, Functions

CONSTANTS
  Users, Receipts,
  Ethpool, Manual,  \* receipts of these kinds; the others are of a store
  Requests,         \* goroutines of the web server that register receipts
  AppLimit,         \* rows a user may have, 5 in the code
  MaxErrors,        \* bound on calls to a store, or of SELECT, that fail
  MaxChanges        \* bound on the changes at the stores

StoreReceiptsAssumption ==
  /\ Ethpool \cup Manual \subseteq Receipts /\ Ethpool \cap Manual = {}
  /\ {AppLimit, MaxErrors, MaxChanges} \subseteq Nat /\ IsFiniteSet(Manual) /\ IsFiniteSet(Requests)

VARIABLES
  store,     \* what the store, or the date, says of a receipt
  appRows,   \* users_app_subscriptions, by id
  requests,  \* what each request has found out
  loop,      \* checkSubscriptions: "asleep", "checking" or "ended"
  due,      \* ids the round has yet to check
  answer,    \* the id and the answer that is about to be written
  errors, changes

vars == <<store, appRows, requests, loop, due, answer, errors, changes>>

Idle == [stage |-> "idle"]
NoAnswer == [id |-> 0, says |-> "nothing"]

\* Rows added by hand are there from the start, whoever has them.
Init ==
  /\ store = [r \in Receipts |-> "paid"]
  /\ \E owner \in [Manual -> Users], nth \in [1 .. Cardinality(Manual) -> Manual] :
       /\ IsInjective(nth)
       /\ appRows = [i \in 1 .. Cardinality(Manual) |->
            [user |-> owner[nth[i]], receipt |-> nth[i], active |-> TRUE, remote |-> TRUE]]
  /\ requests = [q \in Requests |-> Idle]
  /\ loop = "asleep" /\ due = {} /\ answer = NoAnswer /\ errors = 0 /\ changes = 0

Error == errors < MaxErrors /\ errors' = errors + 1

\* VerifyReceipt and VerifyManuall.  An error may say "expired" of a receipt
\* that is paid, when a certificate is the one that has.
Says(r) ==
  IF r \in Manual \/ store[r] # "purged"
  THEN {IF store[r] = "paid" THEN "valid" ELSE "invalid"} ELSE {"expired"}
Ask(r, said) ==
  \/ said \in Says(r) /\ UNCHANGED errors
  \/ r \notin Manual /\ said \in {"error", "expired"} /\ Error

----------------------------------------------------------------------------
(* The stores *)
Change(r) ==
  /\ r \notin Ethpool /\ changes < MaxChanges /\ changes' = changes + 1
  /\ \/ store[r] = "paid" /\ store' = [store EXCEPT ![r] = "ended"]
     \/ store[r] = "ended" /\ r \notin Manual /\ store' = [store EXCEPT ![r] = "paid"]
     \/ /\ store[r] = "ended" /\ \A i \in DOMAIN appRows : appRows[i].receipt = r => ~appRows[i].active
        /\ store' = [store EXCEPT ![r] = "purged"]
  /\ UNCHANGED <<appRows, requests, loop, due, answer, errors>>

----------------------------------------------------------------------------
(* A request counts the user's rows, asks the store and inserts a row.     *)
RowsOf(u) == {i \in DOMAIN appRows : appRows[i].user = u}

Count(q, u, r) ==
  /\ requests[q] = Idle /\ r \notin Manual /\ Cardinality(RowsOf(u)) < AppLimit
  /\ requests' = [requests EXCEPT ![q] = [stage |-> "counted", user |-> u, receipt |-> r]]
  /\ UNCHANGED <<store, appRows, loop, due, answer, errors, changes>>

\* The error of VerifyReceipt is dropped, its result then says not valid.
\* RegisterEthpoolSubscription asks nobody.
Verify(q) ==
  LET r == requests[q].receipt
      Found(valid) == [requests EXCEPT ![q] =
        [stage |-> "verified", user |-> @.user, receipt |-> r, valid |-> valid]]
  IN /\ requests[q].stage = "counted"
     /\ \/ r \in Ethpool /\ requests' = Found(TRUE) /\ UNCHANGED errors
        \/ \E said \in {"valid", "invalid", "expired", "error"} :
             r \notin Ethpool /\ Ask(r, said) /\ requests' = Found(said = "valid")
     /\ UNCHANGED <<store, appRows, loop, due, answer, changes>>

\* InsertMobileSubscription; receipt_hash is unique, a second row is refused.
Insert(q) ==
  LET known == \E i \in DOMAIN appRows : appRows[i].receipt = requests[q].receipt
  IN /\ requests[q].stage = "verified"
     /\ appRows' = IF known THEN appRows ELSE
          Append(appRows, [user |-> requests[q].user, receipt |-> requests[q].receipt,
                        active |-> requests[q].valid, remote |-> requests[q].valid])
     /\ requests' = [requests EXCEPT ![q] = Idle]
     /\ UNCHANGED <<store, loop, due, answer, errors, changes>>

----------------------------------------------------------------------------
(* checkSubscriptions *)
\* GetAllAppSubscriptions; the goroutine ends when the SELECT fails.
StartRound ==
  /\ loop = "asleep"
  /\ \/ /\ loop' = "checking" /\ UNCHANGED errors
        /\ due' = {i \in DOMAIN appRows : appRows[i].remote}
     \/ loop' = "ended" /\ Error /\ UNCHANGED due
  /\ UNCHANGED <<store, appRows, requests, answer, changes>>

AskStore(i) ==
  /\ loop = "checking" /\ i \in due /\ answer = NoAnswer
  /\ \A j \in due : j <= i  \* "order by id desc"
  /\ due' = due \ {i}
  /\ \/ appRows[i].receipt \in Ethpool /\ UNCHANGED <<answer, errors>>
     \/ \E said \in {"valid", "invalid", "expired", "error"} :
          /\ appRows[i].receipt \notin Ethpool /\ Ask(appRows[i].receipt, said)
          /\ answer' = [id |-> i, says |-> said]
  /\ UNCHANGED <<store, appRows, requests, loop, changes>>

\* Slip: the verdict of the round before is written too.
OnlyIfValid ==
  /\ answer # NoAnswer
  /\ appRows' = IF answer.says = "valid" THEN [appRows EXCEPT ![answer.id].active = TRUE] ELSE appRows
  /\ answer' = NoAnswer
  /\ UNCHANGED <<store, requests, loop, due, errors, changes>>

\* UpdateUserSubscription, or SetSubscriptionToExpired, or nothing: an error
\* is left for the next round.
WriteAnswer ==
  /\ answer # NoAnswer
  /\ appRows' = CASE answer.says = "error" -> appRows
               [] answer.says = "expired" -> [appRows EXCEPT ![answer.id].remote = FALSE]
               [] OTHER -> [appRows EXCEPT ![answer.id].active = (answer.says = "valid")]
  /\ answer' = NoAnswer
  /\ UNCHANGED <<store, requests, loop, due, errors, changes>>

EndRound ==
  /\ loop = "checking" /\ due = {} /\ answer = NoAnswer
  /\ loop' = "asleep"
  /\ UNCHANGED <<store, appRows, requests, due, answer, errors, changes>>

Request(q) == (\E u \in Users, r \in Receipts : Count(q, u, r)) \/ Verify(q) \/ Insert(q)
Round == StartRound \/ (\E i \in due : AskStore(i)) \/ WriteAnswer \/ EndRound
Next == (\E r \in Receipts : Change(r)) \/ (\E q \in Requests : Request(q)) \/ Round

\* The loop runs again and again; a request that began ends.
Fairness ==
  /\ WF_vars(Round)
  /\ \A q \in Requests : WF_vars(Verify(q) \/ Insert(q))
Spec == Init /\ [][Next]_vars /\ Fairness

----------------------------------------------------------------------------
(* Types; a receipt has at most one row, whoever registers it and however  *)
(* often (receipt_hash).                                                   *)
TypeOK ==
  /\ store \in [Receipts -> {"paid", "ended", "purged"}]
  /\ \A i \in DOMAIN appRows :
       appRows[i] \in [user : Users, receipt : Receipts, active : BOOLEAN, remote : BOOLEAN]
  /\ \A i, j \in DOMAIN appRows : appRows[i].receipt = appRows[j].receipt => i = j
  /\ loop \in {"asleep", "checking", "ended"} /\ errors \in 0 .. MaxErrors /\ changes \in 0 .. MaxChanges
  /\ answer \in {NoAnswer} \cup [id : DOMAIN appRows, says : {"valid", "invalid", "expired", "error"}]

(* No user who registers receipts has more rows than the limit, one more   *)
(* for each other request that counted before the others inserted          *)
(* (api.go:1661-1687).  Rows added by hand alone may be more.              *)
RowLimit ==
  \A u \in Users :
    (\E i \in RowsOf(u) : appRows[i].receipt \notin Manual)
      => Cardinality(RowsOf(u)) <= AppLimit + Cardinality(Requests) - 1

(* Again and again a row that is checked agrees with its store, whatever   *)
(* answers came too late or not at all, until the loop ends on a failed    *)
(* SELECT or an error that speaks of "expired" takes the row out           *)
(* (appsubscription_oracle.go:18-74).                                      *)
RowsFollowTheStore ==
  \A r \in Receipts \ Ethpool :
    (\E i \in DOMAIN appRows : appRows[i].receipt = r /\ appRows[i].remote)
      ~> \/ loop = "ended"
         \/ \E i \in DOMAIN appRows :
              appRows[i].receipt = r /\ (appRows[i].remote => appRows[i].active = (store[r] = "paid"))

=============================================================================
