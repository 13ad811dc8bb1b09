----------------------------- MODULE NodeClient -----------------------------
(***************************************************************************)
(* The beacon node client (rpc/lighthouse.go): GetEpochData reads the      *)
(* validators and their older balances, then at the same time the duties,  *)
(* the participation and the blocks of the epoch.  Duties are cached by    *)
(* epoch under a lock, whoever needs them: the epoch itself or the         *)
(* attestations of a block.  The head the participation is judged by is a  *)
(* global variable without a lock.                                         *)
(*                                                                         *)
(* An epoch is one slot here.  Duties are named by the branch they are of. *)
(* The cache drops an entry whose proposers or committees are empty; the   *)
(* node never answers that.                                                *)
(***************************************************************************)
EXTENDS Integers, SequencesExt

CONSTANTS
  Callers,      \* goroutines that ask for an epoch
  EpochsAsked,  \* bound on the chain
  ForkEpoch,    \* from here on the branches differ
  Holes,        \* epochs without a block, on every branch
  CacheSize,    \* 10 in the code
  MaxSwitches, MaxErrors

ClientAssumption ==
  /\ EpochsAsked \in Nat \ {0} /\ {ForkEpoch, MaxSwitches, MaxErrors} \subseteq Nat
  /\ CacheSize \in Nat \ {0} /\ Holes \subseteq 1 .. EpochsAsked

AskedEpochs == 1 .. EpochsAsked
BranchNames == {"a", "b"}
Parts3 == {"duties", "share", "block"}

VARIABLES
  fork, headAt, switches,  \* the node: its branch and the epoch of its head
  duties,       \* assignmentsCache: the most recently used first
  fetch,        \* assignmentsCacheMux: who holds it and what it has read, a sequence of 0 or 1
  latestHead,   \* LighthouseLatestHeadEpoch
  call,         \* GetEpochData of each caller
  errors

clientVars == <<fork, headAt, switches, duties, fetch, latestHead, call, errors>>
nodeOf == <<fork, headAt, switches>>

DutyOf(e, branch) == IF e < ForkEpoch THEN "common" ELSE branch

NoCall ==
  [pc |-> "idle", epoch |-> 1, left |-> {}, balances |-> "unread", duties |-> <<>>,
   share |-> "none", refreshed |-> FALSE, block |-> "unread", attested |-> <<>>, erred |-> FALSE]

Init ==
  /\ fork = "a" /\ headAt = 1 /\ switches = 0
  /\ duties = <<>> /\ fetch = <<>> /\ latestHead = 0
  /\ call = [c \in Callers |-> NoCall] /\ errors = 0

Advance ==
  /\ headAt < EpochsAsked /\ headAt' = headAt + 1
  /\ UNCHANGED <<fork, switches, duties, fetch, latestHead, call, errors>>
Switch ==
  /\ switches < MaxSwitches /\ switches' = switches + 1 /\ headAt >= ForkEpoch
  /\ fork' \in BranchNames \ {fork}
  /\ UNCHANGED <<headAt, duties, fetch, latestHead, call, errors>>

Answered == UNCHANGED errors
Error == errors < MaxErrors /\ errors' = errors + 1

----------------------------------------------------------------------------
(* GetEpochData: the validators *)
Begin(c) ==
  /\ call[c].pc = "idle"
  /\ \E e \in AskedEpochs :
       /\ e <= headAt
       /\ \/ call' = [call EXCEPT ![c] = [NoCall EXCEPT !.pc = "balances", !.epoch = e]] /\ Answered
          \/ call' = [call EXCEPT ![c] = [NoCall EXCEPT !.pc = "failed", !.epoch = e]] /\ Error
  /\ UNCHANGED <<nodeOf, duties, fetch, latestHead>>

\* The balances of a day, a week and a month ago: one that could not be read is
\* stored as zero, and taken for valid.
ReadBalances(c) ==
  /\ call[c].pc = "balances"
  /\ \E read \in {"all", "zeroed"} :
       /\ call' = [call EXCEPT ![c].balances = read, ![c].pc = "parts", ![c].left = Parts3]
       /\ IF read = "all" THEN Answered ELSE Error
  /\ UNCHANGED <<nodeOf, duties, fetch, latestHead>>

----------------------------------------------------------------------------
(* GetEpochAssignments, for the epoch or for a block of it *)
Needs(c, part) ==
  /\ call[c].pc = "parts" /\ part \in call[c].left
  /\ part = "block" => call[c].block \in BranchNames \cup {"common"}

Cached(e) == {i \in DOMAIN duties : duties[i].epoch = e}
ToFront(i) == <<duties[i]>> \o RemoveAt(duties, i)
Add(entry) ==
  LET longer == <<entry>> \o duties
  IN SubSeq(longer, 1, IF Len(longer) > CacheSize THEN CacheSize ELSE Len(longer))

\* The record of a call whose part has its duties.
WithDuties(c, part, entry) ==
  IF part = "duties" THEN [call[c] EXCEPT !.left = @ \ {part}, !.duties = <<entry>>]
  ELSE [call[c] EXCEPT !.left = @ \ {part}, !.attested = <<entry>>]
\* Without them the block does not count, and the epoch has no duties.
WithoutDuties(c, part) ==
  IF part = "duties" THEN [call[c] EXCEPT !.left = @ \ {part}, !.erred = TRUE]
  ELSE [call[c] EXCEPT !.left = @ \ {part}, !.block = "failed", !.erred = TRUE]

FromCache(c, part) ==
  /\ Needs(c, part) /\ fetch = <<>>
  /\ \E i \in Cached(call[c].epoch) :
       duties' = ToFront(i) /\ call' = [call EXCEPT ![c] = WithDuties(c, part, duties[i])]
  /\ UNCHANGED <<nodeOf, fetch, latestHead, errors>>

LockCache(c, part) ==
  /\ Needs(c, part) /\ fetch = <<>> /\ Cached(call[c].epoch) = {}
  /\ fetch' = <<[caller |-> c, part |-> part, proposers |-> "unread"]>>
  /\ UNCHANGED <<nodeOf, duties, latestHead, call, errors>>

ReadProposers ==
  /\ fetch # <<>> /\ fetch[1].proposers = "unread"
  /\ fetch' = [fetch EXCEPT ![1].proposers = DutyOf(call[fetch[1].caller].epoch, fork)]
  /\ UNCHANGED <<nodeOf, duties, latestHead, call, errors>>

\* Slip: the committees are asked for at the state of the head.
HeadState(proposers, e) == DutyOf(e, fork)
\* They are asked for at the state of the block the proposers depend on.
DependentState(proposers, e) == proposers

\* The committees and the sync committee of that state.
ReadCommittees ==
  /\ fetch # <<>> /\ fetch[1].proposers # "unread"
  /\ LET c == fetch[1].caller
         entry == [epoch |-> call[c].epoch, proposers |-> fetch[1].proposers,
                   committees |-> DependentState(fetch[1].proposers, call[c].epoch)]
     IN duties' = Add(entry) /\ call' = [call EXCEPT ![c] = WithDuties(c, fetch[1].part, entry)]
  /\ fetch' = <<>> /\ UNCHANGED <<nodeOf, latestHead, errors>>

DutiesFail ==
  /\ fetch # <<>> /\ Error /\ fetch' = <<>>
  /\ LET c == fetch[1].caller IN call' = [call EXCEPT ![c] = WithoutDuties(c, fetch[1].part)]
  /\ UNCHANGED <<nodeOf, duties, latestHead>>

----------------------------------------------------------------------------
(* GetBlocksBySlot *)
\* The header and the block, of the branch the node is on.
ReadBlock(c) ==
  /\ call[c].pc = "parts" /\ call[c].block = "unread"
  /\ \/ /\ call[c].epoch \notin Holes /\ Answered
        /\ call' = [call EXCEPT ![c].block = DutyOf(call[c].epoch, fork)]
     \/ /\ call[c].epoch \in Holes /\ Answered
        /\ call' = [call EXCEPT ![c].block = "none", ![c].left = @ \ {"block"}]
     \/ /\ Error
        /\ call' = [call EXCEPT ![c].block = "failed", ![c].left = @ \ {"block"},
                                ![c].erred = TRUE]
  /\ UNCHANGED <<nodeOf, duties, fetch, latestHead>>

----------------------------------------------------------------------------
(* GetValidatorParticipation *)
Refresh(c) ==
  /\ call[c].pc = "parts" /\ "share" \in call[c].left /\ ~call[c].refreshed
  /\ \/ /\ latestHead = 0 \/ call[c].epoch >= latestHead - 1
        /\ \/ /\ latestHead' = headAt /\ Answered
              /\ call' = [call EXCEPT ![c].refreshed = TRUE]
           \/ /\ Error /\ UNCHANGED latestHead
              /\ call' = [call EXCEPT ![c].left = @ \ {"share"}, ![c].share = "one"]
     \/ /\ latestHead # 0 /\ call[c].epoch < latestHead - 1 /\ Answered
        /\ call' = [call EXCEPT ![c].refreshed = TRUE] /\ UNCHANGED latestHead
  /\ UNCHANGED <<nodeOf, duties, fetch>>

\* Slip: the epoch after is asked for as soon as the epoch is over.
AlwaysNext(e, latest) == e + 1

\* The next epoch knows all votes for this one, but the epoch of the head is not over.
RequestEpoch(e, latest) == IF e < latest - 1 THEN e + 1 ELSE e

\* The rate of an epoch that is not over, or that cannot be read, is one.
Judge(c) ==
  /\ call[c].pc = "parts" /\ "share" \in call[c].left /\ call[c].refreshed
  /\ LET e == call[c].epoch
     IN \/ /\ e < latestHead /\ Answered
           /\ call' = [call EXCEPT ![c].left = @ \ {"share"},
                                   ![c].share =
                    IF RequestEpoch(e, latestHead) >= headAt THEN "running"
                    ELSE IF e < RequestEpoch(e, latestHead) THEN "whole" ELSE "so far"]
        \/ /\ call' = [call EXCEPT ![c].left = @ \ {"share"}, ![c].share = "one"]
           /\ IF e < latestHead THEN Error ELSE Answered
  /\ UNCHANGED <<nodeOf, duties, fetch, latestHead>>

----------------------------------------------------------------------------
\* The slots of the proposers without a block are filled up; without duties the
\* process ends here.
Finish(c) ==
  /\ call[c].pc = "parts" /\ call[c].left = {}
  /\ call' = [call EXCEPT ![c].pc = IF call[c].duties = <<>> THEN "down" ELSE "returned"]
  /\ UNCHANGED <<nodeOf, duties, fetch, latestHead, errors>>

Alive == \A c \in Callers : call[c].pc # "down"
CallerStep(c) ==
  /\ Alive
  /\ \/ ReadBalances(c) \/ ReadBlock(c) \/ Refresh(c) \/ Judge(c) \/ Finish(c)
     \/ \E part \in {"duties", "block"} : FromCache(c, part) \/ LockCache(c, part)
FetchStep == Alive /\ (ReadProposers \/ ReadCommittees \/ DutiesFail)
Next == Advance \/ Switch \/ FetchStep \/ \E c \in Callers : CallerStep(c) \/ (Alive /\ Begin(c))

----------------------------------------------------------------------------
(* The variables have their types.                                         *)
TypeOK ==
  /\ fork \in BranchNames /\ headAt \in AskedEpochs /\ latestHead \in 0 .. EpochsAsked
  /\ switches \in 0 .. MaxSwitches /\ errors \in 0 .. MaxErrors
  /\ Len(duties) <= CacheSize /\ Len(fetch) <= 1
  /\ \A c \in Callers :
       /\ call[c].pc \in {"idle", "balances", "parts", "returned", "failed", "down"}
       /\ call[c].left \subseteq Parts3 /\ call[c].balances \in {"unread", "all", "zeroed"}

(* The proposers and the committees of an epoch are of one branch, however *)
(* the node moved between the requests, and no epoch is cached twice       *)
(* (lighthouse.go:209-301).  They may be of a branch the node has left.    *)
DutiesAreOfOneBranch ==
  \A i \in DOMAIN duties :
    /\ duties[i].proposers = duties[i].committees
    /\ \A j \in DOMAIN duties : duties[i].epoch = duties[j].epoch => i = j

(* What GetEpochData returns has duties, the block of the slot unless      *)
(* there is none or a request failed, its attesters from the duties of its *)
(* branch unless the node has switched, and a participation that was read  *)
(* from an epoch that is over (lighthouse.go:304-488, 827-887).            *)
EpochDataIsSound ==
  \A c \in Callers : call[c].pc = "returned" =>
    /\ call[c].duties # <<>> /\ call[c].share # "running"
    /\ call[c].block \in {"none", "failed"} => call[c].epoch \in Holes \/ call[c].erred
    /\ call[c].attested # <<>> /\ switches = 0 => call[c].attested[1].committees = call[c].block

(* Every call ends: the lock of the cache is given back on each way out.   *)
CallsEnd ==
  \A c \in Callers : call[c].pc # "idle" ~> call[c].pc \in {"returned", "failed"} \/ ~Alive
=============================================================================
