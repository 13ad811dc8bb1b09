---------------------------- MODULE DepositLogs ----------------------------
(***************************************************************************)
(* The exporter of the deposit contract's logs (exporter/eth1.go):         *)
(* eth1DepositsExporter fetches the logs of the next blocks, or of the     *)
(* last ones once it has reached the head, and writes each deposit with    *)
(* its block to eth1_deposits.  exporter.Start has it commented out in     *)
(* this commit.                                                            *)
(*                                                                         *)
(* A deposit is a transaction: a reorganisation moves it to another block  *)
(* or drops it.  What a row holds beside the block's number, and that a    *)
(* row of a deposit that was dropped is not removed, are left out of the   *)
(* properties.  A difference of two unsigned numbers that is below zero is *)
(* more than any limit.                                                    *)
(***************************************************************************)
EXTENDS Integers, FiniteSetsExt

CONSTANTS
  Deposits,
  FirstBlock,   \* eth1DepositContractFirstBlock
  LookBack,     \* eth1LookBack, 100 in the code
  MaxFetch,     \* eth1MaxFetch, 1000
  Short,        \* the range after an answer that is too large, 100
  FirstHead, MaxHead,  \* bounds on the chain
  Depth,        \* blocks a reorganisation replaces
  Spurt,        \* bound on the blocks between two passes
  MaxReorgs, MaxMishaps

\* The contract is not in the first block, and a chain is longer than the window
\* at the head.  What a reorganisation replaces, and what comes between two passes,
\* fits into the window.
DepositAssumption ==
  /\ {FirstBlock, LookBack, MaxFetch, Short, FirstHead, MaxHead, Depth, Spurt} \subseteq Nat
  /\ {MaxReorgs, MaxMishaps} \subseteq Nat /\ FirstHead <= MaxHead
  /\ FirstBlock \in 1 .. MaxHead /\ Spurt > 0 /\ LookBack <= MaxFetch /\ LookBack <= Short
  /\ LookBack + MaxReorgs < FirstHead
  /\ Depth + Spurt + 2 * MaxReorgs <= LookBack + 1

VARIABLES
  chainHead, at,      \* the node: its last block, and the block of each deposit, 0 for none
  stage,         \* of the pass: "asleep", "ranged" or "fetched"
  range,         \* from, to and the height it began with
  view,          \* at when the logs were fetched
  depositRows,   \* eth1_deposits: block_number, 0 for no row
  lastFetched,
  reach,         \* history: the head the last pass that was saved has read
  reorgs, mishaps

depositVars == <<chainHead, at, stage, range, view, depositRows, lastFetched, reach, reorgs, mishaps>>
chain == <<chainHead, at, reach, reorgs>>

Nothing == [d \in Deposits |-> 0]
NoRange == [from |-> 0, to |-> 0, height |-> 0]

Init ==
  /\ chainHead = FirstHead /\ at \in [Deposits -> {0} \cup FirstBlock .. FirstHead]
  /\ stage = "asleep" /\ range = NoRange /\ view = Nothing
  /\ depositRows = Nothing /\ lastFetched = 0
  /\ reach = FirstHead /\ reorgs = 0 /\ mishaps = 0

Mishap == mishaps < MaxMishaps /\ mishaps' = mishaps + 1

----------------------------------------------------------------------------
(* The node *)
LastRow == Max({0} \cup {depositRows[d] : d \in Deposits})

\* As long as there is something to fetch the passes keep up with the chain.
Grow ==
  /\ chainHead < MaxHead
  /\ chainHead < reach + Spurt \/ chainHead <= Max({lastFetched, LastRow})
  /\ chainHead' = chainHead + 1
  /\ \E new \in SUBSET {d \in Deposits : at[d] = 0} :
       at' = [d \in Deposits |-> IF d \in new THEN chainHead + 1 ELSE at[d]]
  /\ UNCHANGED <<stage, range, view, depositRows, lastFetched, reach, reorgs, mishaps>>

\* The other branch may be a block shorter.  Another block is going to follow.
Reorg ==
  /\ reorgs < MaxReorgs /\ chainHead < MaxHead /\ chainHead > Depth /\ reorgs' = reorgs + 1
  /\ chainHead' \in {chainHead - 1, chainHead}
  /\ LET base == chainHead - Depth
     IN at' \in [Deposits -> {0} \cup FirstBlock .. chainHead']
          /\ \A d \in Deposits : IF at[d] # 0 /\ at[d] <= base THEN at'[d] = at[d]
                                 ELSE at'[d] \notin 1 .. base
  /\ UNCHANGED <<stage, range, view, depositRows, lastFetched, reach, mishaps>>

----------------------------------------------------------------------------
(* A pass *)
\* The unsigned difference a - b compared with a limit.
Above(a, b, limit) == a < b \/ a - b > limit
Below(a, b, limit) == ~(a < b) /\ a - b < limit

\* Slip: at the head the pass goes on after the last block it has fetched.
NextOnly(last, height) ==
  LET from == Max({last + 1, FirstBlock, lastFetched + 1})
      to == IF Above(height, from, MaxFetch) THEN Min({from + MaxFetch, height}) ELSE height
  IN [from |-> from, to |-> to, height |-> height]

\* The blocks a pass fetches, given the last deposit's block and the head.
RangeOf(last, height) ==
  LET from == Max({last + 1, FirstBlock, lastFetched + 1})
      to == IF Above(height, from, MaxFetch) THEN Min({from + MaxFetch, height}) ELSE height
  IN [from |-> IF Below(to, from, LookBack) /\ to > LookBack THEN to - LookBack ELSE from,
      to |-> to, height |-> height]

StartPass ==
  /\ stage = "asleep"
  /\ range' = RangeOf(LastRow, chainHead)
  /\ stage' = "ranged"
  /\ UNCHANGED <<chain, view, depositRows, lastFetched, mishaps>>

\* The query failed: everything stays, and the loop sleeps.
GiveUp ==
  /\ stage' = "asleep" /\ range' = NoRange /\ view' = Nothing
  /\ UNCHANGED <<chainHead, at, reorgs, depositRows, lastFetched, reach>>

\* fetchEth1Deposits: the logs; when there are too many of them those of a shorter
\* range.  A node may refuse a range that ends before it begins.
Fetch ==
  /\ stage = "ranged"
  /\ \/ /\ stage' = "fetched" /\ view' = at
        /\ \/ UNCHANGED <<range, mishaps>>
           \/ range' = [range EXCEPT !.to = Min({range.from + Short, range.height})] /\ Mishap
        /\ UNCHANGED <<chain, depositRows, lastFetched>>
     \/ GiveUp /\ Mishap
     \/ GiveUp /\ range.from > range.to /\ UNCHANGED mishaps

Logged(d) == view[d] \in range.from .. range.to

\* The headers and transactions of the logs, then saveEth1Deposits in one transaction.
Save ==
  /\ stage = "fetched"
  /\ depositRows' = [d \in Deposits |-> IF Logged(d) THEN view[d] ELSE depositRows[d]]
  /\ lastFetched' = range.to /\ reach' = range.height
  /\ stage' = "asleep" /\ range' = NoRange /\ view' = Nothing
  /\ UNCHANGED <<chainHead, at, reorgs, mishaps>>
SaveFails == stage = "fetched" /\ GiveUp /\ Mishap

\* The process stops, by itself when a transaction that was logged is not known any
\* more: the errors of the elements of a batch are not read, and what stands for it
\* has no data.
Restart ==
  /\ Mishap
  /\ lastFetched' = 0 /\ stage' = "asleep" /\ range' = NoRange /\ view' = Nothing
  /\ UNCHANGED <<chain, depositRows>>

Pass == StartPass \/ Fetch \/ Save \/ SaveFails
Next == Grow \/ Reorg \/ Pass \/ Restart

Spec == Init /\ [][Next]_depositVars /\ WF_depositVars(Pass) /\ WF_depositVars(Grow)

----------------------------------------------------------------------------
(* The variables have their types.                                         *)
TypeOK ==
  /\ chainHead \in 0 .. MaxHead /\ at \in [Deposits -> 0 .. chainHead]
  /\ stage \in {"asleep", "ranged", "fetched"}
  /\ view \in [Deposits -> 0 .. MaxHead] /\ depositRows \in [Deposits -> 0 .. MaxHead]
  /\ lastFetched \in 0 .. MaxHead
  /\ range \in [from : 0 .. MaxHead + 1, to : 0 .. MaxHead, height : 0 .. MaxHead]
  /\ reach \in 0 .. MaxHead /\ reorgs \in 0 .. MaxReorgs /\ mishaps \in 0 .. MaxMishaps

(* A pass that has reached the head leaves every deposit of the chain it   *)
(* saw in its row, reorganised or not: the window at the head reaches back *)
(* over what could have changed since the pass before (eth1.go:76-98).     *)
(* Not so when no block came since: that pass fetches nothing.             *)
PassCompletes ==
  stage = "fetched" /\ stage' = "asleep" /\ lastFetched' = range.height /\ range.from <= range.to
      /\ mishaps' = mishaps
    => \A d \in Deposits : view[d] \in FirstBlock .. range.to => depositRows'[d] = view[d]

(* Once the chain is not reorganised any more, and blocks still come, each *)
(* of its deposits gets its row and keeps it (eth1.go:55-140).             *)
DepositsArrive == <>[](\A d \in Deposits : at[d] # 0 => depositRows[d] = at[d])
=============================================================================
