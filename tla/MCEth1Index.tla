----------------------------- MODULE MCEth1Index -----------------------------
(***************************************************************************)
(* The execution layer tables for TLC: the loop of the indexer, the rows   *)
(* the address pages read, the marks of the balances, one call of GetBlock, and the exporter *)
(* of the deposits.  They share no state in these models; Init picks one,  *)
(* and only it moves.                                                      *)
(*                                                                         *)
(* The instances: two branches that part after the first block, with a     *)
(* transaction both contain at different heights; two branches of full     *)
(* blocks; three blocks that touch the same addresses and tokens.          *)
(***************************************************************************)
EXTENDS Eth1Index, AddressTables, TLC

CONSTANTS
  a1, a2, a3, a4, b2, b3, b4, t,
  Addresses, Tokens, TouchedBy, DataOffset, Goroutines, BatchSize, Iterations, MaxStops,
  Rivals, BodyOf, Frames, Nested, CallOf, Rewarded, MaxMoves, MaxRefusals,
  Deposits, FirstBlock, LookBack, MaxFetch, Short, FirstHead, MaxHead, Depth, Spurt, MaxMishaps

VARIABLES
  active,
  tip, step, todo, started, held, cached, inData, marks, balance, lastKey, batch, answers, its,
  broken, stops,
  client, there, moves, reached, block, tracer, tracedAs, refusals,
  chainHead, at, stage, range, view, depositRows, lastFetched, reach, reorgs, mishaps

BM == INSTANCE BalanceMarks
F == INSTANCE BlockFetch
D == INSTANCE DepositLogs

ofIndex == vars
ofMarks == <<tip, step, todo, started, held, cached, inData, marks, balance, lastKey, batch, answers,
             its, broken, stops>>
ofFetch == <<client, there, moves, reached, block, tracer, tracedAs, refusals>>
ofDeposits ==
  <<chainHead, at, stage, range, view, depositRows, lastFetched, reach, reorgs, mishaps>>
allVars == <<active, ofIndex, tableVars, ofMarks, ofFetch, ofDeposits>>

ASSUME ConstantsFit ==
  TablesAssumption /\ BM!MarksAssumption /\ F!FetchAssumption /\ D!DepositAssumption

\* The components that stand still begin in one state.
Fixed(S) == CHOOSE x \in S : TRUE
IndexIdle == branch = Fixed(Branches)
FetchIdle == client = "geth" /\ there = Fixed(Rivals)
DepositsIdle == at = [d \in Deposits |-> 0]

MCInit ==
  /\ active \in {"index", "tables", "marks", "fetch", "deposits"}
  /\ Init /\ BM!Init /\ F!Init /\ D!Init
  /\ IF active = "tables" THEN TablesInit ELSE TablesIdle
  /\ active # "index" => IndexIdle
  /\ active # "fetch" => FetchIdle
  /\ active # "deposits" => DepositsIdle

Indexing(Step) ==
  /\ active = "index" /\ Step
  /\ UNCHANGED <<active, tableVars, ofMarks, ofFetch, ofDeposits>>
Paging(Step) ==
  /\ active = "tables" /\ Step
  /\ UNCHANGED <<active, ofIndex, ofMarks, ofFetch, ofDeposits>>
Marking(Step) ==
  /\ active = "marks" /\ Step
  /\ UNCHANGED <<active, ofIndex, tableVars, ofFetch, ofDeposits>>
Fetching(Step) ==
  /\ active = "fetch" /\ Step
  /\ UNCHANGED <<active, ofIndex, tableVars, ofMarks, ofDeposits>>
Depositing(Step) ==
  /\ active = "deposits" /\ Step
  /\ UNCHANGED <<active, ofIndex, tableVars, ofMarks, ofFetch>>

MCNext ==
  \/ Indexing(Next) \/ Paging(TablesNext) \/ Marking(BM!Next)
  \/ Fetching(F!Next) \/ Depositing(D!Next)

MCSpec == MCInit /\ [][MCNext]_allVars

\* The loops are one thread each, with the goroutines of the indexer.
MCFairSpec ==
  /\ MCSpec /\ WF_allVars(Depositing(D!Grow))
  /\ WF_allVars(Indexing(PassStep) \/ Marking(BM!LoopStep) \/ Fetching(F!Asking) \/ Depositing(D!Pass))

\* A page shows each row once and in order, a balance that is older than the
\* blocks in the tables has its mark, and a block comes from the node in one piece.
PagesAndBalances ==
  /\ TablesTypeOK /\ PagesAreExact /\ BM!TypeOK /\ BM!StaleIsMarked
  /\ F!TypeOK /\ F!BlockIsWhole /\ F!AnswersAreKnown /\ D!TypeOK

\* A pass over the deposit contract's logs that reaches the head leaves every
\* deposit of the chain it saw in its row.
DepositPasses == [][D!PassCompletes]_allVars

\* When the node stands still the tables come to hold its chain, the balances
\* are those of its last block, the deposits are in their rows, and GetBlock ends.
FollowsTheNode ==
  /\ active = "index" => CatchesUp
  /\ active = "marks" => BM!BalancesSettle
  /\ active = "deposits" => D!DepositsArrive
  /\ active = "fetch" => F!CallEnds

----------------------------------------------------------------------------
LongBlocks == {a1, a2, a3, a4, b2, b3, b4}
LongBranches == {<<a1, a2, a3, a4>>, <<a1, b2, b3, b4>>}
OneTx == {t}
SharedTx == [b \in LongBlocks |-> IF b \in {a2, b3} THEN {t} ELSE {}]

Call(from, to, top, empty) == [from |-> from, to |-> to, top |-> top, empty |-> empty]
Log(kind, from, to) == [kind |-> kind, token |-> "c", from |-> from, to |-> to]
Tx(hash, from, to, itx, logs) ==
  [hash |-> hash, from |-> from, to |-> to, itx |-> itx, logs |-> logs]
Full(number, time, uncles, txs) ==
  [number |-> number, time |-> time, miner |-> "x", uncles |-> uncles, txs |-> txs]
Calls == <<Call("x", "y", TRUE, FALSE), Call("x", "z", FALSE, FALSE), Call("z", "x", FALSE, TRUE)>>
Logs == <<Log("ERC20", "x", "y"), Log("ERC20", "y", "x"), Log("ERC721", "x", "x"),
          Log("ERC1155", "x", "y")>>
FullBody ==
  [b \in {"p1", "p2", "p3", "q2"} |->
     CASE b = "p1" -> Full(1, 1, <<"x">>, <<Tx("t1", "x", "y", Calls, Logs)>>)
       [] b = "p2" -> Full(2, 2, <<"x", "x">>,
                           <<Tx("t2", "y", "x", <<>>, Logs), Tx("t3", "x", "x", Calls, <<>>)>>)
       [] b = "p3" -> Full(3, 3, <<>>, <<Tx("t4", "x", "y", Calls, Logs)>>)
       [] b = "q2" -> Full(2, 4, <<"x">>,
                           <<Tx("t5", "y", "z", <<>>, <<>>), Tx("t2", "y", "x", <<>>, Logs)>>)]
FullChains == {<<"p1", "p2", "p3">>, <<"p1", "q2">>}

Touches ==
  <<{<<1, "e">>, <<2, "e">>}, {<<1, "e">>, <<1, "c">>}, {<<1, "c">>, <<2, "e">>}>>

Made(kind, fails, calls) == [kind |-> kind, failed |-> fails, calls |-> calls]
CallsOf ==
  [h \in {"s", "f", "g", "k", "w"} |->
     CASE h = "s" -> Made("call", FALSE, <<Made("create2", FALSE, <<Made("delegatecall", FALSE, <<>>)>>)>>)
       [] h = "f" -> Made("call", TRUE, <<Made("staticcall", TRUE, <<>>)>>)
       [] h = "g" -> Made("create", FALSE, <<Made("call", TRUE, <<>>), Made("call", FALSE, <<>>)>>)
       [] h = "k" -> Made("call", FALSE, <<Made("selfdestruct", FALSE, <<>>)>>)
       [] h = "w" -> Made("call", FALSE, <<>>)]
InnerOf(calls) == UNION {{c.calls[i] : i \in DOMAIN c.calls} : c \in calls}
AllCalls ==
  LET outer == {CallsOf[h] : h \in DOMAIN CallsOf}
  IN outer \cup InnerOf(outer) \cup InnerOf(InnerOf(outer))
Nesting ==
  [c \in AllCalls |-> IF c.calls = <<>> THEN 0 ELSE IF InnerOf(InnerOf({c})) = {} THEN 1 ELSE 2]
Bodies ==
  [b \in {"r1", "r2", "r3", "r4"} |->
     CASE b = "r1" -> <<"f", "s">> [] b = "r2" -> <<"s", "f", "w">> [] b = "r3" -> <<"k", "g">>
       [] b = "r4" -> <<>>]
==============================================================================
