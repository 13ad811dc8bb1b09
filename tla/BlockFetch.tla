----------------------------- MODULE BlockFetch -----------------------------
(***************************************************************************)
(* One call of GetBlock of the execution clients (rpc/erigon.go,           *)
(* rpc/geth.go): the block by its number, then at the same time its traces *)
(* and its receipts.  The traces are asked for by number, and when that    *)
(* fails by the hash; the receipts by the hashes of the transactions.      *)
(* The node may change its block at the number between the questions.      *)
(*                                                                         *)
(* A receipt is named by the block it was taken from.  A call is a record  *)
(* of its kind, whether it failed, and the calls it made.                  *)
(***************************************************************************)
EXTENDS Integers, SequencesExt

CONSTANTS
  Rivals,      \* the blocks that can stand at the number
  BodyOf,      \* the hashes of their transactions
  Frames,      \* the calls a transaction makes, outermost and inner
  Nested,      \* how deep the calls of a call go
  CallOf,      \* and the outermost call of each transaction
  Rewarded,    \* the blocks whose traces end with the reward
  MaxMoves, MaxRefusals

VARIABLES
  client,      \* "erigon" or "geth"
  there, moves, \* the block at the number now
  reached,       \* "idle", "asking", "waiting", "returned", "failed" or "down"
  block,       \* c: the block, and for each transaction status, itx and receipt
  tracer,      \* the goroutine: "off", "parity", "geth", "done" or "failed"
  tracedAs,    \* the block whose traces it has been given
  refusals     \* requests the node has refused

fetchVars == <<client, there, moves, reached, block, tracer, tracedAs, refusals>>

FetchAssumption ==
  /\ BodyOf \in [Rivals -> Seq(DOMAIN CallOf)] /\ Rewarded \subseteq Rivals
  /\ CallOf \in [DOMAIN CallOf -> Frames] /\ Nested \in [Frames -> Nat]
  /\ \A call \in Frames :
       /\ call.failed \in BOOLEAN /\ call.kind # "reward" /\ call.calls \in Seq(Frames)
       /\ \A i \in DOMAIN call.calls : Nested[call.calls[i]] < Nested[call]
  /\ {MaxMoves, MaxRefusals} \subseteq Nat

NoBlock == [of |-> {}, txs |-> <<>>]

Init ==
  /\ client \in {"erigon", "geth"} /\ there \in Rivals /\ moves = 0
  /\ reached = "idle" /\ block = NoBlock /\ tracer = "off" /\ tracedAs = {} /\ refusals = 0

Move ==
  /\ moves < MaxMoves /\ moves' = moves + 1
  /\ there' \in Rivals \ {there}
  /\ UNCHANGED <<client, reached, block, tracer, tracedAs, refusals>>

Refused == refusals < MaxRefusals /\ refusals' = refusals + 1

----------------------------------------------------------------------------
(* The answers of the node *)
\* extractCalls: a call, then the calls it made, each with its own.
ExtractCalls[call \in Frames] ==
  <<call>> \o FlattenSeq([i \in DOMAIN call.calls |-> ExtractCalls[call.calls[i]]])

\* The traces of a block, with the positions of their transactions.
AtPosition(i, calls) == [k \in DOMAIN calls |-> [position |-> i, kind |-> calls[k].kind, failed |-> calls[k].failed]]
Traces(b) ==
  FlattenSeq([i \in DOMAIN BodyOf[b] |-> AtPosition(i, ExtractCalls[CallOf[BodyOf[b][i]]])])

\* trace_block appends the reward, which has no transaction and position zero.
Reward == [position |-> 1, kind |-> "reward", failed |-> FALSE]
ParityTraces(b) == Traces(b) \o (IF b \in Rewarded THEN <<Reward>> ELSE <<>>)

\* What the client makes of a kind; Parity does not tell the calls apart.
ParityType ==
  [k \in {"call", "delegatecall", "staticcall", "callcode"} |-> "call"]
    @@ [k \in {"create", "create2"} |-> "create"] @@ [k \in {"selfdestruct"} |-> "suicide"]
GethType ==
  [k \in {"call", "delegatecall", "staticcall", "create"} |-> k] @@ [k \in {"create2"} |-> "create"]

----------------------------------------------------------------------------
(* The call *)
\* The block and its transactions, without what comes from traces and receipts.
Built(b) ==
  [of |-> {b},
   txs |-> [i \in DOMAIN BodyOf[b] |->
              [hash |-> BodyOf[b][i], status |-> 0, itx |-> <<>>, receipt |-> {}]]]

Header ==
  /\ reached = "idle" /\ client = "erigon"
  /\ \/ reached' = "asking" /\ block' = Built(there) /\ tracer' = "parity" /\ UNCHANGED refusals
     \/ reached' = "failed" /\ Refused /\ UNCHANGED <<block, tracer>>
  /\ UNCHANGED <<client, there, moves, tracedAs>>

\* The second client does not ask for traces.
GethHeader ==
  /\ reached = "idle" /\ client = "geth"
  /\ \/ reached' = "asking" /\ block' = Built(there) /\ UNCHANGED refusals
     \/ reached' = "failed" /\ Refused /\ UNCHANGED block
  /\ UNCHANGED <<client, there, moves, tracer, tracedAs>>

\* The traces at some places of the list, in its order.
Picked(traces, places) ==
  [n \in 1 .. Cardinality(places) |->
     traces[CHOOSE k \in places : Cardinality({m \in places : m < k}) = n - 1]]

\* Slip: the reward is taken for a trace of the first transaction.
AllTraces(types, traces, txs) ==
  [i \in DOMAIN txs |->
     LET own == Picked(traces, {k \in DOMAIN traces : traces[k].position = i})
     IN IF own = <<>> THEN txs[i]
        ELSE [txs[i] EXCEPT !.status = IF Last(own).failed THEN 0 ELSE 1,
                            !.itx = @ \o [k \in DOMAIN own |-> IF own[k].kind = "reward" THEN "call"
                                                               ELSE types[own[k].kind]]]]

\* Each trace sets the status of its transaction, so that the last one decides.
WithTraces(types, traces, txs) ==
  [i \in DOMAIN txs |->
     LET own == Picked(traces, {k \in DOMAIN traces :
                                  traces[k].position = i /\ traces[k].kind # "reward"})
     IN IF own = <<>> THEN txs[i]
        ELSE [txs[i] EXCEPT !.status = IF Last(own).failed THEN 0 ELSE 1,
                            !.itx = @ \o [k \in DOMAIN own |-> types[own[k].kind]]]]

\* A position the block does not have and a type that is not known stop the process.
Fits(types, traces, txs) ==
  \A k \in DOMAIN traces : traces[k].kind # "reward" =>
    traces[k].position \in DOMAIN txs /\ traces[k].kind \in DOMAIN types

TakeTraces(b, types, traces) ==
  /\ tracedAs' = {b}
  /\ IF Fits(types, traces, block.txs)
     THEN /\ block' = [block EXCEPT !.txs = WithTraces(types, traces, @)]
          /\ tracer' = "done" /\ UNCHANGED reached
     ELSE reached' = "down" /\ tracer' = "off" /\ UNCHANGED block
  /\ UNCHANGED <<client, there, moves, refusals>>

\* The answer is one value, to which the checks and the assignments refer.
TraceParity ==
  tracer = "parity" /\ \E traces \in {ParityTraces(there)} : TakeTraces(there, ParityType, traces)
ParityFails ==
  /\ tracer = "parity" /\ Refused /\ tracer' = "geth"
  /\ UNCHANGED <<client, there, moves, reached, block, tracedAs>>
TraceGeth ==
  tracer = "geth" /\ \E b \in block.of : \E traces \in {Traces(b)} : TakeTraces(b, GethType, traces)
GethFails ==
  /\ tracer = "geth" /\ Refused /\ tracer' = "failed"
  /\ UNCHANGED <<client, there, moves, reached, block, tracedAs>>

\* The receipts, all or none; the tracer is not waited for when there are none.
\* The batch is not sent for a block without transactions.
Receipts ==
  /\ reached = "asking"
  /\ LET known == \A i \in DOMAIN block.txs : \E k \in DOMAIN BodyOf[there] : BodyOf[there][k] = block.txs[i].hash
     IN \/ /\ known /\ reached' = "waiting"
           /\ block' = [block EXCEPT !.txs = [i \in DOMAIN @ |-> [@[i] EXCEPT !.receipt = {there}]]]
           /\ UNCHANGED refusals
        \/ ~known /\ reached' = "failed" /\ UNCHANGED <<block, refusals>>
        \/ block.txs # <<>> /\ Refused /\ reached' = "failed" /\ UNCHANGED block
  /\ UNCHANGED <<client, there, moves, tracer, tracedAs>>

Return ==
  /\ reached = "waiting" /\ tracer \in {"off", "done", "failed"}
  /\ reached' = IF tracer = "failed" THEN "failed" ELSE "returned"
  /\ UNCHANGED <<client, there, moves, block, tracer, tracedAs, refusals>>

Asking == Header \/ GethHeader \/ TraceParity \/ ParityFails \/ TraceGeth \/ GethFails \/ Receipts \/ Return
Next == Move \/ Asking

----------------------------------------------------------------------------
(* The variables have their types.                                         *)
TypeOK ==
  /\ client \in {"erigon", "geth"} /\ there \in Rivals /\ block.of \subseteq Rivals
  /\ reached \in {"idle", "asking", "waiting", "returned", "failed", "down"}
  /\ tracer \in {"off", "parity", "geth", "done", "failed"}
  /\ tracedAs \subseteq Rivals /\ moves \in 0 .. MaxMoves /\ refusals \in 0 .. MaxRefusals

Calls(i) == ExtractCalls[CallOf[block.txs[i].hash]]
Failing(i) == {k \in DOMAIN Calls(i) : Calls(i)[k].failed}

(* What GetBlock of erigon returns is one block: when the node has not put *)
(* another one in its place meanwhile, each transaction has its internal   *)
(* transactions, the outermost call first, and its own receipt.  It is     *)
(* taken for successful when none of its calls failed, and for failed when *)
(* all did (erigon.go:77-327).  When the last inner call fails a           *)
(* successful transaction is taken for failed.                             *)
BlockIsWhole ==
  reached = "returned" /\ client = "erigon" /\ moves = 0 =>
    \A i \in DOMAIN block.txs :
      /\ block.txs[i].receipt = block.of /\ Len(block.txs[i].itx) = Len(Calls(i))
      /\ Failing(i) = {} => block.txs[i].status = 1
      /\ Failing(i) = DOMAIN Calls(i) => block.txs[i].status = 0

(* Whatever the node does, a block that was returned has a receipt for     *)
(* each transaction, of the block the node had when it was asked, and the  *)
(* traces of one block, which is its own unless they were asked for by its *)
(* number (erigon.go:177-315).                                             *)
AnswersAreKnown ==
  reached = "returned" =>
    /\ \A i \in DOMAIN block.txs :
         \E b \in block.txs[i].receipt : \E k \in DOMAIN BodyOf[b] : BodyOf[b][k] = block.txs[i].hash
    /\ client = "erigon" => Cardinality(tracedAs) = 1
    /\ tracedAs # block.of /\ client = "erigon" => moves > 0

(* A call ends, with or without a block.                                   *)
CallEnds == <>(reached \in {"returned", "failed", "down"})
=============================================================================
