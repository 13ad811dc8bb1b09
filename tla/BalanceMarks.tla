---------------------------- MODULE BalanceMarks ----------------------------
(***************************************************************************)
(* The balances of addresses (cmd/eth1indexer/main.go, IndexFromBigtable   *)
(* and ProcessMetadataUpdates).  A block that is indexed marks each pair   *)
(* of an address and a token it touches, unless a block of the same run    *)
(* has; then the marked balances are asked of the node and the marks are   *)
(* deleted.                                                                *)
(*                                                                         *)
(* A balance is the height of the last block that touched it.  The chain   *)
(* only grows: the addresses of a block that is deleted are not marked.    *)
(***************************************************************************)
EXTENDS Integers, Sequences, FiniteSetsExt

CONSTANTS
  Addresses,      \* numbers, in the order of their rows
  Tokens,
  TouchedBy,      \* sequence: the pairs that each block of the chain touches
  DataOffset,     \* data.offset, 1000 by default
  Goroutines,     \* data.concurrency, 30 by default
  BatchSize,      \* balances.batch, 1000 by default
  Iterations,     \* 10 in the loop of main
  MaxStops        \* bound: ends by an error, and elements of a batch that fail

Pairs == Addresses \X Tokens

MarksAssumption ==
  /\ Addresses \subseteq Nat \ {0} /\ IsFiniteSet(Pairs) /\ TouchedBy \in Seq(SUBSET Pairs)
  /\ {DataOffset, Iterations, MaxStops} \subseteq Nat
  /\ {Goroutines, BatchSize} \subseteq Nat \ {0}

VARIABLES
  tip,       \* the node: its last block
  step,      \* where the loop of main is
  todo,      \* heights whose goroutine has not ended
  started,   \* those that have transformed their block
  held,      \* the marks they are going to write
  cached,    \* the pairs in the cache of this run
  inData,    \* heights whose rows are in the data table
  marks,     \* metadata updates table
  balance,   \* metadata table: the height of each balance
  lastKey,   \* the last address of the batch before
  batch,     \* the marks of the addresses that were read
  answers,   \* what the node said of them
  its,       \* batches of this pass
  broken,    \* history: pairs a run was about to mark when it stopped, and none since
  stops      \* how much of MaxStops is spent

marksVars == <<tip, step, todo, started, held, cached, inData, marks, balance, lastKey, batch, answers,
               its, broken, stops>>

Heights == 1 .. Len(TouchedBy)
NothingHeld == [h \in Heights |-> {}]
Failed == -1

LastTouch(p, height) == Max({0} \cup {h \in 1 .. height : p \in TouchedBy[h]})
LastInData == Max({0} \cup inData)

Init ==
  /\ tip = 0 /\ step = "asleep"
  /\ todo = {} /\ started = {} /\ held = NothingHeld /\ cached = {}
  /\ inData = {} /\ marks = {} /\ balance = [p \in Pairs |-> 0]
  /\ lastKey = 0 /\ batch = {} /\ answers = [p \in Pairs |-> 0] /\ its = 0
  /\ broken = {} /\ stops = 0

TypeOK ==
  /\ tip \in 0 .. Len(TouchedBy)
  /\ step \in {"asleep", "index", "read", "ask", "save", "delete"}
  /\ todo \subseteq Heights
  /\ started \subseteq todo /\ held \in [Heights -> SUBSET Pairs]
  /\ cached \subseteq Pairs /\ inData \subseteq Heights /\ marks \subseteq Pairs
  /\ batch \subseteq Pairs /\ balance \in [Pairs -> {Failed} \cup 0 .. tip]
  /\ lastKey \in Addresses \cup {0} /\ its \in 0 .. Iterations + 1
  /\ broken \subseteq Pairs /\ stops \in 0 .. MaxStops

----------------------------------------------------------------------------
NewBlock ==
  /\ tip < Len(TouchedBy) /\ tip' = tip + 1
  /\ UNCHANGED <<step, todo, started, held, cached, inData, marks, balance, lastKey, batch, answers,
                 its, broken, stops>>

StartUpdates == lastKey' = 0 /\ batch' = {} /\ its' = 0

\* The pass is over, or the process stopped and is started again.
Rest ==
  /\ step' = "asleep" /\ todo' = {} /\ started' = {} /\ held' = NothingHeld /\ cached' = {}
  /\ answers' = [p \in Pairs |-> 0] /\ StartUpdates

StartPass ==
  /\ step = "asleep"
  /\ IF LastInData < tip
     THEN /\ step' = "index"
          /\ todo' = {h \in Heights : LastInData - DataOffset <= h /\ h <= tip}
     ELSE step' = "read" /\ UNCHANGED todo
  /\ UNCHANGED <<tip, started, held, cached, inData, marks, balance, lastKey, batch, answers,
                 its, broken, stops>>

Running(h) ==
  step = "index" /\ h \in todo /\ Cardinality({g \in todo : g < h}) < Goroutines

\* Slip: the marks of a block are those of the blocks before it in the cache.
SlipMarksOf(h) == TouchedBy[h] \cap cached

\* markBalanceUpdate
MarksOf(h) == TouchedBy[h] \ cached

Transform(h) ==
  /\ Running(h) /\ h \notin started
  /\ started' = started \cup {h}
  /\ held' = [held EXCEPT ![h] = MarksOf(h)]
  /\ cached' = cached \cup TouchedBy[h]
  /\ UNCHANGED <<tip, step, todo, inData, marks, balance, lastKey, batch, answers, its, broken,
                 stops>>

\* The bulk write of the data rows, then that of the marks.
WriteData(h) ==
  /\ Running(h) /\ h \in started /\ h \notin inData
  /\ inData' = inData \cup {h}
  /\ UNCHANGED <<tip, step, todo, started, held, cached, marks, balance, lastKey, batch, answers,
                 its, broken, stops>>

WriteMarks(h) ==
  /\ Running(h) /\ h \in started /\ h \in inData
  /\ marks' = marks \cup held[h]
  /\ todo' = todo \ {h} /\ started' = started \ {h}
  /\ UNCHANGED <<tip, step, held, cached, inData, balance, lastKey, batch, answers, its, broken, stops>>

IndexDone ==
  /\ step = "index" /\ todo = {}
  /\ step' = "read"
  /\ started' = {} /\ held' = NothingHeld /\ cached' = {} /\ broken' = broken \ cached
  /\ UNCHANGED <<tip, todo, inData, marks, balance, lastKey, batch, answers, its, stops>>

----------------------------------------------------------------------------
(* ProcessMetadataUpdates *)

\* The addresses of the next rows; the last one of the batch before is asked
\* for again, but its row is deleted.
NextAddresses ==
  LET ahead == {p[1] : p \in {q \in marks : q[1] >= lastKey}}
  IN {a \in ahead : Cardinality({b \in ahead : b < a}) < BatchSize}

GetMetadataUpdates ==
  /\ step = "read"
  /\ IF NextAddresses = {}
     THEN Rest
     ELSE /\ step' = "ask" /\ batch' = {p \in marks : p[1] \in NextAddresses}
          /\ UNCHANGED <<todo, started, held, cached, lastKey, answers, its>>
  /\ UNCHANGED <<tip, inData, marks, balance, broken, stops>>

\* The node answers for its last block; an element that failed is saved as a
\* balance of zero.
GetBalances ==
  /\ step = "ask" /\ step' = "save"
  /\ \E lost \in SUBSET batch :
       /\ stops + Cardinality(lost) <= MaxStops /\ stops' = stops + Cardinality(lost)
       /\ answers' = [p \in Pairs |-> IF p \in lost THEN Failed
                                      ELSE IF p \in batch THEN LastTouch(p, tip) ELSE 0]
  /\ UNCHANGED <<tip, todo, started, held, cached, inData, marks, balance, lastKey, batch, its, broken>>

SaveBalances ==
  /\ step = "save" /\ step' = "delete"
  /\ balance' = [p \in Pairs |-> IF p \in batch THEN answers[p] ELSE balance[p]]
  /\ UNCHANGED <<tip, todo, started, held, cached, inData, marks, lastKey, batch, answers, its, broken, stops>>

DeleteMarks ==
  /\ step = "delete"
  /\ marks' = {p \in marks : ~\E q \in batch : q[1] = p[1]}
  /\ IF its + 1 > Iterations
     THEN Rest
     ELSE /\ step' = "read" /\ its' = its + 1 /\ lastKey' = Max({p[1] : p \in batch})
          /\ UNCHANGED <<todo, started, held, cached, batch, answers>>
  /\ UNCHANGED <<tip, inData, balance, broken, stops>>

\* Any error ends the process; of a bulk write any row may be in.
Stop ==
  /\ step # "asleep" /\ stops < MaxStops /\ stops' = stops + 1
  /\ IF step = "index"
     THEN \E h \in started \cup {0} :
            \E some \in SUBSET (IF h = 0 THEN {} ELSE held[h]) :
              marks' = IF h \in inData THEN marks \cup some ELSE marks
     ELSE UNCHANGED marks
  /\ broken' = broken \cup cached \cup UNION {TouchedBy[h] : h \in todo}
  /\ Rest
  /\ UNCHANGED <<tip, inData, balance>>

LoopStep ==
  \/ StartPass \/ IndexDone \/ GetMetadataUpdates \/ GetBalances \/ SaveBalances \/ DeleteMarks
  \/ \E h \in Heights : Transform(h) \/ WriteData(h) \/ WriteMarks(h)

Next == NewBlock \/ LoopStep \/ Stop

----------------------------------------------------------------------------
(* Properties *)

\* A balance that is older than a block whose rows were written has its mark,
\* whichever goroutine was to write it and however far a batch has got.  After
\* a stop among the blocks that touch it, it takes a run over one of them that
\* comes to its end (bigtable_eth1.go:3255).
StaleIsMarked ==
  step # "index" =>
    \A p \in Pairs \ broken :
      p \in marks \/ balance[p] = Failed \/ balance[p] >= LastTouch(p, LastInData)

\* When the chain stands still the balances become those of its last block.
BalancesSettle == <>[](\A p \in Pairs : balance[p] = LastTouch(p, tip))
=============================================================================
