----------------------------- MODULE Eth1Index -----------------------------
(***************************************************************************)
(* The loop of the execution layer indexer (cmd/eth1indexer/main.go over   *)
(* db/bigtable_eth1.go).  A pass deletes the blocks the node no longer     *)
(* has, copies the missing blocks from the node into the blocks table, and *)
(* derives the rows of the data table from them.  Bigtable has no          *)
(* transactions: every write is a step, and the goroutines of one errgroup *)
(* work in any order.                                                      *)
(*                                                                         *)
(* Before the data rows of a block are written, their keys are saved in    *)
(* the metadata updates table; only there can DeleteBlock find them.       *)
(*                                                                         *)
(* Height 1 is a block that no reorganisation reaches; the chain below it  *)
(* is left out.  So are the balance marks, the third write of a block.     *)
(***************************************************************************)
EXTENDS Integers, Sequences, FiniteSets, FiniteSetsExt

CONSTANTS
    Blocks,        \* block hashes
    Branches,      \* the chains the node can follow, sequences of blocks
    Txs,           \* transaction hashes
    TxsOf,         \* the transactions of each block
    ReorgDepth,    \* reorg.depth, 20 by default
    OffsetBlocks,  \* blocks.offset, 100 by default
    OffsetData,    \* data.offset, 1000 by default
    Concurrency,   \* blocks.concurrency and data.concurrency, 30 by default
    Calm,          \* TRUE: the node only moves while the indexer sleeps
    MaxDrop,       \* by how much a reorganisation may lower the head
    MaxReorgs,     \* bound: reorganisations
    MaxFaults,     \* bound: failed requests and writes
    MaxCrashes     \* bound: crashes of the indexer

None == "none"

\* A hash determines the height and the ancestors of its block, and a chain has
\* a transaction once.
ASSUME Eth1Assumption ==
    /\ None \notin Blocks
    /\ IsFiniteSet(Branches) /\ Branches # {}
    /\ \A p \in Branches :
        /\ p \in Seq(Blocks) /\ p # <<>>
        /\ \A q \in Branches : \A i \in DOMAIN p, j \in DOMAIN q :
            p[i] = q[j] => i = j /\ \A k \in 1 .. i : p[k] = q[k]
        /\ \A i, j \in DOMAIN p : i # j => TxsOf[p[i]] \cap TxsOf[p[j]] = {}
    /\ \A p, q \in Branches : p[1] = q[1]
    /\ TxsOf \in [Blocks -> SUBSET Txs]
    /\ {ReorgDepth, OffsetBlocks, OffsetData, MaxDrop, MaxReorgs, MaxFaults,
        MaxCrashes} \subseteq Nat
    /\ Concurrency \in Nat \ {0}
    /\ Calm \in BOOLEAN

Heights == 1 .. Max({Len(p) : p \in Branches})
HeightOf(b) ==
    CHOOSE h \in Heights : \E p \in Branches : h \in DOMAIN p /\ p[h] = b

(***************************************************************************)
(* The keys of the data table a block writes: the row B:<height>, which    *)
(* the blocks of a height share, the rows TX:<hash> of its transactions,   *)
(* which a block of another branch may write too, and its index rows,      *)
(* whose keys hold its height and its time.                                *)
(***************************************************************************)
HeightKey(h) == <<"B", h>>
KeysOf(b) ==
    {HeightKey(HeightOf(b)), <<"I", b>>} \cup {<<"TX", t>> : t \in TxsOf[b]}
Keys == UNION {KeysOf(b) : b \in Blocks}

VARIABLES
    branch,     \* the node: its canonical chain
    head,       \* the node: the number of its last block
    blocks,     \* blocks table: the block stored at a height
    data,       \* data table: the block that last wrote a row
    keyRows,    \* metadata updates table: the blocks whose keys are saved
    pc,         \* where the loop is
    latest,     \* latestNodeBlockNumber, then lastBlockFromNode
    last,       \* lastBlockFromBlocksTable and lastBlockFromDataTable
    cursor,     \* i, then j of HandleChainReorgs
    pending,    \* the heights whose goroutine has not ended
    got,        \* the block in the memory of a goroutine
    failed,     \* TRUE when a goroutine of the errgroup returned an error
    used        \* what was spent of the bounds, and reorganisations that
                \* lowered the head

node == <<branch, head>>
tables == <<blocks, data, keyRows>>
work == <<pending, got, failed>>
vars == <<node, tables, pc, latest, last, cursor, work, used>>

NothingGot == [h \in Heights |-> None]

\* The table already holds the first block, indexed, and the node has it.
Init ==
    /\ branch \in Branches
    /\ head = 1
    /\ blocks = [h \in Heights |-> IF h = 1 THEN branch[1] ELSE None]
    /\ data = [k \in Keys |-> IF k \in KeysOf(branch[1]) THEN branch[1] ELSE None]
    /\ keyRows = {branch[1]}
    /\ pc = "asleep"
    /\ latest = 0
    /\ last = [blocks |-> 0, data |-> 0]
    /\ cursor = 0
    /\ pending = {}
    /\ got = NothingGot
    /\ failed = FALSE
    /\ used = [reorgs |-> 0, lowered |-> 0, faults |-> 0, crashes |-> 0]

-----------------------------------------------------------------------------
(* The node *)

NodeMayMove == Calm => pc = "asleep"

NewBlock ==
    /\ NodeMayMove
    /\ head < Len(branch)
    /\ head' = head + 1
    /\ UNCHANGED <<branch, tables, pc, latest, last, cursor, work, used>>

\* The node follows another branch, possibly a longer or a shorter one.
Reorg ==
    /\ NodeMayMove
    /\ used.reorgs < MaxReorgs
    /\ \E other \in Branches \ {branch} :
        /\ branch' = other
        /\ head' \in {h \in DOMAIN other : h >= head - MaxDrop}
    /\ used' = [used EXCEPT !.reorgs = @ + 1,
                            !.lowered = IF head' < head THEN @ + 1 ELSE @]
    /\ UNCHANGED <<tables, pc, latest, last, cursor, work>>

-----------------------------------------------------------------------------
(* HandleChainReorgs *)

\* The number of the node's last block, and the first height to compare.
StartPass ==
    /\ pc = "asleep"
    /\ pc' = "compare"
    /\ latest' = head
    /\ cursor' = Max({1, head - ReorgDepth})
    /\ UNCHANGED <<node, tables, last, work, used>>

\* Faulty: one height too many.
NextHeightPast(loop) ==
    /\ pc' = IF cursor > latest THEN "sizes" ELSE loop
    /\ cursor' = IF cursor > latest THEN 0 ELSE cursor + 1

\* Faulty: the last height is left out.
NextHeightShort(loop) ==
    /\ pc' = IF cursor + 1 >= latest THEN "sizes" ELSE loop
    /\ cursor' = IF cursor + 1 >= latest THEN 0 ELSE cursor + 1

\* The loop variable moves on; after the last height the pass goes on.
NextHeight(loop) ==
    /\ pc' = IF cursor = latest THEN "sizes" ELSE loop
    /\ cursor' = IF cursor = latest THEN 0 ELSE cursor + 1

ReorgsEnd ==
    /\ pc' = "sizes"
    /\ cursor' = 0

\* A header and a row of the blocks table.  It ends at a height one side lacks.
Compare ==
    /\ pc = "compare"
    /\ IF cursor > head \/ blocks[cursor] = None
       THEN ReorgsEnd
       ELSE IF blocks[cursor] = branch[cursor]
       THEN NextHeight("compare")
       ELSE pc' = "delete" /\ UNCHANGED cursor
    /\ UNCHANGED <<node, tables, latest, last, work, used>>

\* Faulty: the fork block is the only one deleted.
DeleteBlockRowOnly ==
    /\ pc = "unlink"
    /\ blocks' = [blocks EXCEPT ![cursor] = None]
    /\ ReorgsEnd
    /\ UNCHANGED <<node, data, keyRows, latest, last, work, used>>

\* DeleteBlock, first half: the data rows.  Without saved keys it is an error.
DeleteDataRows ==
    /\ pc = "delete"
    /\ IF blocks[cursor] = None \/ blocks[cursor] \notin keyRows
       THEN ReorgsEnd /\ UNCHANGED data
       ELSE /\ data' = [k \in Keys |->
                    IF k \in KeysOf(blocks[cursor]) THEN None ELSE data[k]]
            /\ pc' = "unlink"
            /\ UNCHANGED cursor
    /\ UNCHANGED <<node, blocks, keyRows, latest, last, work, used>>

\* DeleteBlock, second half: the row of the blocks table.
DeleteBlockRow ==
    /\ pc = "unlink"
    /\ blocks' = [blocks EXCEPT ![cursor] = None]
    /\ NextHeight("delete")
    /\ UNCHANGED <<node, data, keyRows, latest, last, work, used>>

\* An error of HandleChainReorgs is logged and the pass goes on.  A bulk delete
\* that fails may have deleted any of its rows.
ReorgsFail ==
    /\ pc \in {"compare", "delete", "unlink"}
    /\ used.faults < MaxFaults
    /\ IF pc = "delete" /\ blocks[cursor] \in keyRows
       THEN \E some \in SUBSET KeysOf(blocks[cursor]) :
                data' = [k \in Keys |-> IF k \in some THEN None ELSE data[k]]
       ELSE UNCHANGED data
    /\ ReorgsEnd
    /\ used' = [used EXCEPT !.faults = @ + 1]
    /\ UNCHANGED <<node, blocks, keyRows, latest, last, work>>

-----------------------------------------------------------------------------
(* The goroutines of IndexFromNode and IndexFromBigtable *)

LastBlockInBlocksTable == Max({0} \cup {h \in Heights : blocks[h] # None})
LastBlockInDataTable == Max({0} \cup {h \in Heights : data[HeightKey(h)] # None})

\* Faulty: no look-back.
WindowAfter(from, offset, end) == {h \in Heights : from < h /\ h <= end}

Window(from, offset, end) == {h \in Heights : from - offset <= h /\ h <= end}

\* errgroup.SetLimit: the goroutines start in the order of the heights.
Started(h) ==
    h \in pending /\ Cardinality({g \in pending : g < h}) < Concurrency

Ends(h) ==
    /\ pending' = pending \ {h}
    /\ got' = [got EXCEPT ![h] = None]

\* The errgroup has no context: the other goroutines go on.
EndsWithError(h) == Ends(h) /\ failed' = TRUE

\* logrus.Fatalf: the process ends and is started again.
Restart ==
    /\ pc' = "asleep"
    /\ latest' = 0
    /\ last' = [blocks |-> 0, data |-> 0]
    /\ cursor' = 0
    /\ pending' = {}
    /\ got' = NothingGot
    /\ failed' = FALSE

\* The three last blocks; both tables are then indexed up to this one.
ReadSizes ==
    /\ pc = "sizes"
    /\ latest' = head
    /\ pc' = "blocks"
    /\ last' = [blocks |-> LastBlockInBlocksTable, data |-> LastBlockInDataTable]
    /\ pending' = IF LastBlockInBlocksTable < head
                  THEN Window(LastBlockInBlocksTable, OffsetBlocks, head)
                  ELSE {}
    /\ UNCHANGED <<node, tables, cursor, got, failed, used>>

FetchBlock(h) ==
    /\ pc = "blocks"
    /\ Started(h)
    /\ got[h] = None
    /\ IF h <= head
       THEN got' = [got EXCEPT ![h] = branch[h]] /\ UNCHANGED <<pending, failed>>
       ELSE EndsWithError(h)
    /\ UNCHANGED <<node, tables, pc, latest, last, cursor, used>>

SaveBlock(h) ==
    /\ pc = "blocks"
    /\ got[h] # None
    /\ blocks' = [blocks EXCEPT ![h] = got[h]]
    /\ Ends(h)
    /\ UNCHANGED <<node, data, keyRows, pc, latest, last, cursor, failed, used>>

\* g.Wait of IndexFromNode; IndexFromBigtable starts with an errgroup of its own.
BlocksDone ==
    /\ pc = "blocks"
    /\ pending = {}
    /\ IF failed
       THEN Restart
       ELSE /\ pc' = "data"
            /\ pending' = IF last.data < latest
                          THEN Window(last.data, OffsetData, latest)
                          ELSE {}
            /\ UNCHANGED <<latest, last, cursor, got, failed>>
    /\ UNCHANGED <<node, tables, used>>

\* Faulty: the keys are not saved before the rows are written.
SaveNoBlockKeys(h) ==
    /\ pc = "data"
    /\ Started(h)
    /\ got[h] = None
    /\ IF blocks[h] = None
       THEN EndsWithError(h)
       ELSE got' = [got EXCEPT ![h] = blocks[h]] /\ UNCHANGED <<pending, failed>>
    /\ UNCHANGED <<node, tables, pc, latest, last, cursor, used>>

\* The block is read and transformed, and the keys of its rows are saved.
SaveBlockKeys(h) ==
    /\ pc = "data"
    /\ Started(h)
    /\ got[h] = None
    /\ IF blocks[h] = None
       THEN EndsWithError(h) /\ UNCHANGED keyRows
       ELSE /\ got' = [got EXCEPT ![h] = blocks[h]]
            /\ keyRows' = keyRows \cup {blocks[h]}
            /\ UNCHANGED <<pending, failed>>
    /\ UNCHANGED <<node, blocks, data, pc, latest, last, cursor, used>>

Written(keys, b) == data' = [k \in Keys |-> IF k \in keys THEN b ELSE data[k]]

WriteData(h) ==
    /\ pc = "data"
    /\ got[h] # None
    /\ Written(KeysOf(got[h]), got[h])
    /\ Ends(h)
    /\ UNCHANGED <<node, blocks, keyRows, pc, latest, last, cursor, failed, used>>

\* A request or a write of a goroutine fails; of a bulk write any row may be in.
IndexFails(h) ==
    /\ Started(h)
    /\ used.faults < MaxFaults
    /\ IF pc = "data" /\ got[h] # None
       THEN \E some \in SUBSET KeysOf(got[h]) : Written(some, got[h])
       ELSE UNCHANGED data
    /\ EndsWithError(h)
    /\ used' = [used EXCEPT !.faults = @ + 1]
    /\ UNCHANGED <<node, blocks, keyRows, pc, latest, last, cursor>>

\* g.Wait of IndexFromBigtable, then the loop sleeps.
DataDone ==
    /\ pc = "data"
    /\ pending = {}
    /\ Restart
    /\ UNCHANGED <<node, tables, used>>

\* Any request outside of the goroutines that fails is a Fatalf as well.
Crash ==
    /\ used.crashes < MaxCrashes
    /\ pc # "asleep"
    /\ Restart
    /\ used' = [used EXCEPT !.crashes = @ + 1]
    /\ UNCHANGED <<node, tables>>

-----------------------------------------------------------------------------
PassStep ==
    \/ StartPass \/ Compare \/ DeleteDataRows \/ DeleteBlockRow \/ ReadSizes
    \/ BlocksDone \/ DataDone
    \/ \E h \in Heights : \/ FetchBlock(h) \/ SaveBlock(h)
                          \/ SaveBlockKeys(h) \/ WriteData(h)

Next ==
    \/ NewBlock \/ Reorg
    \/ PassStep
    \/ ReorgsFail \/ Crash
    \/ \E h \in Heights : IndexFails(h)

Spec == Init /\ [][Next]_vars

\* The loop is one thread and its goroutines; all of them keep running.
FairSpec == Spec /\ WF_vars(PassStep)

-----------------------------------------------------------------------------
(* Properties *)

TypeOK ==
    /\ branch \in Branches
    /\ head \in DOMAIN branch
    /\ blocks \in [Heights -> Blocks \cup {None}]
    /\ data \in [Keys -> Blocks \cup {None}]
    /\ keyRows \subseteq Blocks
    /\ pc \in {"asleep", "compare", "delete", "unlink", "sizes", "blocks", "data"}
    /\ latest \in Heights \cup {0}
    /\ last \in [blocks : Heights \cup {0}, data : Heights \cup {0}]
    /\ cursor \in Heights \cup {0}
    /\ pending \subseteq Heights
    /\ got \in [Heights -> Blocks \cup {None}]
    /\ failed \in BOOLEAN
    /\ used \in [reorgs : Nat, lowered : Nat, faults : Nat, crashes : Nat]

\* No row of the data table is out of DeleteBlock's reach: the keys of the
\* block that wrote it are saved, wherever a pass was interrupted.
RowsHaveKeys == \A k \in Keys : data[k] # None => data[k] \in keyRows

\* The block that wrote a row of the data table is in the blocks table, where
\* HandleChainReorgs finds it: no index row of a replaced block stays behind.
\* So it is while nothing fails, the indexer does not die and the node moves
\* between passes and never to a lower head; HandleChainReorgs deletes upwards
\* from the fork to the node's head, and stops at a block that is missing.  It
\* also asks that a pass finds the fork within reorg.depth of the head, as it is
\* on the chains of the runs: IndexFromNode copies OffsetBlocks blocks again,
\* and replaces a block of a deeper fork without deleting its rows.
RowsHaveTheirBlock ==
    Calm /\ used.lowered + used.faults + used.crashes = 0 =>
        \A k \in Keys : data[k] # None => blocks[HeightOf(data[k])] = data[k]

BlocksAgree(end) == \A h \in 1 .. end : blocks[h] = branch[h]
DataAgrees(end) ==
    \A h \in 1 .. end : \A k \in KeysOf(branch[h]) : data[k] = branch[h]

\* A pass during which the node did not move, which had a block to copy and came
\* to its end, leaves both tables complete and equal to the node's chain, in
\* spite of what earlier passes that failed left in them.
PassAgrees ==
    [][Calm /\ DataDone /\ ~failed /\ last.blocks < latest /\ last.data < latest
        => BlocksAgree(latest) /\ DataAgrees(latest)]_vars

\* The indexer catches up: when the node no longer moves and nothing fails,
\* both tables come to agree with its chain and stay so.
CatchesUp == <>[](BlocksAgree(head) /\ DataAgrees(head))
=============================================================================
