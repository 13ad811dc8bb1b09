------------------------- MODULE ChainTablesProofs -------------------------
(***************************************************************************)
(* Proofs about the rows ChainSync leaves in the tables: which statuses    *)
(* and which placeholders a slot may have, and that the tables change as   *)
(* EpochTable promises.  They rest on the invariant of ChainSyncProofs.    *)
(***************************************************************************)
EXTENDS SyncAgreement, ChainSyncProofs

USE DEF node, tables, loop, vars

-----------------------------------------------------------------------------
(* Who writes the table blocks *)

\* Only these steps change the table blocks.
LEMMA WritersOfBlocks ==
    ASSUME [Next]_vars
    PROVE  \/ UNCHANGED blocks
           \/ SaveBlock
           \/ \E c \in Checkers : MarkOrphanedBlocks(c)
           \/ \E g \in Savers : SaveEpoch(g) \/ DeleteScheduled(g) \/ DeleteMissed(g)
  <1>1. NodeStep \/ Crash => UNCHANGED blocks
    BY DEF NodeStep, Tick, Reorg, Finalize, Crash
  <1>2. LoopStep => SaveBlock \/ UNCHANGED blocks
    BY DEF LoopStep, PushHead, DropHead, ReceiveBlock, SaveBlockFails
  <1>3. ASSUME NEW c \in Checkers, CheckStep(c) \/ CheckFault(c)
        PROVE  MarkOrphanedBlocks(c) \/ UNCHANGED blocks
    BY <1>3 DEF CheckStep, CheckFault, LoadRunning, StoreRunning, ReadHead,
                ReadDb, ReadNode, Plan, ExportEpoch, SkipBlacklisted,
                UpdateEpochFinalization, RequestFails, ExportFails, MarkFails
  <1>4. ASSUME NEW g \in Savers, SaverStep(g) \/ SaverFails(g)
        PROVE  \/ SaveEpoch(g) \/ DeleteScheduled(g) \/ DeleteMissed(g)
               \/ UNCHANGED blocks
    BY <1>4 DEF SaverStep, SaverFails, SkipUnchanged, CleanupRefused
  <1>5. UNCHANGED vars => UNCHANGED blocks
    OBVIOUS
  <1> QED
    BY <1>1, <1>2, <1>3, <1>4, <1>5 DEF Next

\* What saveBlocks is given: the block in hand, or the data of a saver.
LEMMA SavedData ==
    ASSUME IInv
    PROVE  /\ SaveBlock => \E slot \in Slots, r \in BlockRoots :
                /\ inHand[1] = <<slot, r>>
                /\ blocks' = SaveBlocks(blocks, [s \in {slot} |-> r])
           /\ \A g \in Savers : SaveEpoch(g) =>
                /\ savers[g].epoch \in Epochs
                /\ savers[g].data \in [SlotsOf(savers[g].epoch) -> Roots]
                /\ blocks' = SaveBlocks(blocks, savers[g].data)
  <1>1. ASSUME SaveBlock
        PROVE  \E slot \in Slots, r \in BlockRoots :
                  /\ inHand[1] = <<slot, r>>
                  /\ blocks' = SaveBlocks(blocks, [s \in {slot} |-> r])
    <2>1. inHand[1] \in Block
      BY <1>1 DEF SaveBlock, IInv, TypeOK
    <2>2. PICK slot \in Slots, r \in BlockRoots : inHand[1] = <<slot, r>>
      BY <2>1 DEF Block
    <2>3. blocks' = SaveBlocks(blocks, [s \in {slot} |-> r])
      BY <1>1, <2>2 DEF SaveBlock
    <2> QED
      BY <2>2, <2>3
  <1>2. ASSUME NEW g \in Savers, SaveEpoch(g)
        PROVE  /\ savers[g].epoch \in Epochs
               /\ savers[g].data \in [SlotsOf(savers[g].epoch) -> Roots]
               /\ blocks' = SaveBlocks(blocks, savers[g].data)
    <2>1. savers[g].pc # "idle"
      BY <1>2 DEF SaveEpoch
    <2>2. savers[g].epoch \in Epochs
      BY <2>1, SaverDataType DEF IInv
    <2>3. savers[g].data \in [SlotsOf(savers[g].epoch) -> Roots]
      BY <2>1 DEF IInv, SaverHoldsEpoch
    <2> QED
      BY <1>2, <2>2, <2>3 DEF SaveEpoch
  <1> QED
    BY <1>1, <1>2

-----------------------------------------------------------------------------
(* Statuses and placeholders *)

StatusFits(table) ==
    \A s \in Slots : \A r \in Roots :
        table[s][r] \in IF r \in Placeholders
                        THEN {"absent", StatusOf(r)}
                        ELSE {"absent", "proposed", "orphaned"}

OneOfTwo(table) ==
    \A s \in Slots : table[s][Root00] = "absent" \/ table[s][Root01] = "absent"

RowsFit(table) == StatusFits(table) /\ OneOfTwo(table)

\* Cardinality counts the placeholders as OneOfTwo says.
LEMMA OneOfTwoCounts ==
    ASSUME OneOfTwo(blocks)
    PROVE  OnePlaceholder
  <1> SUFFICES ASSUME NEW s \in Slots
               PROVE  Cardinality(Present(blocks[s]) \cap Placeholders) <= 1
    BY DEF OnePlaceholder
  <1> DEFINE P == Present(blocks[s]) \cap Placeholders
  <1>1. P \subseteq {Root00} \/ P \subseteq {Root01}
    BY DEF OneOfTwo, Present, Placeholders
  <1>2. P = {} \/ P = {Root00} \/ P = {Root01}
    BY <1>1
  <1>3. Cardinality(P) \in {0, 1}
    <2> HIDE DEF P
    <2> QED
      BY <1>2, FS_EmptySet, FS_Singleton
  <1> QED
    BY <1>3

\* saveBlocks writes the status of the root and replaces placeholders.
LEMMA SaveBlocksFits ==
    ASSUME NEW table \in BlockTables, RowsFit(table), NEW data,
           \A s \in Slots \cap DOMAIN data : data[s] \in Roots
    PROVE  RowsFit(SaveBlocks(table, data))
  <1> DEFINE new == SaveBlocks(table, data)
  <1>1. \A s \in Slots : new[s] = IF s \in DOMAIN data
                                  THEN InsertBlock(table[s], data[s])
                                  ELSE table[s]
    BY DEF SaveBlocks
  <1>2. ASSUME NEW s \in Slots, NEW r \in Roots
        PROVE  \/ new[s][r] = table[s][r]
               \/ new[s][r] = "absent"
               \/ new[s][r] = StatusOf(r)
    BY <1>1, <1>2 DEF InsertBlock
  <1>3. StatusFits(new)
    <2> HIDE DEF new
    <2>1. \A r \in Roots : r \notin Placeholders => StatusOf(r) = "proposed"
      BY StatusOfType DEF Roots
    <2> QED
      BY <1>2, <2>1 DEF StatusFits, RowsFit
  <1>4. OneOfTwo(new)
    <2> SUFFICES ASSUME NEW s \in Slots
                 PROVE  new[s][Root00] = "absent" \/ new[s][Root01] = "absent"
      BY DEF OneOfTwo
    <2>1. \/ new[s] = table[s]
          \/ \E q \in Roots : \A p \in Placeholders : p # q => new[s][p] = "absent"
      <3>1. CASE s \in DOMAIN data
        <4>1. new[s] = InsertBlock(table[s], data[s])
          BY <1>1, <3>1
        <4> HIDE DEF new
        <4> QED
          BY <3>1, <4>1, RootsDistinct DEF InsertBlock
      <3>2. CASE s \notin DOMAIN data
        BY <1>1, <3>2
      <3> QED
        BY <3>1, <3>2
    <2> HIDE DEF new
    <2> QED
      BY <2>1, RootsDistinct DEF RowsFit, OneOfTwo, Placeholders
  <1> QED
    BY <1>3, <1>4 DEF RowsFit

\* The cleanup only takes rows away.
LEMMA DeleteDuplicatesFits ==
    ASSUME NEW table \in BlockTables, RowsFit(table), NEW from, NEW p \in Placeholders
    PROVE  RowsFit(DeleteDuplicates(table, from, p))
  <1> DEFINE new == DeleteDuplicates(table, from, p)
  <1>1. \A s \in Slots : new[s] = table[s] \/ new[s] = [table[s] EXCEPT ![p] = "absent"]
    BY DEF DeleteDuplicates
  <1>2. \A s \in Slots : table[s] \in [Roots -> BlockStatus]
    BY DEF BlockTables
  <1> HIDE DEF new
  <1>3. \A s \in Slots : \A r \in Roots :
            new[s][r] = table[s][r] \/ new[s][r] = "absent"
    BY <1>1, <1>2
  <1>4. new = DeleteDuplicates(table, from, p)
    BY DEF new
  <1> QED
    BY <1>3, <1>4, RootsDistinct DEF RowsFit, StatusFits, OneOfTwo

\* Marking orphans turns blocks into orphaned ones and back.
LEMMA UpdateCanonicalBlocksFits ==
    ASSUME NEW table \in BlockTables, RowsFit(table), NEW first, NEW last,
           NEW seen \in SUBSET Block
    PROVE  RowsFit(UpdateCanonicalBlocks(table, first, last, seen))
  <1> DEFINE new == UpdateCanonicalBlocks(table, first, last, seen)
  <1>1. \A b \in seen : b[2] \notin Placeholders
    BY RootsDistinct DEF Block
  <1>2. ASSUME NEW s \in Slots, NEW r \in Roots
        PROVE  \/ new[s][r] = table[s][r]
               \/ /\ r \notin Placeholders
                  /\ new[s][r] \in {"proposed", "orphaned"}
                  /\ table[s][r] # "absent"
    <2>1. new[s][r] = IF <<s, r>> \in seen /\ table[s][r] # "absent" THEN "proposed"
                      ELSE IF /\ EpochOfSlot(s) \in first .. last
                              /\ table[s][r] \in {"proposed", "orphaned"}
                              /\ \E b \in seen : s <= b[1]
                           THEN "orphaned"
                           ELSE table[s][r]
      BY DEF UpdateCanonicalBlocks
    <2>2. r \in Placeholders => table[s][r] \notin {"proposed", "orphaned"}
      BY RootsDistinct DEF RowsFit, StatusFits, StatusOf, Placeholders
    <2>3. <<s, r>> \in seen => r \notin Placeholders
      BY <1>1
    <2> HIDE DEF new
    <2> QED
      BY <2>1, <2>2, <2>3
  <1> HIDE DEF new
  <1>3. StatusFits(new)
    BY <1>2 DEF RowsFit, StatusFits
  <1>4. OneOfTwo(new)
    BY <1>2, RootsDistinct DEF RowsFit, OneOfTwo
  <1> QED
    BY <1>3, <1>4 DEF RowsFit, new

\* The tables of the initial states fit.
LEMMA InitFits == Init => RowsFit(blocks)
  <1> SUFFICES ASSUME Init PROVE RowsFit(blocks)
    OBVIOUS
  <1>1. EmptyBlocks \in BlockTables /\ RowsFit(EmptyBlocks)
    BY RootsDistinct
    DEF EmptyBlocks, BlockTables, BlockStatus, RowsFit, StatusFits, OneOfTwo
  <1> DEFINE data == [s \in SlotsOf(0) |-> Root01]
  <1>2. \A s \in Slots \cap DOMAIN data : data[s] \in Roots
    BY RootsDistinct
  <1>3. blocks = EmptyBlocks \/ blocks = SaveBlocks(EmptyBlocks, data)
    BY DEF Init
  <1> HIDE DEF data
  <1> QED
    BY <1>1, <1>2, <1>3, SaveBlocksFits

\* Every step keeps the rows fitting.
LEMMA StepFits == IInv /\ RowsFit(blocks) /\ [Next]_vars => RowsFit(blocks)'
  <1> SUFFICES ASSUME IInv, RowsFit(blocks), [Next]_vars PROVE RowsFit(blocks')
    BY DEF RowsFit, StatusFits, OneOfTwo
  <1>1. blocks \in BlockTables
    BY DEF IInv, TypeOK, BlockTables
  <1>2. CASE UNCHANGED blocks
    BY <1>2
  <1>3. CASE SaveBlock
    <2>1. PICK slot \in Slots, r \in BlockRoots :
            blocks' = SaveBlocks(blocks, [s \in {slot} |-> r])
      BY <1>3, SavedData
    <2> DEFINE data == [s \in {slot} |-> r]
    <2>2. \A s \in Slots \cap DOMAIN data : data[s] \in Roots
      BY RootsDistinct
    <2> HIDE DEF data
    <2> QED
      BY <1>1, <2>1, <2>2, SaveBlocksFits DEF data
  <1>4. ASSUME NEW c \in Checkers, MarkOrphanedBlocks(c) PROVE RowsFit(blocks')
    <2>1. checks[c].seen \in SUBSET Block
      BY DEF IInv, TypeOK, CheckState
    <2> QED
      BY <1>1, <1>4, <2>1, UpdateCanonicalBlocksFits DEF MarkOrphanedBlocks
  <1>5. ASSUME NEW g \in Savers, SaveEpoch(g) PROVE RowsFit(blocks')
    <2>1. /\ savers[g].data \in [SlotsOf(savers[g].epoch) -> Roots]
          /\ blocks' = SaveBlocks(blocks, savers[g].data)
      BY <1>5, SavedData
    <2>2. \A s \in Slots \cap DOMAIN savers[g].data : savers[g].data[s] \in Roots
      BY <2>1
    <2> QED
      BY <1>1, <2>1, <2>2, SaveBlocksFits
  <1>6. ASSUME NEW g \in Savers, DeleteScheduled(g) \/ DeleteMissed(g)
        PROVE  RowsFit(blocks')
    BY <1>1, <1>6, DeleteDuplicatesFits DEF DeleteScheduled, DeleteMissed, Placeholders
  <1> QED
    BY <1>2, <1>3, <1>4, <1>5, <1>6, WritersOfBlocks

\* The rows of every reachable state fit.
THEOREM RowsFitAlways == Spec => []RowsFit(blocks)
  BY InitFits, StepFits, Invariance, PTL DEF Spec

\* The status column agrees with the kind of row: no placeholder is ever marked
\* proposed or orphaned, and no block scheduled or missed.
THEOREM StatusesMatchRoots == Spec => []StatusMatchesRoot
  <1>1. RowsFit(blocks) => StatusMatchesRoot
    BY DEF RowsFit, StatusFits, StatusMatchesRoot
  <1> QED
    BY <1>1, RowsFitAlways, PTL

\* A slot never holds the two placeholders together.
THEOREM PlaceholdersExclude == Spec => []OnePlaceholder
  <1>1. RowsFit(blocks) => OnePlaceholder
    BY OneOfTwoCounts DEF RowsFit
  <1> QED
    BY <1>1, RowsFitAlways, PTL

-----------------------------------------------------------------------------
(* The cleanup *)

Cleaning(g) == savers[g].pc \in {"delete00", "delete01"}

HasRow(table, s, roots) == \E r \in roots : table[s][r] # "absent"

Undisturbed == used.faults = 0 /\ used.crashes = 0

(***************************************************************************)
(* A slot whose placeholder stands beside a block waits for the cleanup of *)
(* its epoch.  For that to be an invariant: only one saver cleans up at a  *)
(* time (the mutex), and in its second half the scheduled placeholders of  *)
(* its epoch are gone from beside blocks.                                  *)
(***************************************************************************)
MuxHeldOnce == \A g, h \in Savers : Cleaning(g) /\ Cleaning(h) => g = h

ScheduledCleaned ==
    \A g \in Savers : savers[g].pc = "delete01" =>
        /\ savers[g].epoch >= CleanupBack
        /\ \A s \in SlotsOf(savers[g].epoch) :
            HasRow(blocks, s, BlockRoots) => blocks[s][Root00] = "absent"

StrayExcused ==
    Undisturbed =>
        \A s \in Slots :
            \/ EpochOfSlot(s) < CleanupBack
            \/ ~ HasRow(blocks, s, Placeholders)
            \/ ~ HasRow(blocks, s, BlockRoots)
            \/ \E g \in Savers : Cleaning(g) /\ savers[g].epoch = EpochOfSlot(s)

CleanupInv == MuxHeldOnce /\ ScheduledCleaned /\ StrayExcused

\* StrayExcused is NoStrayPlaceholder in terms of rows.
LEMMA StrayExcusedMeaning == StrayExcused => NoStrayPlaceholder
  <1>1. ASSUME NEW s \in Slots, NEW roots \in SUBSET Roots
        PROVE  HasRow(blocks, s, roots) <=> Present(blocks[s]) \cap roots # {}
    BY DEF HasRow, Present
  <1>2. Placeholders \in SUBSET Roots /\ BlockRoots \in SUBSET Roots
    BY RootsDistinct
  <1> QED
    BY <1>1, <1>2 DEF StrayExcused, NoStrayPlaceholder, Undisturbed, Cleaning

\* The bounds of faults and crashes are only ever spent.
LEMMA UndisturbedBefore == IInv /\ [Next]_vars /\ Undisturbed' => Undisturbed
  <1> SUFFICES ASSUME IInv, [Next]_vars, Undisturbed' PROVE Undisturbed
    OBVIOUS
  <1>1. used \in UsedState
    BY DEF IInv, TypeOK, UsedState
  <1> DEFINE Spends(u) == \/ u = used
                          \/ u = [used EXCEPT !.reorgs = @ + 1]
                          \/ \E k \in Nat : u = [used EXCEPT !.faults = @ + k]
                          \/ u = [used EXCEPT !.crashes = @ + 1]
  <1>2. \A u : Spends(u) => u.faults >= used.faults /\ u.crashes >= used.crashes
    BY <1>1 DEF UsedState
  <1>3. Spends(used')
    <2>1. NodeStep => Spends(used')
      BY DEF NodeStep, Tick, Reorg, Finalize
    <2>2. LoopStep => Spends(used')
      BY DEF LoopStep, PushHead, DropHead, ReceiveBlock, SaveBlock, SaveBlockFails
    <2>3. ASSUME NEW c \in Checkers, CheckStep(c) PROVE Spends(used')
      <3>1. CASE ExportEpoch(c)
        <4>1. PICK s \in {{}} \cup {{s} : s \in Slots} :
                used' = [used EXCEPT !.faults = @ + Cardinality(s)]
          BY <3>1 DEF ExportEpoch
        <4>2. IsFiniteSet(s)
          BY FS_EmptySet, FS_Singleton
        <4>3. Cardinality(s) \in Nat
          BY <4>2, FS_CardinalityType
        <4> QED
          BY <4>1, <4>3
      <3>2. CASE ~ ExportEpoch(c)
        BY <2>3, <3>2 DEF CheckStep, LoadRunning, StoreRunning, ReadHead, ReadDb,
                ReadNode, Plan, SkipBlacklisted, MarkOrphanedBlocks,
                UpdateEpochFinalization
      <3> QED
        BY <3>1, <3>2
    <2>4. ASSUME NEW c \in Checkers, CheckFault(c) PROVE Spends(used')
      BY <2>4 DEF CheckFault, RequestFails, ExportFails, MarkFails
    <2>5. ASSUME NEW g \in Savers, SaverStep(g) \/ SaverFails(g) PROVE Spends(used')
      BY <2>5 DEF SaverStep, SaverFails, SkipUnchanged, SaveEpoch, CleanupRefused,
                  DeleteScheduled, DeleteMissed
    <2>6. Crash => Spends(used')
      BY DEF Crash
    <2>7. UNCHANGED vars => Spends(used')
      OBVIOUS
    <2> QED
      BY <2>1, <2>2, <2>3, <2>4, <2>5, <2>6, <2>7 DEF Next
  <1> HIDE DEF Spends
  <1>4. used'.faults >= used.faults /\ used'.crashes >= used.crashes
    BY <1>2, <1>3
  <1>5. used'.faults = 0 /\ used'.crashes = 0 /\ used.faults \in Nat /\ used.crashes \in Nat
    BY <1>1 DEF Undisturbed, UsedState
  <1> QED
    BY <1>4, <1>5 DEF Undisturbed

\* How the savers move: the mutex is taken by SaveEpoch alone, and freed by
\* every way a saver ends.
LEMMA SaversMove ==
    ASSUME IInv, [Next]_vars
    PROVE  \/ UNCHANGED savers
           \/ savers' = [g \in Savers |-> IdleSaver] /\ Crash
           \/ \E g \in Savers : \/ /\ savers[g].pc = "idle"
                                   /\ savers'[g].pc = "waiting"
                                   /\ \A h \in Savers \ {g} : savers'[h] = savers[h]
                                   /\ UNCHANGED blocks
                                \/ SkipUnchanged(g) \/ SaveEpoch(g)
                                \/ CleanupRefused(g) \/ DeleteScheduled(g)
                                \/ DeleteMissed(g) \/ SaverFails(g)
  <1>1. NodeStep => UNCHANGED savers
    BY DEF NodeStep, Tick, Reorg, Finalize
  <1>2. LoopStep => UNCHANGED savers
    BY DEF LoopStep, PushHead, DropHead, ReceiveBlock, SaveBlock, SaveBlockFails
  <1>3. ASSUME NEW c \in Checkers, ExportEpoch(c)
        PROVE  \E g \in Savers : /\ savers[g].pc = "idle"
                                 /\ savers'[g].pc = "waiting"
                                 /\ \A h \in Savers \ {g} : savers'[h] = savers[h]
                                 /\ UNCHANGED blocks
    <2>1. PICK e \in Epochs, g \in Savers, failed \in {{}} \cup {{s} : s \in Slots} :
            /\ savers[g].pc = "idle"
            /\ savers' = [savers EXCEPT ![g] =
                [pc |-> "waiting", epoch |-> e, data |-> FetchedEpoch(e, failed)]]
            /\ UNCHANGED blocks
      BY <1>3 DEF ExportEpoch
    <2>2. savers \in [Savers -> SaverState]
      BY DEF IInv, TypeOK
    <2>3. savers'[g].pc = "waiting" /\ \A h \in Savers \ {g} : savers'[h] = savers[h]
      BY <2>1, <2>2
    <2> QED
      BY <2>1, <2>3
  <1>4. ASSUME NEW c \in Checkers, CheckStep(c) \/ CheckFault(c), ~ ExportEpoch(c)
        PROVE  UNCHANGED savers
    BY <1>4 DEF CheckStep, CheckFault, LoadRunning, StoreRunning, ReadHead,
                ReadDb, ReadNode, Plan, SkipBlacklisted, MarkOrphanedBlocks,
                UpdateEpochFinalization, RequestFails, ExportFails, MarkFails
  <1>5. Crash => savers' = [g \in Savers |-> IdleSaver]
    BY DEF Crash
  <1> QED
    BY <1>1, <1>2, <1>3, <1>4, <1>5 DEF Next, SaverStep

\* No placeholder comes to stand beside a block.
NoNewStray ==
    \A s \in Slots : \A p \in Placeholders :
        blocks'[s][p] # "absent" /\ HasRow(blocks', s, BlockRoots) =>
            blocks[s][p] # "absent" /\ HasRow(blocks, s, BlockRoots)

\* Of the steps that write blocks only SaveEpoch brings placeholders.
LEMMA OnlySaveEpochStrays ==
    ASSUME IInv, [Next]_vars, \A g \in Savers : ~ SaveEpoch(g)
    PROVE  NoNewStray
  <1>1. blocks \in BlockTables
    BY DEF IInv, TypeOK, BlockTables
  <1>2. CASE UNCHANGED blocks
    BY <1>2 DEF NoNewStray, HasRow
  <1>3. CASE SaveBlock
    <2>1. PICK slot \in Slots, r \in BlockRoots :
            blocks' = SaveBlocks(blocks, [s \in {slot} |-> r])
      BY <1>3, SavedData
    <2>2. \A s \in Slots : blocks'[s] = IF s = slot THEN InsertBlock(blocks[s], r)
                                        ELSE blocks[s]
      BY <2>1 DEF SaveBlocks
    <2>3. ASSUME NEW s \in Slots, NEW p \in Placeholders
          PROVE  blocks'[s] = blocks[s] \/ blocks'[s][p] = "absent"
      BY <2>2, <2>3, RootsDistinct DEF InsertBlock
    <2> QED
      BY <2>3 DEF NoNewStray, HasRow
  <1>4. ASSUME NEW c \in Checkers, MarkOrphanedBlocks(c) PROVE NoNewStray
    <2>1. \A s \in Slots : \A r \in Roots :
            blocks'[s][r] = "absent" <=> blocks[s][r] = "absent"
      BY <1>1, <1>4, UpdateCanonicalBlocksFacts DEF MarkOrphanedBlocks
    <2> QED
      BY <2>1, RootsDistinct DEF NoNewStray, HasRow
  <1>5. ASSUME NEW g \in Savers, DeleteScheduled(g) \/ DeleteMissed(g)
        PROVE  NoNewStray
    <2>1. PICK p \in Placeholders :
            blocks' = DeleteDuplicates(blocks, savers[g].epoch - CleanupBack, p)
      BY <1>5 DEF DeleteScheduled, DeleteMissed, Placeholders
    <2>2. \A s \in Slots : blocks'[s] \in {blocks[s], [blocks[s] EXCEPT ![p] = "absent"]}
      BY <2>1 DEF DeleteDuplicates
    <2>3. \A s \in Slots : blocks[s] \in [Roots -> BlockStatus]
      BY <1>1 DEF BlockTables
    <2>4. \A s \in Slots : \A q \in Roots :
            blocks'[s][q] # "absent" => blocks[s][q] # "absent"
      BY <2>2, <2>3
    <2> QED
      BY <2>4, RootsDistinct DEF NoNewStray, HasRow
  <1> QED
    BY <1>2, <1>3, <1>4, <1>5, WritersOfBlocks

\* Initially no slot has a block, and no saver is at work.
LEMMA InitCleanup == Init => CleanupInv
  <1> SUFFICES ASSUME Init PROVE CleanupInv
    OBVIOUS
  <1>1. \A g \in Savers : ~ Cleaning(g) /\ savers[g].pc # "delete01"
    BY DEF Init, IdleSaver, Cleaning
  <1>2. ASSUME NEW s \in Slots, NEW r \in BlockRoots PROVE blocks[s][r] = "absent"
    <2>1. r \in Roots /\ r # Root01
      BY RootsDistinct
    <2>2. CASE blocks = EmptyBlocks
      BY <2>1, <2>2 DEF EmptyBlocks
    <2>3. CASE blocks = SaveBlocks(EmptyBlocks, [t \in SlotsOf(0) |-> Root01])
      <3>1. \/ blocks[s] = EmptyBlocks[s]
            \/ blocks[s] = InsertBlock(EmptyBlocks[s], Root01)
        BY <2>3 DEF SaveBlocks
      <3> QED
        BY <2>1, <3>1 DEF InsertBlock, EmptyBlocks
    <2> QED
      BY <2>2, <2>3 DEF Init
  <1> QED
    BY <1>1, <1>2 DEF CleanupInv, MuxHeldOnce, ScheduledCleaned, StrayExcused, HasRow

\* A step in which no saver starts or ends its cleanup.
LEMMA SameCleaners ==
    ASSUME IInv, CleanupInv, [Next]_vars, NoNewStray,
           \A g \in Savers : /\ Cleaning(g)' <=> Cleaning(g)
                             /\ savers'[g].pc = "delete01" => savers'[g] = savers[g]
                             /\ Cleaning(g) => savers'[g].epoch = savers[g].epoch
    PROVE  CleanupInv'
  <1>1. MuxHeldOnce'
    BY DEF CleanupInv, MuxHeldOnce
  <1>2. ScheduledCleaned'
    <2> SUFFICES ASSUME NEW g \in Savers, savers'[g].pc = "delete01"
                 PROVE  /\ savers'[g].epoch >= CleanupBack
                        /\ \A s \in SlotsOf(savers'[g].epoch) :
                            HasRow(blocks', s, BlockRoots) => blocks'[s][Root00] = "absent"
      BY DEF ScheduledCleaned, HasRow
    <2>1. savers'[g] = savers[g]
      OBVIOUS
    <2>2. Root00 \in Placeholders
      BY DEF Placeholders
    <2> QED
      BY <2>1, <2>2 DEF NoNewStray, CleanupInv, ScheduledCleaned, SlotsOf
  <1>3. StrayExcused'
    <2> SUFFICES ASSUME Undisturbed', NEW s \in Slots,
                        EpochOfSlot(s) >= CleanupBack,
                        HasRow(blocks', s, Placeholders),
                        HasRow(blocks', s, BlockRoots)
                 PROVE  \E g \in Savers :
                            Cleaning(g)' /\ savers'[g].epoch = EpochOfSlot(s)
      <3>1. CleanupBack \in Nat /\ \A s \in Slots : EpochOfSlot(s) \in Nat
        BY EpochOfSlotType, ConstantTypes DEF Epochs
      <3> QED
        BY <3>1 DEF StrayExcused, HasRow
    <2>1. Undisturbed
      BY UndisturbedBefore
    <2>2. HasRow(blocks, s, Placeholders) /\ HasRow(blocks, s, BlockRoots)
      BY DEF NoNewStray, HasRow
    <2>3. EpochOfSlot(s) \in Nat /\ CleanupBack \in Nat
      BY EpochOfSlotType, ConstantTypes DEF Epochs
    <2>4. PICK g \in Savers : Cleaning(g) /\ savers[g].epoch = EpochOfSlot(s)
      BY <2>1, <2>2, <2>3 DEF CleanupInv, StrayExcused
    <2> QED
      BY <2>4
  <1> QED
    BY <1>1, <1>2, <1>3 DEF CleanupInv

\* A save puts placeholders beside blocks and is the one that cleans up then.
LEMMA SaveEpochCleanup ==
    ASSUME IInv, CleanupInv, [Next]_vars, NEW g \in Savers, SaveEpoch(g)
    PROVE  CleanupInv'
  <1>1. \A h \in Savers : ~ Cleaning(h)
    BY DEF SaveEpoch, MuxFree, Cleaning
  <1>2. savers' = [savers EXCEPT ![g].pc = "delete00"] /\ savers \in [Savers -> SaverState]
    BY DEF SaveEpoch, IInv, TypeOK
  <1>3. /\ savers'[g].pc = "delete00" /\ savers'[g].epoch = savers[g].epoch
        /\ \A h \in Savers : h # g => savers'[h] = savers[h]
    BY <1>2, SaverDataType DEF SaverState
  <1>4. /\ \A h \in Savers : Cleaning(h)' <=> h = g
        /\ \A h \in Savers : savers'[h].pc # "delete01"
    BY <1>1, <1>3 DEF Cleaning
  <1>5. MuxHeldOnce' /\ ScheduledCleaned'
    BY <1>4 DEF MuxHeldOnce, ScheduledCleaned
  <1>6. \A s \in Slots : EpochOfSlot(s) # savers[g].epoch => blocks'[s] = blocks[s]
    <2>1. /\ savers[g].data \in [SlotsOf(savers[g].epoch) -> Roots]
          /\ blocks' = SaveBlocks(blocks, savers[g].data)
      BY SavedData
    <2> QED
      BY <2>1 DEF SaveBlocks, SlotsOf
  <1>7. UNCHANGED used
    BY DEF SaveEpoch
  <1>8. StrayExcused'
    <2> SUFFICES ASSUME Undisturbed', NEW s \in Slots
                 PROVE  \/ EpochOfSlot(s) < CleanupBack
                        \/ ~ HasRow(blocks', s, Placeholders)
                        \/ ~ HasRow(blocks', s, BlockRoots)
                        \/ Cleaning(g)' /\ savers'[g].epoch = EpochOfSlot(s)
      BY DEF StrayExcused, HasRow
    <2>1. CASE EpochOfSlot(s) = savers[g].epoch
      BY <1>3, <1>4, <2>1
    <2>2. CASE EpochOfSlot(s) # savers[g].epoch
      <3>1. blocks'[s] = blocks[s] /\ Undisturbed
        BY <1>6, <1>7, <2>2 DEF Undisturbed
      <3> QED
        BY <1>1, <3>1 DEF CleanupInv, StrayExcused, HasRow
    <2> QED
      BY <2>1, <2>2
  <1> QED
    BY <1>5, <1>8 DEF CleanupInv

\* After the last DELETE nothing of the epoch stands beside a block.
LEMMA DeleteMissedCleanup ==
    ASSUME IInv, CleanupInv, [Next]_vars, NEW g \in Savers, DeleteMissed(g)
    PROVE  CleanupInv'
  <1> DEFINE e == savers[g].epoch
  <1>1. savers \in [Savers -> SaverState] /\ savers' = [savers EXCEPT ![g] = IdleSaver]
    BY DEF DeleteMissed, SaverEnds, IInv, TypeOK
  <1>2. savers'[g].pc = "idle" /\ \A h \in Savers : h # g => savers'[h] = savers[h]
    BY <1>1 DEF IdleSaver
  <1>3. savers[g].pc = "delete01" /\ Cleaning(g)
    BY DEF DeleteMissed, Cleaning
  <1>4. \A h \in Savers : ~ Cleaning(h)' /\ savers'[h].pc # "delete01"
    BY <1>2, <1>3 DEF CleanupInv, MuxHeldOnce, Cleaning
  <1>5. MuxHeldOnce' /\ ScheduledCleaned'
    BY <1>4 DEF MuxHeldOnce, ScheduledCleaned
  <1>6. StrayExcused'
    <2> SUFFICES ASSUME Undisturbed', NEW s \in Slots,
                        ~ (EpochOfSlot(s) < CleanupBack),
                        HasRow(blocks', s, Placeholders),
                        HasRow(blocks', s, BlockRoots)
                 PROVE  FALSE
      BY DEF StrayExcused, HasRow
    <2>1. NoNewStray
      <3>1. \A h \in Savers : ~ SaveEpoch(h)
        BY <1>1, <1>3, <1>2 DEF SaveEpoch, MuxFree, CleanupInv, MuxHeldOnce, Cleaning
      <3> QED
        BY <3>1, OnlySaveEpochStrays
    <2>2. PICK p \in Placeholders : blocks'[s][p] # "absent"
      BY DEF HasRow
    <2>3. blocks[s][p] # "absent" /\ HasRow(blocks, s, BlockRoots)
      BY <2>1, <2>2 DEF NoNewStray
    <2>4. Undisturbed
      BY UndisturbedBefore
    <2>5. EpochOfSlot(s) = e
      <3>1. HasRow(blocks, s, Placeholders)
        BY <2>2, <2>3 DEF HasRow
      <3>2. PICK h \in Savers : Cleaning(h) /\ savers[h].epoch = EpochOfSlot(s)
        BY <2>3, <2>4, <3>1 DEF CleanupInv, StrayExcused
      <3> QED
        BY <1>3, <3>2 DEF CleanupInv, MuxHeldOnce
    <2>6. p = Root01
      <3>1. blocks[s][Root00] = "absent"
        BY <1>3, <2>3, <2>5 DEF CleanupInv, ScheduledCleaned, SlotsOf
      <3> QED
        BY <2>3, <3>1 DEF Placeholders
    <2>7. blocks'[s] = [blocks[s] EXCEPT ![Root01] = "absent"]
      <3>1. EpochOfSlot(s) >= e - CleanupBack
        BY <2>5, EpochOfSlotType, ConstantTypes DEF Epochs
      <3>2. \E q \in Roots \ {Root01} : blocks[s][q] # "absent"
        BY <2>3, RootsDistinct DEF HasRow
      <3> QED
        BY <3>1, <3>2 DEF DeleteMissed, DeleteDuplicates
    <2>8. blocks[s] \in [Roots -> BlockStatus]
      BY DEF IInv, TypeOK
    <2> QED
      BY <2>2, <2>6, <2>7, <2>8, RootsDistinct
  <1> QED
    BY <1>5, <1>6 DEF CleanupInv

\* The first DELETE cleans the slots of the epoch of scheduled placeholders.
LEMMA DeleteScheduledCleanup ==
    ASSUME IInv, CleanupInv, [Next]_vars, NEW g \in Savers, DeleteScheduled(g)
    PROVE  CleanupInv'
  <1> DEFINE e == savers[g].epoch
  <1>1. savers \in [Savers -> SaverState] /\ savers' = [savers EXCEPT ![g].pc = "delete01"]
    BY DEF DeleteScheduled, IInv, TypeOK
  <1>2. savers[g].pc = "delete00" /\ Cleaning(g) /\ e >= CleanupBack
    BY DEF DeleteScheduled, Cleaning
  <1>3. /\ savers'[g].pc = "delete01" /\ savers'[g].epoch = e
        /\ \A h \in Savers : h # g => savers'[h] = savers[h]
    BY <1>1, <1>2, SaverDataType DEF SaverState
  <1>4. \A h \in Savers : /\ Cleaning(h)' <=> h = g
                          /\ Cleaning(h) <=> h = g
    BY <1>2, <1>3 DEF CleanupInv, MuxHeldOnce, Cleaning
  <1>5. NoNewStray
    <2>1. \A h \in Savers : ~ SaveEpoch(h)
      BY <1>2 DEF SaveEpoch, MuxFree, Cleaning
    <2> QED
      BY <2>1, OnlySaveEpochStrays
  <1>6. MuxHeldOnce'
    BY <1>4 DEF MuxHeldOnce
  <1>7. ASSUME NEW s \in SlotsOf(e), HasRow(blocks', s, BlockRoots)
        PROVE  blocks'[s][Root00] = "absent"
    <2>1. s \in Slots /\ EpochOfSlot(s) = e
      BY DEF SlotsOf
    <2>2. EpochOfSlot(s) >= e - CleanupBack
      BY <2>1, EpochOfSlotType, ConstantTypes DEF Epochs
    <2>3. Root00 \in Placeholders /\ blocks[s] \in [Roots -> BlockStatus]
      BY <2>1 DEF Placeholders, IInv, TypeOK
    <2>4. CASE \E q \in Roots \ {Root00} : blocks[s][q] # "absent"
      <3>1. blocks'[s] = [blocks[s] EXCEPT ![Root00] = "absent"]
        BY <2>1, <2>2, <2>4 DEF DeleteScheduled, DeleteDuplicates
      <3> QED
        BY <2>3, <3>1, RootsDistinct
    <2>5. CASE ~ \E q \in Roots \ {Root00} : blocks[s][q] # "absent"
      <3>1. ~ HasRow(blocks, s, BlockRoots)
        BY <2>5, RootsDistinct DEF HasRow
      <3> QED
        BY <1>5, <1>7, <2>1, <2>3, <3>1 DEF NoNewStray
    <2> QED
      BY <2>4, <2>5
  <1>8. ScheduledCleaned'
    <2>1. \A h \in Savers : savers'[h].pc = "delete01" => h = g
      BY <1>4 DEF Cleaning
    <2> QED
      BY <1>2, <1>3, <1>7, <2>1 DEF ScheduledCleaned, HasRow
  <1>9. StrayExcused'
    <2> SUFFICES ASSUME Undisturbed', NEW s \in Slots,
                        ~ (EpochOfSlot(s) < CleanupBack),
                        HasRow(blocks', s, Placeholders),
                        HasRow(blocks', s, BlockRoots)
                 PROVE  Cleaning(g)' /\ savers'[g].epoch = EpochOfSlot(s)
      BY DEF StrayExcused, HasRow
    <2>1. Undisturbed
      BY UndisturbedBefore
    <2>2. HasRow(blocks, s, Placeholders) /\ HasRow(blocks, s, BlockRoots)
      BY <1>5 DEF NoNewStray, HasRow
    <2>3. PICK h \in Savers : Cleaning(h) /\ savers[h].epoch = EpochOfSlot(s)
      BY <2>1, <2>2 DEF CleanupInv, StrayExcused
    <2> QED
      BY <1>3, <1>4, <2>3
  <1> QED
    BY <1>6, <1>8, <1>9 DEF CleanupInv

\* The other ways a saver ends leave the tables alone.
LEMMA SaverEndsCleanup ==
    ASSUME IInv, CleanupInv, [Next]_vars, NEW g \in Savers, SaverEnds(g),
           UNCHANGED blocks,
           \/ ~ Cleaning(g)
           \/ savers[g].epoch < CleanupBack
           \/ ~ Undisturbed'
    PROVE  CleanupInv'
  <1>1. savers \in [Savers -> SaverState] /\ savers' = [savers EXCEPT ![g] = IdleSaver]
    BY DEF SaverEnds, IInv, TypeOK
  <1>2. savers'[g].pc = "idle" /\ \A h \in Savers : h # g => savers'[h] = savers[h]
    BY <1>1 DEF IdleSaver
  <1>3. \A h \in Savers : Cleaning(h)' <=> Cleaning(h) /\ h # g
    BY <1>2 DEF Cleaning
  <1>4. MuxHeldOnce'
    BY <1>3 DEF CleanupInv, MuxHeldOnce
  <1>5. ScheduledCleaned'
    BY <1>2 DEF CleanupInv, ScheduledCleaned, HasRow
  <1>6. StrayExcused'
    <2> SUFFICES ASSUME Undisturbed', NEW s \in Slots,
                        ~ (EpochOfSlot(s) < CleanupBack),
                        HasRow(blocks, s, Placeholders),
                        HasRow(blocks, s, BlockRoots)
                 PROVE  \E h \in Savers :
                            Cleaning(h)' /\ savers'[h].epoch = EpochOfSlot(s)
      BY DEF StrayExcused, HasRow
    <2>1. Undisturbed
      BY UndisturbedBefore
    <2>2. PICK h \in Savers : Cleaning(h) /\ savers[h].epoch = EpochOfSlot(s)
      BY <2>1 DEF CleanupInv, StrayExcused
    <2>3. h # g
      BY <2>2
    <2> QED
      BY <1>2, <1>3, <2>2, <2>3
  <1> QED
    BY <1>4, <1>5, <1>6 DEF CleanupInv

\* Every step keeps the invariant of the cleanup.
LEMMA StepCleanup == IInv /\ CleanupInv /\ [Next]_vars => CleanupInv'
  <1> SUFFICES ASSUME IInv, CleanupInv, [Next]_vars PROVE CleanupInv'
    OBVIOUS
  <1>0. used \in UsedState /\ savers \in [Savers -> SaverState]
    BY DEF IInv, TypeOK, UsedState
  <1>1. CASE UNCHANGED savers
    <2>1. \A g \in Savers : ~ SaveEpoch(g)
      <3>1. ASSUME NEW g \in Savers, SaveEpoch(g) PROVE FALSE
        <4>1. savers[g].pc = "waiting" /\ savers' = [savers EXCEPT ![g].pc = "delete00"]
          BY <3>1 DEF SaveEpoch
        <4>2. savers'[g].pc = "delete00"
          BY <1>0, <4>1, SaverDataType DEF SaverState, IInv
        <4> QED
          BY <1>1, <4>1, <4>2
      <3> QED
        BY <3>1
    <2>2. NoNewStray
      BY <2>1, OnlySaveEpochStrays
    <2> QED
      BY <1>1, <2>2, SameCleaners DEF Cleaning
  <1>2. CASE savers' = [g \in Savers |-> IdleSaver] /\ Crash
    <2>1. ~ Undisturbed'
      BY <1>0, <1>2 DEF Crash, Undisturbed, UsedState
    <2>2. \A g \in Savers : savers'[g].pc = "idle"
      BY <1>2 DEF IdleSaver
    <2> QED
      BY <2>1, <2>2 DEF CleanupInv, MuxHeldOnce, ScheduledCleaned, StrayExcused, Cleaning
  <1>3. ASSUME NEW g \in Savers,
               savers[g].pc = "idle", savers'[g].pc = "waiting",
               \A h \in Savers \ {g} : savers'[h] = savers[h],
               UNCHANGED blocks
        PROVE  CleanupInv'
    <2>1. NoNewStray
      BY <1>3 DEF NoNewStray, HasRow
    <2> QED
      BY <1>3, <2>1, SameCleaners DEF Cleaning
  <1>4. ASSUME NEW g \in Savers, SkipUnchanged(g) \/ CleanupRefused(g) \/ SaverFails(g)
        PROVE  CleanupInv'
    <2>1. SaverEnds(g) /\ UNCHANGED blocks
      BY <1>4 DEF SkipUnchanged, CleanupRefused, SaverFails
    <2>2. SkipUnchanged(g) => ~ Cleaning(g)
      BY DEF SkipUnchanged, Cleaning
    <2>3. CleanupRefused(g) => savers[g].epoch < CleanupBack
      BY DEF CleanupRefused
    <2>4. SaverFails(g) => ~ Undisturbed'
      BY <1>0 DEF SaverFails, Undisturbed, UsedState
    <2> QED
      BY <1>4, <2>1, <2>2, <2>3, <2>4, SaverEndsCleanup
  <1> QED
    BY <1>1, <1>2, <1>3, <1>4, SaversMove, SaveEpochCleanup,
       DeleteScheduledCleanup, DeleteMissedCleanup

\* A placeholder beside a block is only seen until the cleanup of the save
\* that put it there has ended: what the two DELETEs of SaveEpoch are for.
THEOREM NoStraysRemain == Spec => []NoStrayPlaceholder
  <1>1. CleanupInv => NoStrayPlaceholder
    BY StrayExcusedMeaning DEF CleanupInv
  <1> QED
    BY <1>1, InitCleanup, StepCleanup, Invariance, PTL DEF Spec

-----------------------------------------------------------------------------
(* The tables change as EpochTable promises *)

Flagged == {e \in Epochs : epochs[e] = "finalized"}
Shown(table) == {s \in Slots : Present(table[s]) # {}}
Known(table) == {b \in Block : table[b[1]][b[2]] # "absent"}

\* The definitions of EpochTable in those of ChainSync.
LEMMA SameTable ==
    /\ Table!Slots = Slots /\ Table!Epochs = Epochs
    /\ \A e : Table!SlotsOf(e) = SlotsOf(e)
    /\ Table!NoBlock = NoBlock
  BY DEF Table!Slots, Slots, Table!Epochs, Epochs, Table!SlotsOf, SlotsOf, EpochOfSlot,
         Table!NoBlock, NoBlock

\* What saveBlocks adds: a row for each slot it is given, and its block.
LEMMA SavedRows ==
    ASSUME NEW table \in BlockTables, NEW data,
           \A s \in Slots \cap DOMAIN data : data[s] \in Roots
    PROVE  /\ Shown(SaveBlocks(table, data)) = Shown(table) \cup (Slots \cap DOMAIN data)
           /\ \A s \in Slots : \A r \in BlockRoots :
                SaveBlocks(table, data)[s][r] # "absent" <=>
                    \/ table[s][r] # "absent"
                    \/ s \in DOMAIN data /\ data[s] = r
  <1> DEFINE new == SaveBlocks(table, data)
  <1>1. \A s \in Slots : s \notin DOMAIN data => new[s] = table[s]
    BY DEF SaveBlocks
  <1>2. Shown(new) = Shown(table) \cup (Slots \cap DOMAIN data)
    BY <1>1, SaveBlocksFacts DEF Shown
  <1>3. ASSUME NEW s \in Slots \cap DOMAIN data, NEW r \in BlockRoots
        PROVE  new[s][r] # "absent" <=> table[s][r] # "absent" \/ data[s] = r
    <2>1. new[s] = InsertBlock(table[s], data[s])
      BY DEF SaveBlocks
    <2>2. r \in Roots /\ r \notin Placeholders /\ StatusOf(r) = "proposed"
      BY RootsDistinct, StatusOfType
    <2> QED
      BY <2>1, <2>2 DEF InsertBlock
  <1> QED
    BY <1>1, <1>2, <1>3

\* The initial states are initial states of EpochTable.
LEMMA TableInit == Init => Table!Init
  <1> SUFFICES ASSUME Init PROVE Table!Init
    OBVIOUS
  <1>0. 0 \in Epochs
    BY LastEpochType DEF Epochs
  <1>1. EmptyBlocks \in BlockTables
    BY DEF EmptyBlocks, BlockTables, BlockStatus
  <1>2. Shown(EmptyBlocks) = {} /\ Known(EmptyBlocks) = {}
    BY RootsDistinct DEF Shown, Known, EmptyBlocks, Present, Block
  <1>3. CASE ~ SeededDb
    <2>1. ExportedEpochs = {} /\ Flagged = {}
      BY <1>3 DEF Init, ExportedEpochs, Flagged
    <2>2. blocks = EmptyBlocks /\ finalized = 0
      BY <1>3 DEF Init
    <2> QED
      BY <1>2, <2>1, <2>2 DEF Table!Init, Flagged, Shown, Known
  <1>4. CASE SeededDb
    <2> DEFINE data == [s \in SlotsOf(0) |-> Root01]
    <2>1. ExportedEpochs = {0} /\ Flagged = {0}
      BY <1>0, <1>4 DEF Init, ExportedEpochs, Flagged
    <2>2. blocks = SaveBlocks(EmptyBlocks, data) /\ finalized = 0
      BY <1>4 DEF Init
    <2>3. /\ DOMAIN data = SlotsOf(0) /\ SlotsOf(0) \subseteq Slots
          /\ \A s \in SlotsOf(0) : data[s] = Root01
      BY DEF SlotsOf
    <2> HIDE DEF data
    <2>4. \A s \in Slots \cap DOMAIN data : data[s] \in Roots
      BY <2>3, RootsDistinct
    <2>5. Shown(blocks) = SlotsOf(0)
      BY <1>1, <1>2, <2>2, <2>3, <2>4, SavedRows
    <2>6. \A s \in Slots : \A r \in BlockRoots : blocks[s][r] = "absent"
      <3>1. \A s \in Slots : \A r \in BlockRoots : EmptyBlocks[s][r] = "absent"
        BY RootsDistinct DEF EmptyBlocks
      <3>2. \A r \in BlockRoots : r # Root01
        BY RootsDistinct
      <3> QED
        BY <1>1, <2>2, <2>3, <2>4, <3>1, <3>2, SavedRows
    <2>7. Known(blocks) = {}
      BY <2>6 DEF Known, Block
    <2> QED
      BY <2>1, <2>2, <2>5, <2>7, SameTable DEF Table!Init, Flagged, Shown, Known
  <1> QED
    BY <1>3, <1>4

\* A head block that is saved is AddBlock.
LEMMA SaveBlockAdds ==
    ASSUME IInv, SaveBlock
    PROVE  \E s \in Table!Slots, r \in BlockRoots : Table!AddBlock(s, r)
  <1>1. PICK slot \in Slots, r \in BlockRoots :
            blocks' = SaveBlocks(blocks, [s \in {slot} |-> r])
    BY SavedData
  <1> DEFINE data == [s \in {slot} |-> r]
  <1>2. blocks \in BlockTables /\ UNCHANGED <<finalized, epochs>>
    BY DEF IInv, TypeOK, BlockTables, SaveBlock
  <1>3. \A s \in Slots \cap DOMAIN data : data[s] \in Roots
    BY RootsDistinct
  <1>4. DOMAIN data = {slot} /\ data[slot] = r
    OBVIOUS
  <1> HIDE DEF data
  <1>5. blocks' = SaveBlocks(blocks, data)
    BY <1>1 DEF data
  <1>6. Shown(blocks') = Shown(blocks) \cup {slot}
    BY <1>2, <1>3, <1>4, <1>5, SavedRows
  <1>7. Known(blocks') = Known(blocks) \cup {<<slot, r>>}
    <2>1. \A s \in Slots : \A q \in BlockRoots :
            blocks'[s][q] # "absent" <=> blocks[s][q] # "absent" \/ (s = slot /\ q = r)
      BY <1>2, <1>3, <1>4, <1>5, SavedRows
    <2> QED
      BY <2>1 DEF Known, Block
  <1>8. UNCHANGED <<finalized, ExportedEpochs, Flagged>>
    BY <1>2 DEF ExportedEpochs, Flagged
  <1>9. Table!AddBlock(slot, r)
    BY <1>6, <1>7, <1>8 DEF Table!AddBlock, Shown, Known, Flagged
  <1> QED
    BY <1>9, SameTable

\* The transaction of SaveEpoch is AddEpoch.
LEMMA SaveEpochAdds ==
    ASSUME IInv, NEW g \in Savers, SaveEpoch(g)
    PROVE  \E e \in Table!Epochs : Table!AddEpoch(e)
  <1>0. PICK e \in Epochs : e = savers[g].epoch
    BY SavedData
  <1> DEFINE data == savers[g].data
             d == [s \in SlotsOf(e) |-> IF data[s] \in BlockRoots THEN data[s] ELSE NoBlock]
  <1>1. data \in [SlotsOf(e) -> Roots] /\ blocks' = SaveBlocks(blocks, data)
    BY <1>0, SavedData
  <1>2. blocks \in BlockTables /\ epochs \in [Epochs -> {"absent", "open", "finalized"}]
    BY DEF IInv, TypeOK, BlockTables
  <1>3. /\ epochs' = [epochs EXCEPT ![e] = IF @ = "absent" THEN "open" ELSE @]
        /\ UNCHANGED finalized
    BY <1>0 DEF SaveEpoch
  <1>4. d \in [SlotsOf(e) -> BlockRoots \cup {NoBlock}]
    OBVIOUS
  <1>5. \A s \in SlotsOf(e) : \A r \in BlockRoots : d[s] = r <=> data[s] = r
    BY RootsDistinct
  <1> HIDE DEF data, d
  <1>6. /\ DOMAIN data = SlotsOf(e) /\ SlotsOf(e) \subseteq Slots
        /\ \A s \in Slots \cap DOMAIN data : data[s] \in Roots
    BY <1>1 DEF SlotsOf
  <1>7. Shown(blocks') = Shown(blocks) \cup SlotsOf(e)
    BY <1>1, <1>2, <1>6, SavedRows
  <1>8. Known(blocks') = Known(blocks) \cup {b \in SlotsOf(e) \X BlockRoots : d[b[1]] = b[2]}
    <2>1. \A s \in Slots : \A r \in BlockRoots :
            blocks'[s][r] # "absent" <=>
                blocks[s][r] # "absent" \/ (s \in SlotsOf(e) /\ d[s] = r)
      BY <1>1, <1>2, <1>5, <1>6, SavedRows
    <2> QED
      BY <1>6, <2>1 DEF Known, Block
  <1>9. ExportedEpochs' = ExportedEpochs \cup {e}
    BY <1>1, <1>2, <1>3 DEF ExportedEpochs
  <1>10. Flagged' = Flagged
    BY <1>1, <1>2, <1>3 DEF Flagged
  <1>11. Table!AddEpoch(e)
    BY <1>3, <1>4, <1>7, <1>8, <1>9, <1>10, SameTable
    DEF Table!AddEpoch, Shown, Known, Flagged
  <1>12. e \in Table!Epochs
    BY SameTable
  <1> QED
    BY <1>11, <1>12

\* UpdateEpochFinalization is Flag, or nothing when no epoch is flagged.
LEMMA FinalizationFlags ==
    ASSUME IInv, NEW c \in Checkers, UpdateEpochFinalization(c)
    PROVE  \/ \E e \in Table!Epochs : Table!Flag(e)
           \/ UNCHANGED Table!vars
  <1>0. PICK last \in Epochs : last = checks[c].fin
    BY DEF IInv, TypeOK, CheckState
  <1>1. epochs' = [e \in Epochs |->
                IF /\ epochs[e] # "absent"
                   /\ e <= last
                   /\ Flagged # {}
                   /\ e >= Max(Flagged)
                THEN "finalized"
                ELSE epochs[e]]
    BY <1>0 DEF UpdateEpochFinalization, Flagged
  <1>2. UNCHANGED <<finalized, blocks>>
    BY DEF UpdateEpochFinalization
  <1>3. last <= finalized
    BY <1>0 DEF IInv, CheckSawFinalized
  <1>4. epochs \in [Epochs -> {"absent", "open", "finalized"}]
    BY DEF IInv, TypeOK
  <1>5. ExportedEpochs' = ExportedEpochs
    BY <1>1, <1>4 DEF ExportedEpochs
  <1>6. CASE Flagged = {}
    <2>1. epochs' = epochs
      BY <1>1, <1>4, <1>6
    <2> QED
      BY <1>2, <1>5, <2>1 DEF Table!vars
  <1>7. CASE Flagged # {}
    <2> DEFINE first == Max(Flagged)
    <2>1. first \in Flagged /\ \A e \in Flagged : e <= first
      <3>1. Flagged \subseteq 0 .. EpochOfSlot(MaxSlot)
        BY DEF Flagged, Epochs
      <3> QED
        BY <1>7, <3>1, LastEpochType, MaxOfInterval
    <2> HIDE DEF first
    <2>2. Flagged' = Flagged \cup {e \in ExportedEpochs : first <= e /\ e <= last}
      <3>1. \A e \in Epochs : e \in Int /\ first \in Int
        BY <2>1 DEF Flagged, Epochs
      <3>2. \A e \in Epochs : epochs'[e] = "finalized" <=>
                \/ epochs[e] = "finalized"
                \/ epochs[e] # "absent" /\ e <= last /\ first <= e
        BY <1>1, <1>7, <3>1 DEF first
      <3> QED
        BY <3>2 DEF Flagged, ExportedEpochs
    <2>3. Table!Flag(last)
      BY <1>2, <1>3, <1>5, <2>1, <2>2 DEF Table!Flag, Flagged
    <2>4. last \in Table!Epochs
      BY SameTable
    <2> QED
      BY <2>3, <2>4
  <1> QED
    BY <1>6, <1>7

\* The cleanup and the marking of orphans leave every slot and block a row.
LEMMA CleanupStutters ==
    ASSUME IInv,
           \/ \E c \in Checkers : MarkOrphanedBlocks(c)
           \/ \E g \in Savers : DeleteScheduled(g) \/ DeleteMissed(g)
    PROVE  UNCHANGED Table!vars
  <1>1. blocks \in BlockTables
    BY DEF IInv, TypeOK, BlockTables
  <1>2. UNCHANGED <<finalized, epochs>>
    BY DEF MarkOrphanedBlocks, DeleteScheduled, DeleteMissed
  <1>3. /\ \A s \in Slots : Present(blocks'[s]) # {} <=> Present(blocks[s]) # {}
        /\ \A s \in Slots : \A r \in BlockRoots :
            blocks'[s][r] # "absent" <=> blocks[s][r] # "absent"
    <2>1. ASSUME NEW c \in Checkers, MarkOrphanedBlocks(c)
          PROVE  \A s \in Slots : \A r \in Roots :
                    blocks'[s][r] = "absent" <=> blocks[s][r] = "absent"
      BY <1>1, <2>1, UpdateCanonicalBlocksFacts DEF MarkOrphanedBlocks
    <2>2. ASSUME NEW g \in Savers, DeleteScheduled(g) \/ DeleteMissed(g)
          PROVE  /\ \A s \in Slots : Present(blocks'[s]) # {} <=> Present(blocks[s]) # {}
                 /\ \A s \in Slots : \A r \in BlockRoots : blocks'[s][r] = blocks[s][r]
      <3>1. PICK p \in Placeholders :
                blocks' = DeleteDuplicates(blocks, savers[g].epoch - CleanupBack, p)
        BY <2>2 DEF DeleteScheduled, DeleteMissed, Placeholders
      <3>2. /\ \A s \in Slots : Present(blocks[s]) # {} => Present(blocks'[s]) # {}
            /\ \A s \in Slots : \A r \in BlockRoots : blocks'[s][r] = blocks[s][r]
        BY <1>1, <3>1, DeleteDuplicatesFacts
      <3>3. \A s \in Slots : blocks'[s] \in {blocks[s], [blocks[s] EXCEPT ![p] = "absent"]}
        BY <3>1 DEF DeleteDuplicates
      <3>4. \A s \in Slots : blocks[s] \in [Roots -> BlockStatus]
        BY <1>1 DEF BlockTables
      <3>5. \A s \in Slots : \A r \in Roots :
                blocks'[s][r] # "absent" => blocks[s][r] # "absent"
        BY <3>3, <3>4
      <3> QED
        BY <3>2, <3>5 DEF Present
    <2> QED
      BY <2>1, <2>2, RootsDistinct DEF Present
  <1>4. Shown(blocks') = Shown(blocks) /\ Known(blocks') = Known(blocks)
    BY <1>3 DEF Shown, Known, Block
  <1> QED
    BY <1>2, <1>4 DEF Table!vars, ExportedEpochs, Shown, Known

\* Every step of the exporter is a step of EpochTable or changes nothing of it.
LEMMA TableStep == IInv /\ [Next]_vars => [Table!Next]_(Table!vars)
  <1> SUFFICES ASSUME IInv, [Next]_vars PROVE [Table!Next]_(Table!vars)
    OBVIOUS
  <1>1. ASSUME UNCHANGED <<blocks, epochs, finalized>> PROVE UNCHANGED Table!vars
    BY <1>1 DEF Table!vars, ExportedEpochs
  <1>2. CASE NodeStep
    <2>1. CASE Finalize
      BY <2>1, SameTable DEF Finalize, Table!Next, Table!Finalize, ExportedEpochs
    <2> QED
      BY <1>1, <1>2, <2>1 DEF NodeStep, Tick, Reorg
  <1>3. CASE LoopStep
    BY <1>1, <1>3, SaveBlockAdds
    DEF LoopStep, PushHead, DropHead, ReceiveBlock, SaveBlockFails, Table!Next
  <1>4. ASSUME NEW c \in Checkers, CheckStep(c) \/ CheckFault(c)
        PROVE  [Table!Next]_(Table!vars)
    <2>1. \/ MarkOrphanedBlocks(c) \/ UpdateEpochFinalization(c)
          \/ UNCHANGED <<blocks, epochs, finalized>>
      BY <1>4 DEF CheckStep, CheckFault, LoadRunning, StoreRunning, ReadHead,
                  ReadDb, ReadNode, Plan, ExportEpoch, SkipBlacklisted,
                  RequestFails, ExportFails, MarkFails
    <2> QED
      BY <1>1, <2>1, FinalizationFlags, CleanupStutters DEF Table!Next
  <1>5. ASSUME NEW g \in Savers, SaverStep(g) \/ SaverFails(g)
        PROVE  [Table!Next]_(Table!vars)
    <2>1. \/ SaveEpoch(g) \/ DeleteScheduled(g) \/ DeleteMissed(g)
          \/ UNCHANGED <<blocks, epochs, finalized>>
      BY <1>5 DEF SaverStep, SaverFails, SkipUnchanged, CleanupRefused
    <2> QED
      BY <1>1, <2>1, SaveEpochAdds, CleanupStutters DEF Table!Next
  <1>6. CASE Crash \/ UNCHANGED vars
    BY <1>1, <1>6 DEF Crash
  <1> QED
    BY <1>2, <1>3, <1>4, <1>5, <1>6 DEF Next

\* The exporter implements EpochTable: whatever is interleaved, fails or
\* crashes, readers see blocks and whole epochs added and flags following the
\* node, nothing lost and no epoch left out below a flag.
THEOREM ExporterImplementsEpochTable == Spec => ImplementsEpochTable
  <1>1. Spec => Table!Init /\ [][Table!Next]_(Table!vars)
    BY TableInit, TableStep, Invariance, PTL DEF Spec
  <1> QED
    BY <1>1, PTL DEF ImplementsEpochTable, Table!Spec

-----------------------------------------------------------------------------
(* What an undisturbed check achieves *)

(***************************************************************************)
(* Four facts hold whatever happens: a slot to come has no block, a check  *)
(* that has not asked the node has seen nothing, a row the check read is   *)
(* still there, and so are the blocks of a finished save and of the cache. *)
(***************************************************************************)
FutureEmpty == \A s \in Slots : s > clock => chain[s] = NoBlock

SeesNothingYet ==
    \A c \in Checkers :
        checks[c].pc \in {"off", "load", "store", "head", "db"} => checks[c].seen = {}

DbRowsStay ==
    \A c \in Checkers : \A b \in checks[c].db :
        b[2] \in BlockRoots => blocks[b[1]][b[2]] # "absent"

BlocksSaved(data) ==
    \A s \in DOMAIN data : data[s] \in BlockRoots => blocks[s][data[s]] # "absent"

SavedStays ==
    /\ \A e \in Epochs : BlocksSaved(cache[e])
    /\ \A e \in Epochs : cache[e] = <<>> \/ cache[e] \in [SlotsOf(e) -> Roots]
    /\ \A g \in Savers : Cleaning(g) => BlocksSaved(savers[g].data)

(***************************************************************************)
(* Since an undisturbed check began, everything on its way to the table is *)
(* canonical, and so is what the checks have seen.  They have all seen the *)
(* canonical block of a slot that had begun then: the slots in Settled.    *)
(***************************************************************************)
Quiet == undisturbed # {} \/ covered # {}

Settled == covered \cup {s \in Slots : \E u \in undisturbed : s <= u[2]}

Canonical(b) == chain[b[1]] = b[2]

InWindow(c, s) == EpochOfSlot(s) \in checks[c].start .. checks[c].head

HasAsked(c, s) ==
    /\ InWindow(c, s)
    /\ \/ checks[c].pc \in {"plan", "export", "finalize"}
       \/ checks[c].pc = "node" /\ s < checks[c].cursor

OnlyCanonical ==
    /\ \A s \in Settled : s <= clock
    /\ \A b \in Range(newBlocks) \cup Range(inHand) : Canonical(b)
    /\ \A g \in Savers : savers[g].pc # "idle" =>
        \A s \in DOMAIN savers[g].data :
            savers[g].data[s] \in BlockRoots => chain[s] = savers[g].data[s]
    /\ \A c \in Checkers : \A b \in checks[c].seen : Canonical(b)
    /\ \A c \in Checkers : \A s \in Settled :
        HasAsked(c, s) /\ chain[s] # NoBlock => <<s, chain[s]>> \in checks[c].seen

(***************************************************************************)
(* The block of a slot is in the table, or a saver that waits will put it  *)
(* there, or its epoch is excluded.                                        *)
(***************************************************************************)
Coming(s) ==
    \/ blacklist[EpochOfSlot(s)] > BlacklistLimit
    \/ \E g \in Savers : /\ savers[g].pc = "waiting"
                         /\ s \in DOMAIN savers[g].data
                         /\ savers[g].data[s] = chain[s]

Agreed(s) ==
    \A r \in BlockRoots :
        IF chain[s] = r
        THEN blocks[s][r] = "proposed" \/ (blocks[s][r] = "absent" /\ Coming(s))
        ELSE blocks[s][r] # "proposed"

Planned(c, s) ==
    \A r \in BlockRoots :
        chain[s] = r =>
            \/ blocks[s][r] # "absent"
            \/ Coming(s)
            \/ EpochOfSlot(s) \in checks[c].todo

CheckPromises ==
    \A u \in undisturbed :
        /\ checks[u[1]].pc \in {"db", "node", "plan", "export", "finalize"}
        /\ checks[u[1]].pc = "export" =>
            \A s \in 1 .. u[2] : InWindow(u[1], s) => Planned(u[1], s)
        /\ checks[u[1]].pc = "finalize" => \A s \in Compared(u[1], u[2]) : Agreed(s)

HistoryType ==
    undisturbed \subseteq Checkers \X Slots /\ covered \subseteq Slots \ {0}

AlwaysKept == FutureEmpty /\ SeesNothingYet /\ DbRowsStay /\ SavedStays

AgreementInv ==
    /\ HistoryType
    /\ Quiet => OnlyCanonical
    /\ CheckPromises
    /\ \A s \in covered : Agreed(s)

-----------------------------------------------------------------------------
(* How a check moves *)

Moves(d) ==
    \/ checks'[d] = checks[d]
    \/ /\ checks'[d] = IdleCheck
       /\ used' # used \/ checks[d].pc = "finalize"
    \/ \E p : /\ checks'[d] = [checks[d] EXCEPT !.pc = p]
              /\ <<checks[d].pc, p>> \in
                    {<<"off", "load">>, <<"load", "off">>, <<"load", "store">>,
                     <<"store", "head">>}
    \/ ReadHead(d) \/ ReadDb(d) \/ ReadNode(d) \/ Plan(d)
    \/ /\ checks[d].pc = "export"
       /\ \E e \in Epochs : checks'[d] = [checks[d] EXCEPT !.todo = @ \ {e}]
    \/ /\ checks[d].pc = "export" /\ checks[d].todo = {}
       /\ checks'[d] = [checks[d] EXCEPT !.pc = "finalize"]

\* Every step moves every check in one of these ways.
LEMMA CheckMoves ==
    ASSUME IInv, [Next]_vars, NEW d \in Checkers
    PROVE  Moves(d)
  <1>0. checks \in [Checkers -> CheckState] /\ used \in UsedState
    BY DEF IInv, TypeOK, UsedState
  <1>1. NodeStep \/ UNCHANGED vars => checks'[d] = checks[d]
    BY DEF NodeStep, Tick, Reorg, Finalize
  <1>2. CASE LoopStep
    <2>1. CASE ReceiveBlock
      <3>1. \/ UNCHANGED checks
            \/ \E c \in Checkers : /\ checks[c].pc = "off"
                                   /\ checks' = [checks EXCEPT ![c].pc = "load"]
        BY <2>1 DEF ReceiveBlock
      <3>2. ASSUME NEW c \in Checkers, checks[c].pc = "off",
                   checks' = [checks EXCEPT ![c].pc = "load"]
            PROVE  \/ checks'[d] = checks[d]
                   \/ /\ checks'[d] = [checks[d] EXCEPT !.pc = "load"]
                      /\ checks[d].pc = "off"
        BY <1>0, <3>2
      <3> QED
        BY <3>1, <3>2 DEF Moves
    <2> QED
      BY <1>2, <2>1 DEF LoopStep, PushHead, DropHead, SaveBlock, SaveBlockFails, Moves
  <1>3. ASSUME NEW c \in Checkers, CheckStep(c) PROVE Moves(d)
    <2>1. c # d => checks'[d] = checks[d]
      BY <1>0, <1>3
      DEF CheckStep, LoadRunning, StoreRunning, ReadHead, ReadDb, ReadNode, Plan,
          ExportEpoch, Exported, SkipBlacklisted, MarkOrphanedBlocks,
          UpdateEpochFinalization, CheckEnds, Goto
    <2>2. ASSUME NEW p, Goto(d, p) PROVE checks'[d] = [checks[d] EXCEPT !.pc = p]
      BY <1>0, <2>2 DEF Goto
    <2>3. LoadRunning(d) => Moves(d)
      BY <2>2 DEF LoadRunning, Moves
    <2>4. StoreRunning(d) => Moves(d)
      BY <2>2 DEF StoreRunning, Moves
    <2>5. MarkOrphanedBlocks(d) => Moves(d)
      BY <2>2 DEF MarkOrphanedBlocks, Moves
    <2>6. UpdateEpochFinalization(d) => Moves(d)
      BY <1>0 DEF UpdateEpochFinalization, CheckEnds, Moves
    <2>7. ASSUME NEW e \in Epochs, Exported(d, e), checks[d].pc = "export"
          PROVE  Moves(d)
      <3>1. checks'[d] = [checks[d] EXCEPT !.todo = @ \ {e}]
        BY <1>0, <2>7 DEF Exported
      <3> QED
        BY <2>7, <3>1 DEF Moves
    <2>8. ExportEpoch(d) \/ SkipBlacklisted(d) => Moves(d)
      BY <2>7 DEF ExportEpoch, SkipBlacklisted, NextEpoch
    <2>9. ReadHead(d) \/ ReadDb(d) \/ ReadNode(d) \/ Plan(d) => Moves(d)
      BY DEF Moves
    <2>10. checks'[d] = checks[d] => Moves(d)
      BY DEF Moves
    <2> QED
      BY <1>3, <2>1, <2>3, <2>4, <2>5, <2>6, <2>8, <2>9, <2>10 DEF CheckStep
  <1>4. ASSUME NEW c \in Checkers, CheckFault(c) PROVE Moves(d)
    <2>1. c # d => checks'[d] = checks[d]
      BY <1>0, <1>4
      DEF CheckFault, RequestFails, ExportFails, MarkFails, CheckEnds, Exported, Goto
    <2>2. used' # used
      BY <1>0, <1>4 DEF CheckFault, RequestFails, ExportFails, MarkFails, UsedState
    <2>3. RequestFails(d) => checks'[d] = IdleCheck
      BY <1>0 DEF RequestFails, CheckEnds
    <2>4. ExportFails(d) => /\ checks[d].pc = "export"
                            /\ \E e \in Epochs : checks'[d] = [checks[d] EXCEPT !.todo = @ \ {e}]
      BY <1>0 DEF ExportFails, NextEpoch, Exported
    <2>5. MarkFails(d) => /\ checks[d].pc = "export" /\ checks[d].todo = {}
                          /\ checks'[d] = [checks[d] EXCEPT !.pc = "finalize"]
      BY <1>0 DEF MarkFails, Goto
    <2> QED
      BY <1>4, <2>1, <2>2, <2>3, <2>4, <2>5 DEF CheckFault, Moves
  <1>5. ASSUME NEW g \in Savers, SaverStep(g) \/ SaverFails(g)
        PROVE  checks'[d] = checks[d]
    BY <1>5 DEF SaverStep, SaverFails, SkipUnchanged, SaveEpoch, CleanupRefused,
                DeleteScheduled, DeleteMissed
  <1>6. Crash => Moves(d)
    BY <1>0 DEF Crash, Moves, UsedState
  <1> QED
    BY <1>1, <1>2, <1>3, <1>4, <1>5, <1>6 DEF Next, Moves

-----------------------------------------------------------------------------
(* What holds whatever happens *)

\* The slots before the current one change by reorganisation only.
LEMMA ChainMoves ==
    ASSUME [Next]_vars
    PROVE  UNCHANGED <<clock, chain>> \/ Tick \/ Reorg
  <1>1. NodeStep => UNCHANGED <<clock, chain>> \/ Tick \/ Reorg
    BY DEF NodeStep, Finalize
  <1>2. LoopStep => UNCHANGED <<clock, chain>>
    BY DEF LoopStep, PushHead, DropHead, ReceiveBlock, SaveBlock, SaveBlockFails
  <1>3. ASSUME NEW c \in Checkers, CheckStep(c) \/ CheckFault(c)
        PROVE  UNCHANGED <<clock, chain>>
    BY <1>3 DEF CheckStep, CheckFault, LoadRunning, StoreRunning, ReadHead, ReadDb,
                ReadNode, Plan, ExportEpoch, SkipBlacklisted, MarkOrphanedBlocks,
                UpdateEpochFinalization, RequestFails, ExportFails, MarkFails
  <1>4. ASSUME NEW g \in Savers, SaverStep(g) \/ SaverFails(g)
        PROVE  UNCHANGED <<clock, chain>>
    BY <1>4 DEF SaverStep, SaverFails, SkipUnchanged, SaveEpoch, CleanupRefused,
                DeleteScheduled, DeleteMissed
  <1>5. Crash \/ UNCHANGED vars => UNCHANGED <<clock, chain>>
    BY DEF Crash
  <1> QED
    BY <1>1, <1>2, <1>3, <1>4, <1>5 DEF Next

\* Only the last DELETE and a crash change the cache.
LEMMA CacheMoves ==
    ASSUME [Next]_vars
    PROVE  \/ UNCHANGED cache
           \/ \E g \in Savers : DeleteMissed(g)
           \/ cache' = [e \in Epochs |-> <<>>]
  <1>1. NodeStep \/ LoopStep \/ UNCHANGED vars => UNCHANGED cache
    BY DEF NodeStep, Tick, Reorg, Finalize, LoopStep, PushHead, DropHead,
           ReceiveBlock, SaveBlock, SaveBlockFails
  <1>2. ASSUME NEW c \in Checkers, CheckStep(c) \/ CheckFault(c)
        PROVE  UNCHANGED cache
    BY <1>2 DEF CheckStep, CheckFault, LoadRunning, StoreRunning, ReadHead, ReadDb,
                ReadNode, Plan, ExportEpoch, SkipBlacklisted, MarkOrphanedBlocks,
                UpdateEpochFinalization, RequestFails, ExportFails, MarkFails
  <1>3. ASSUME NEW g \in Savers, SaverStep(g) \/ SaverFails(g)
        PROVE  DeleteMissed(g) \/ UNCHANGED cache
    BY <1>3 DEF SaverStep, SaverFails, SkipUnchanged, SaveEpoch, CleanupRefused,
                DeleteScheduled
  <1>4. Crash => cache' = [e \in Epochs |-> <<>>]
    BY DEF Crash
  <1> QED
    BY <1>1, <1>2, <1>3, <1>4 DEF Next

\* A saver that is cleaning up after a step was, or has just saved.
LEMMA CleaningBefore ==
    ASSUME IInv, [Next]_vars, NEW g \in Savers, Cleaning(g)'
    PROVE  /\ savers'[g].data = savers[g].data
           /\ Cleaning(g) \/ SaveEpoch(g)
  <1>1. savers \in [Savers -> SaverState]
    BY DEF IInv, TypeOK
  <1>2. savers[g] \in SaverState
    BY <1>1
  <1>3. CASE savers'[g] = savers[g]
    BY <1>3 DEF Cleaning
  <1>4. CASE savers' = [h \in Savers |-> IdleSaver]
    BY <1>4 DEF Cleaning, IdleSaver
  <1>5. ASSUME NEW h \in Savers, savers'[h].pc = "waiting",
               \A k \in Savers \ {h} : savers'[k] = savers[k]
        PROVE  savers'[g] = savers[g]
    BY <1>5 DEF Cleaning
  <1>6. ASSUME NEW h \in Savers,
               SkipUnchanged(h) \/ CleanupRefused(h) \/ DeleteMissed(h) \/ SaverFails(h)
        PROVE  savers'[g] = savers[g]
    <2>1. savers' = [savers EXCEPT ![h] = IdleSaver]
      BY <1>6 DEF SkipUnchanged, CleanupRefused, DeleteMissed, SaverFails, SaverEnds
    <2> QED
      BY <1>1, <2>1 DEF Cleaning, IdleSaver
  <1>7. ASSUME NEW h \in Savers, SaveEpoch(h) \/ DeleteScheduled(h), savers'[g] # savers[g]
        PROVE  /\ savers'[g].data = savers[g].data
               /\ Cleaning(g) \/ SaveEpoch(g)
    <2>1. \E pc : savers' = [savers EXCEPT ![h].pc = pc]
      BY <1>7 DEF SaveEpoch, DeleteScheduled
    <2>2. PICK pc : savers' = [savers EXCEPT ![h].pc = pc]
      BY <2>1
    <2>3. h = g
      BY <1>1, <1>7, <2>2
    <2>4. savers'[g].data = savers[g].data
      BY <1>1, <1>2, <2>2, <2>3 DEF SaverState
    <2> QED
      BY <1>7, <2>3, <2>4 DEF Cleaning, DeleteScheduled
  <1> QED
    BY <1>3, <1>4, <1>5, <1>6, <1>7, SaversMove

\* saveBlocks leaves a row for every block it is given.
LEMMA SaveBlocksPresent ==
    ASSUME NEW table, NEW data, NEW s \in Slots, s \in DOMAIN data, data[s] \in Roots
    PROVE  SaveBlocks(table, data)[s][data[s]] # "absent"
  <1>1. SaveBlocks(table, data)[s] = InsertBlock(table[s], data[s])
    BY DEF SaveBlocks
  <1>2. StatusOf(data[s]) # "absent"
    BY DEF StatusOf
  <1> QED
    BY <1>1, <1>2 DEF InsertBlock

\* Initially nothing has been seen, saved or remembered.
LEMMA InitKept == Init => AlwaysKept
  <1> SUFFICES ASSUME Init PROVE AlwaysKept
    OBVIOUS
  <1>1. FutureEmpty
    <2>1. clock \in Int /\ clock >= 0
      BY ConstantTypes DEF Init
    <2> QED
      BY <2>1 DEF Init, FutureEmpty, Slots
  <1>2. SeesNothingYet /\ DbRowsStay
    BY DEF Init, IdleCheck, SeesNothingYet, DbRowsStay
  <1>3. SavedStays
    BY DEF Init, IdleSaver, SavedStays, BlocksSaved, Cleaning
  <1> QED
    BY <1>1, <1>2, <1>3 DEF AlwaysKept

\* Every step keeps the four facts.
LEMMA StepKept == IInv /\ AlwaysKept /\ [Next]_vars => AlwaysKept'
  <1> SUFFICES ASSUME IInv, AlwaysKept, [Next]_vars PROVE AlwaysKept'
    OBVIOUS
  <1>0. Kept
    BY StepKeeps
  <1>1. FutureEmpty'
    <2> SUFFICES ASSUME NEW s \in Slots, s > clock' PROVE chain'[s] = NoBlock
      BY DEF FutureEmpty
    <2>1. clock \in Slots /\ chain \in [Slots -> BlockRoots \cup {NoBlock}]
      BY DEF IInv, TypeOK
    <2>2. CASE UNCHANGED <<clock, chain>>
      BY <2>2 DEF AlwaysKept, FutureEmpty
    <2>3. CASE Tick
      BY <2>1, <2>3 DEF Tick, AlwaysKept, FutureEmpty, Slots
    <2>4. CASE Reorg
      <3>1. clock' = clock /\ \E from : \E branch :
                chain' = [t \in Slots |-> IF t \in from .. clock THEN branch[t] ELSE chain[t]]
        BY <2>4 DEF Reorg
      <3>2. PICK from : \E branch :
                chain' = [t \in Slots |-> IF t \in from .. clock THEN branch[t] ELSE chain[t]]
        BY <3>1
      <3>3. s \in Int /\ clock \in Int /\ s \notin from .. clock
        BY <2>1, <3>1 DEF Slots
      <3> QED
        BY <3>1, <3>2, <3>3 DEF AlwaysKept, FutureEmpty
    <2> QED
      BY <2>2, <2>3, <2>4, ChainMoves
  <1>2. SeesNothingYet' /\ DbRowsStay'
    <2> SUFFICES ASSUME NEW d \in Checkers
                 PROVE  /\ checks'[d].pc \in {"off", "load", "store", "head", "db"} =>
                            checks'[d].seen = {}
                        /\ \A b \in checks'[d].db :
                            b[2] \in BlockRoots => blocks'[b[1]][b[2]] # "absent"
      BY DEF SeesNothingYet, DbRowsStay
    <2>1. checks \in [Checkers -> CheckState] /\ checks[d] \in CheckState
      BY DEF IInv, TypeOK
    <2>2. ASSUME NEW b \in checks[d].db, b[2] \in BlockRoots
          PROVE  blocks'[b[1]][b[2]] # "absent"
      <3>1. b \in Slots \X Roots
        BY <2>1, <2>2 DEF CheckState
      <3> QED
        BY <1>0, <2>2, <3>1 DEF Kept, AlwaysKept, DbRowsStay
    <2>3. CASE checks'[d] = checks[d]
      BY <2>2, <2>3 DEF AlwaysKept, SeesNothingYet
    <2>4. CASE checks'[d] = IdleCheck
      BY <2>4 DEF IdleCheck
    <2>5. ASSUME NEW p, checks'[d] = [checks[d] EXCEPT !.pc = p],
                 <<checks[d].pc, p>> \in {<<"off", "load">>, <<"load", "off">>,
                                          <<"load", "store">>, <<"store", "head">>}
          PROVE  checks'[d].seen = {} /\ checks'[d].db = checks[d].db
      <3>1. checks'[d].seen = checks[d].seen /\ checks'[d].db = checks[d].db
        BY <2>1, <2>5 DEF CheckState
      <3>2. checks[d].pc \in {"off", "load", "store"}
        BY <2>5
      <3> QED
        BY <3>1, <3>2 DEF AlwaysKept, SeesNothingYet
    <2>6. CASE ReadHead(d)
      <3>1. checks'[d].seen = checks[d].seen /\ checks'[d].db = checks[d].db
        BY <2>1, <2>6 DEF ReadHead, CheckState
      <3> QED
        BY <2>2, <2>6, <3>1 DEF AlwaysKept, SeesNothingYet, ReadHead
    <2>7. CASE ReadDb(d)
      <3>1. /\ checks'[d].pc = "node"
            /\ checks'[d].db = PendingAndProposed(blocks, checks[d].start, checks[d].head)
        BY <2>1, <2>7 DEF ReadDb, CheckState
      <3>2. \A b \in checks'[d].db : blocks[b[1]][b[2]] # "absent"
        BY <3>1 DEF PendingAndProposed
      <3>3. UNCHANGED blocks
        BY <2>7 DEF ReadDb
      <3> QED
        BY <3>1, <3>2, <3>3
    <2>8. CASE ReadNode(d)
      <3>1. checks'[d].pc \in {"plan", "node"} /\ checks'[d].db = checks[d].db
        BY <2>1, <2>8 DEF ReadNode, CheckState
      <3> QED
        BY <2>2, <3>1
    <2>9. CASE Plan(d)
      <3>1. checks'[d].pc = "export" /\ checks'[d].db = checks[d].db
        BY <2>1, <2>9 DEF Plan, CheckState
      <3> QED
        BY <2>2, <3>1
    <2>10. ASSUME checks[d].pc = "export",
                  NEW e \in Epochs, checks'[d] = [checks[d] EXCEPT !.todo = @ \ {e}]
           PROVE  checks'[d].pc = "export" /\ checks'[d].db = checks[d].db
      BY <2>1, <2>10 DEF CheckState
    <2>11. ASSUME checks[d].pc = "export", checks'[d] = [checks[d] EXCEPT !.pc = "finalize"]
           PROVE  checks'[d].pc = "finalize" /\ checks'[d].db = checks[d].db
      BY <2>1, <2>11 DEF CheckState
    <2> QED
      BY <2>2, <2>3, <2>4, <2>5, <2>6, <2>7, <2>8, <2>9, <2>10, <2>11, CheckMoves
      DEF Moves
  <1>3. SavedStays'
    <2>1. ASSUME NEW data, BlocksSaved(data), NEW e \in Epochs,
                 data = <<>> \/ data \in [SlotsOf(e) -> Roots]
          PROVE  \A s \in DOMAIN data : data[s] \in BlockRoots => blocks'[s][data[s]] # "absent"
      <3>1. DOMAIN data \subseteq Slots
        BY <2>1 DEF SlotsOf
      <3> QED
        BY <1>0, <2>1, <3>1 DEF Kept, BlocksSaved
    <2>2. ASSUME NEW e \in Epochs
          PROVE  /\ \A s \in DOMAIN cache'[e] :
                        cache'[e][s] \in BlockRoots => blocks'[s][cache'[e][s]] # "absent"
                 /\ cache'[e] = <<>> \/ cache'[e] \in [SlotsOf(e) -> Roots]
      <3>1. CASE cache'[e] = cache[e]
        BY <2>1, <3>1 DEF AlwaysKept, SavedStays
      <3>2. CASE cache' = [f \in Epochs |-> <<>>]
        BY <3>2
      <3>3. ASSUME NEW g \in Savers, DeleteMissed(g), cache'[e] # cache[e]
            PROVE  /\ \A s \in DOMAIN cache'[e] :
                          cache'[e][s] \in BlockRoots => blocks'[s][cache'[e][s]] # "absent"
                   /\ cache'[e] = <<>> \/ cache'[e] \in [SlotsOf(e) -> Roots]
        <4>1. cache \in [Epochs -> EpochData \cup {<<>>}]
          BY DEF IInv, TypeOK
        <4>2. cache'[e] = savers[g].data /\ savers[g].epoch = e
          BY <3>3, <4>1 DEF DeleteMissed
        <4>3. Cleaning(g) /\ savers[g].pc # "idle"
          BY <3>3 DEF DeleteMissed, Cleaning
        <4>4. savers[g].data \in [SlotsOf(e) -> Roots]
          BY <4>2, <4>3 DEF IInv, SaverHoldsEpoch
        <4>5. BlocksSaved(savers[g].data)
          BY <4>3 DEF AlwaysKept, SavedStays
        <4> QED
          BY <2>1, <4>2, <4>4, <4>5
      <3> QED
        BY <3>1, <3>2, <3>3, CacheMoves
    <2>3. ASSUME NEW g \in Savers, Cleaning(g)'
          PROVE  \A s \in DOMAIN savers'[g].data :
                    savers'[g].data[s] \in BlockRoots =>
                        blocks'[s][savers'[g].data[s]] # "absent"
      <3>1. savers'[g].data = savers[g].data /\ (Cleaning(g) \/ SaveEpoch(g))
        BY <2>3, CleaningBefore
      <3>2. savers[g].pc # "idle"
        BY <3>1 DEF Cleaning, SaveEpoch
      <3>3. PICK e \in Epochs : e = savers[g].epoch
        BY <3>2, SaverDataType DEF IInv
      <3>4. savers[g].data \in [SlotsOf(e) -> Roots]
        BY <3>2, <3>3 DEF IInv, SaverHoldsEpoch
      <3>5. CASE Cleaning(g)
        BY <2>1, <3>1, <3>4, <3>5 DEF AlwaysKept, SavedStays
      <3>6. CASE SaveEpoch(g)
        <4>1. blocks' = SaveBlocks(blocks, savers[g].data)
          BY <3>6 DEF SaveEpoch
        <4>2. \A s \in DOMAIN savers[g].data : s \in Slots /\ savers[g].data[s] \in Roots
          BY <3>4 DEF SlotsOf
        <4> QED
          BY <3>1, <4>1, <4>2, SaveBlocksPresent
      <3> QED
        BY <3>1, <3>5, <3>6
    <2> QED
      BY <2>2, <2>3 DEF SavedStays, BlocksSaved
  <1> QED
    BY <1>1, <1>2, <1>3 DEF AlwaysKept

-----------------------------------------------------------------------------
(* The steps after which the history goes on *)

\* A step that spends none of the bounds: no reorganisation, fault or crash.
QuietNext ==
    \/ UNCHANGED vars
    \/ Tick \/ Finalize \/ PushHead \/ ReceiveBlock \/ SaveBlock
    \/ \E c \in Checkers : CheckStep(c)
    \/ \E g \in Savers : SaverStep(g)

\* An export that spends nothing read every slot.
ExportsWhole(c) ==
    \E e \in Epochs, g \in Savers :
        /\ NextEpoch(c, e)
        /\ savers[g].pc = "idle"
        /\ savers' = [savers EXCEPT ![g] =
                [pc |-> "waiting", epoch |-> e, data |-> FetchedEpoch(e, {})]]
        /\ Exported(c, e)
        /\ UNCHANGED <<node, tables, loop, cache, blacklist>>

\* A step that leaves the bounds alone is one of those.
LEMMA QuietSteps ==
    ASSUME IInv, [Next]_vars, UNCHANGED used
    PROVE  /\ QuietNext
           /\ \A c \in Checkers : ExportEpoch(c) => ExportsWhole(c)
  <1>1. used \in UsedState
    BY DEF IInv, TypeOK, UsedState
  <1>2. ~ (Reorg \/ DropHead \/ SaveBlockFails \/ Crash)
    <2>1. /\ used' # [used EXCEPT !.reorgs = @ + 1]
          /\ used' # [used EXCEPT !.faults = @ + 1]
          /\ used' # [used EXCEPT !.crashes = @ + 1]
      BY <1>1 DEF UsedState
    <2> QED
      BY <2>1 DEF Reorg, DropHead, SaveBlockFails, Crash
  <1>3. \A c \in Checkers : ~ CheckFault(c)
    BY <1>1 DEF CheckFault, RequestFails, ExportFails, MarkFails, UsedState
  <1>4. \A g \in Savers : ~ SaverFails(g)
    BY <1>1 DEF SaverFails, UsedState
  <1>5. QuietNext
    BY <1>2, <1>3, <1>4 DEF Next, NodeStep, LoopStep, QuietNext
  <1>6. ASSUME NEW c \in Checkers, ExportEpoch(c) PROVE ExportsWhole(c)
    <2>1. PICK e \in Epochs, g \in Savers, failed \in {{}} \cup {{s} : s \in Slots} :
            /\ NextEpoch(c, e)
            /\ savers[g].pc = "idle"
            /\ savers' = [savers EXCEPT ![g] =
                    [pc |-> "waiting", epoch |-> e, data |-> FetchedEpoch(e, failed)]]
            /\ Exported(c, e)
            /\ used' = [used EXCEPT !.faults = @ + Cardinality(failed)]
            /\ UNCHANGED <<node, tables, loop, cache, blacklist>>
      BY <1>6 DEF ExportEpoch
    <2>2. IsFiniteSet(failed)
      BY FS_EmptySet, FS_Singleton
    <2>3. Cardinality(failed) \in Nat
      BY <2>2, FS_CardinalityType
    <2>4. Cardinality(failed) = 0
      <3> DEFINE k == Cardinality(failed)
      <3>1. k \in Nat /\ used' = [used EXCEPT !.faults = @ + k]
        BY <2>1, <2>3
      <3> HIDE DEF k
      <3>2. used.faults \in Nat /\ used'.faults = used.faults + k
        BY <1>1, <3>1 DEF UsedState
      <3>3. used'.faults = used.faults
        OBVIOUS
      <3>4. k = 0
        BY <3>1, <3>2, <3>3
      <3> QED
        BY <3>4 DEF k
    <2>5. failed = {}
      BY <2>2, <2>4, FS_EmptySet
    <2> QED
      BY <2>1, <2>5 DEF ExportsWhole
  <1> QED
    BY <1>5, <1>6

\* Without a reorganisation the chain only grows, above the current slot.
LEMMA ChainGrows ==
    ASSUME IInv, AlwaysKept, [Next]_vars, UNCHANGED used
    PROVE  /\ clock' >= clock
           /\ \A s \in Slots : s <= clock \/ chain[s] # NoBlock => chain'[s] = chain[s]
  <1>1. clock \in Slots /\ chain \in [Slots -> BlockRoots \cup {NoBlock}]
    BY DEF IInv, TypeOK
  <1>2. used \in UsedState
    BY DEF IInv, TypeOK, UsedState
  <1>3. CASE UNCHANGED <<clock, chain>>
    BY <1>1, <1>3 DEF Slots
  <1>4. CASE Tick
    BY <1>1, <1>4 DEF Tick, AlwaysKept, FutureEmpty, Slots
  <1>5. ~ Reorg
    BY <1>2 DEF Reorg, UsedState
  <1> QED
    BY <1>3, <1>4, <1>5, ChainMoves

\* Where the rows of a step come from: what a finished save or the block in
\* hand brings is on its way, and a mark follows what the check has seen.
LEMMA RowMoves ==
    ASSUME IInv, [Next]_vars, NEW s \in Slots, NEW r \in BlockRoots
    PROVE  \/ blocks'[s][r] = blocks[s][r]
           \/ /\ blocks[s][r] = "absent" /\ blocks'[s][r] = "proposed"
              /\ \/ SaveBlock /\ inHand # <<>> /\ inHand[1] = <<s, r>>
                 \/ \E g \in Savers : /\ SaveEpoch(g)
                                      /\ s \in DOMAIN savers[g].data
                                      /\ savers[g].data[s] = r
           \/ \E c \in Checkers :
                /\ MarkOrphanedBlocks(c)
                /\ \/ /\ <<s, r>> \in checks[c].seen
                      /\ blocks[s][r] # "absent" /\ blocks'[s][r] = "proposed"
                   \/ /\ <<s, r>> \notin checks[c].seen
                      /\ InWindow(c, s)
                      /\ blocks[s][r] # "absent" /\ blocks'[s][r] = "orphaned"
  <1>0. blocks \in BlockTables /\ r \in Roots /\ r \notin Placeholders /\ StatusOf(r) = "proposed"
    BY RootsDistinct DEF IInv, TypeOK, BlockTables, StatusOf, Placeholders
  <1>1. ASSUME NEW data, blocks' = SaveBlocks(blocks, data), blocks'[s][r] # blocks[s][r]
        PROVE  /\ s \in DOMAIN data /\ data[s] = r
               /\ blocks[s][r] = "absent" /\ blocks'[s][r] = "proposed"
    <2>1. blocks'[s] = IF s \in DOMAIN data THEN InsertBlock(blocks[s], data[s]) ELSE blocks[s]
      BY <1>1 DEF SaveBlocks
    <2>2. s \in DOMAIN data /\ blocks'[s] = InsertBlock(blocks[s], data[s])
      BY <1>1, <2>1
    <2>3. /\ blocks[s][data[s]] = "absent"
          /\ blocks'[s] = [q \in Roots |->
                IF q = data[s] THEN StatusOf(data[s])
                ELSE IF q \in Placeholders THEN "absent"
                ELSE blocks[s][q]]
      BY <1>1, <2>2 DEF InsertBlock
    <2>4. data[s] = r
      BY <1>0, <1>1, <2>3
    <2> QED
      BY <1>0, <2>2, <2>3, <2>4
  <1>2. CASE UNCHANGED blocks
    BY <1>2
  <1>3. CASE SaveBlock /\ blocks'[s][r] # blocks[s][r]
    <2>1. PICK slot \in Slots, q \in BlockRoots :
            /\ inHand[1] = <<slot, q>>
            /\ blocks' = SaveBlocks(blocks, [t \in {slot} |-> q])
      BY <1>3, SavedData
    <2>2. inHand # <<>>
      BY <1>3 DEF SaveBlock
    <2>3. s = slot /\ q = r
      BY <1>1, <1>3, <2>1
    <2> QED
      BY <1>1, <1>3, <2>1, <2>2, <2>3
  <1>4. ASSUME NEW g \in Savers, SaveEpoch(g), blocks'[s][r] # blocks[s][r]
        PROVE  /\ blocks[s][r] = "absent" /\ blocks'[s][r] = "proposed"
               /\ s \in DOMAIN savers[g].data /\ savers[g].data[s] = r
    BY <1>1, <1>4, SavedData
  <1>5. ASSUME NEW c \in Checkers, MarkOrphanedBlocks(c), blocks'[s][r] # blocks[s][r]
        PROVE  \/ /\ <<s, r>> \in checks[c].seen
                  /\ blocks[s][r] # "absent" /\ blocks'[s][r] = "proposed"
               \/ /\ <<s, r>> \notin checks[c].seen
                  /\ InWindow(c, s)
                  /\ blocks[s][r] # "absent" /\ blocks'[s][r] = "orphaned"
    <2>1. blocks' = UpdateCanonicalBlocks(blocks, checks[c].start, checks[c].head, checks[c].seen)
      BY <1>5 DEF MarkOrphanedBlocks
    <2> QED
      BY <1>0, <1>5, <2>1 DEF UpdateCanonicalBlocks, InWindow
  <1>6. ASSUME NEW g \in Savers, DeleteScheduled(g) \/ DeleteMissed(g)
        PROVE  blocks'[s][r] = blocks[s][r]
    <2>1. PICK p \in Placeholders :
            blocks' = DeleteDuplicates(blocks, savers[g].epoch - CleanupBack, p)
      BY <1>6 DEF DeleteScheduled, DeleteMissed, Placeholders
    <2> QED
      BY <1>0, <2>1, DeleteDuplicatesFacts
  <1> QED
    BY <1>2, <1>3, <1>4, <1>5, <1>6, WritersOfBlocks

\* How a saver that waits goes on: it ends only when its blocks are saved.
LEMMA WaitingMoves ==
    ASSUME IInv, AlwaysKept, [Next]_vars, UNCHANGED used,
           NEW g \in Savers, savers[g].pc = "waiting"
    PROVE  \/ savers'[g] = savers[g]
           \/ \A s \in DOMAIN savers[g].data :
                savers[g].data[s] \in BlockRoots =>
                    blocks'[s][savers[g].data[s]] # "absent"
  <1>1. savers \in [Savers -> SaverState]
    BY DEF IInv, TypeOK
  <1>2. PICK e \in Epochs : e = savers[g].epoch
    BY SaverDataType DEF IInv
  <1>3. savers[g].data \in [SlotsOf(e) -> Roots]
    BY <1>2 DEF IInv, SaverHoldsEpoch
  <1>4. \A s \in DOMAIN savers[g].data : s \in Slots
    BY <1>3 DEF SlotsOf
  <1>5. QuietNext
    BY QuietSteps
  <1>6. CASE SkipUnchanged(g)
    <2>1. BlocksSaved(savers[g].data)
      BY <1>2, <1>6 DEF SkipUnchanged, AlwaysKept, SavedStays
    <2> QED
      BY <1>6, <2>1 DEF SkipUnchanged, BlocksSaved
  <1>7. CASE SaveEpoch(g)
    <2>1. blocks' = SaveBlocks(blocks, savers[g].data)
      BY <1>7 DEF SaveEpoch
    <2>2. \A s \in DOMAIN savers[g].data : savers[g].data[s] \in Roots
      BY <1>3
    <2> QED
      BY <1>4, <2>1, <2>2, SaveBlocksPresent
  <1>8. ASSUME NEW h \in Savers, SaverStep(h), ~ SkipUnchanged(g), ~ SaveEpoch(g)
        PROVE  savers'[g] = savers[g]
    <2>1. CASE h = g
      BY <1>8, <2>1 DEF SaverStep, CleanupRefused, DeleteScheduled, DeleteMissed
    <2>2. CASE h # g
      BY <1>1, <1>8, <2>2 DEF SaverStep, SkipUnchanged, SaveEpoch, CleanupRefused,
                          DeleteScheduled, DeleteMissed, SaverEnds
    <2> QED
      BY <2>1, <2>2
  <1>9. ASSUME NEW c \in Checkers, CheckStep(c) PROVE savers'[g] = savers[g]
    <2>1. CASE ExportEpoch(c)
      <3>1. PICK f \in Epochs, h \in Savers :
                /\ savers[h].pc = "idle"
                /\ savers' = [savers EXCEPT ![h] =
                        [pc |-> "waiting", epoch |-> f, data |-> FetchedEpoch(f, {})]]
        BY <2>1, QuietSteps DEF ExportsWhole
      <3> QED
        BY <1>1, <3>1
    <2> QED
      BY <1>9, <2>1 DEF CheckStep, LoadRunning, StoreRunning, ReadHead, ReadDb,
              ReadNode, Plan, SkipBlacklisted, MarkOrphanedBlocks,
              UpdateEpochFinalization
  <1> QED
    BY <1>5, <1>6, <1>7, <1>8, <1>9
    DEF QuietNext, Tick, Finalize, PushHead, ReceiveBlock, SaveBlock

\* Nothing quiet changes the list of excluded epochs.
LEMMA BlacklistStays ==
    ASSUME IInv, [Next]_vars, UNCHANGED used
    PROVE  UNCHANGED blacklist
  <1>1. QuietNext
    BY QuietSteps
  <1>2. ASSUME NEW c \in Checkers, CheckStep(c) PROVE UNCHANGED blacklist
    BY <1>2 DEF CheckStep, LoadRunning, StoreRunning, ReadHead, ReadDb, ReadNode,
                Plan, ExportEpoch, SkipBlacklisted, MarkOrphanedBlocks,
                UpdateEpochFinalization
  <1>3. ASSUME NEW g \in Savers, SaverStep(g) PROVE UNCHANGED blacklist
    BY <1>3 DEF SaverStep, SkipUnchanged, SaveEpoch, CleanupRefused,
                DeleteScheduled, DeleteMissed
  <1> QED
    BY <1>1, <1>2, <1>3
    DEF QuietNext, Tick, Finalize, PushHead, ReceiveBlock, SaveBlock

\* A block that is coming keeps coming until it is there.
LEMMA ComingKept ==
    ASSUME IInv, AlwaysKept, [Next]_vars, UNCHANGED used,
           NEW s \in Slots, NEW r \in BlockRoots, chain[s] = r, Coming(s)
    PROVE  Coming(s)' \/ blocks'[s][r] # "absent"
  <1>1. chain'[s] = r
    BY ChainGrows, RootsDistinct
  <1>2. CASE blacklist[EpochOfSlot(s)] > BlacklistLimit
    BY <1>2, BlacklistStays DEF Coming
  <1>3. ASSUME NEW g \in Savers, savers[g].pc = "waiting",
               s \in DOMAIN savers[g].data, savers[g].data[s] = chain[s]
        PROVE  Coming(s)' \/ blocks'[s][r] # "absent"
    <2>1. \/ savers'[g] = savers[g]
          \/ blocks'[s][r] # "absent"
      BY <1>3, WaitingMoves
    <2> QED
      BY <1>1, <1>3, <2>1 DEF Coming
  <1> QED
    BY <1>2, <1>3 DEF Coming

-----------------------------------------------------------------------------
(* Everything on its way stays canonical *)

\* A canonical block stays canonical.
LEMMA CanonicalStays ==
    ASSUME IInv, AlwaysKept, [Next]_vars, UNCHANGED used,
           NEW b \in Block, Canonical(b)
    PROVE  chain'[b[1]] = b[2]
  <1>1. b[1] \in Slots /\ chain[b[1]] # NoBlock
    BY RootsDistinct DEF Block, Canonical
  <1> QED
    BY <1>1, ChainGrows DEF Canonical

\* The queue and the block in hand change by a head event, by the loop taking
\* a block and by saving it.
LEMMA QueueStaysCanonical ==
    ASSUME IInv, AlwaysKept, [Next]_vars, UNCHANGED used,
           \A b \in Range(newBlocks) \cup Range(inHand) : Canonical(b)
    PROVE  \A b \in Range(newBlocks') \cup Range(inHand') : chain'[b[1]] = b[2]
  <1>1. newBlocks \in Seq(Block) /\ inHand \in Seq(Block)
    BY DEF IInv, TypeOK
  <1>2. QuietNext
    BY QuietSteps
  <1>3. \A b \in Range(newBlocks) \cup Range(inHand) : b \in Block
    BY <1>1 DEF Range
  <1>4. CASE UNCHANGED <<newBlocks, inHand>>
    BY <1>3, <1>4, CanonicalStays
  <1>5. CASE PushHead
    <2> DEFINE head == <<HeadSlot, chain[HeadSlot]>>
    <2>1. head \in Block /\ Canonical(head)
      BY HeadType DEF IInv, Block, Canonical
    <2>2. newBlocks' = Append(newBlocks, head) /\ inHand' = inHand
      BY <1>5 DEF PushHead
    <2> HIDE DEF head
    <2>3. \A b \in Range(newBlocks') : b \in Range(newBlocks) \/ b = head
      BY <1>1, <2>1, <2>2 DEF Range
    <2> QED
      BY <1>3, <2>1, <2>2, <2>3, CanonicalStays
  <1>6. CASE ReceiveBlock
    <2>1. /\ newBlocks # <<>>
          /\ inHand' = <<Head(newBlocks)>> /\ newBlocks' = Tail(newBlocks)
      BY <1>6 DEF ReceiveBlock
    <2>2. \A b \in Range(newBlocks') : b \in Range(newBlocks)
      BY <1>1, <2>1 DEF Range
    <2>3. \A b \in Range(inHand') : b \in Range(newBlocks)
      BY <1>1, <2>1 DEF Range
    <2> QED
      BY <1>3, <2>2, <2>3, CanonicalStays
  <1>7. CASE SaveBlock
    <2>1. Range(inHand') = {} /\ newBlocks' = newBlocks
      BY <1>7 DEF SaveBlock, Range
    <2> QED
      BY <1>3, <2>1, CanonicalStays
  <1>8. ASSUME NEW c \in Checkers, CheckStep(c) PROVE UNCHANGED <<newBlocks, inHand>>
    BY <1>8 DEF CheckStep, LoadRunning, StoreRunning, ReadHead, ReadDb, ReadNode,
                Plan, ExportEpoch, SkipBlacklisted, MarkOrphanedBlocks,
                UpdateEpochFinalization
  <1>9. ASSUME NEW g \in Savers, SaverStep(g) PROVE UNCHANGED <<newBlocks, inHand>>
    BY <1>9 DEF SaverStep, SkipUnchanged, SaveEpoch, CleanupRefused,
                DeleteScheduled, DeleteMissed
  <1> QED
    BY <1>2, <1>4, <1>5, <1>6, <1>7, <1>8, <1>9 DEF QuietNext, Tick, Finalize

\* A saver at work holds what it held, or an epoch just read.
LEMMA SaverHolds ==
    ASSUME IInv, [Next]_vars, UNCHANGED used, NEW g \in Savers, savers'[g].pc # "idle"
    PROVE  \/ savers[g].pc # "idle" /\ savers'[g].data = savers[g].data
           \/ /\ \E e \in Epochs : savers'[g].data = FetchedEpoch(e, {})
              /\ UNCHANGED node
  <1>1. savers \in [Savers -> SaverState] /\ savers[g] \in SaverState
    BY DEF IInv, TypeOK
  <1>2. QuietNext
    BY QuietSteps
  <1>3. CASE UNCHANGED savers
    BY <1>3
  <1>4. ASSUME NEW c \in Checkers, ExportEpoch(c), savers'[g] # savers[g]
        PROVE  /\ \E e \in Epochs : savers'[g].data = FetchedEpoch(e, {})
               /\ UNCHANGED node
    <2>1. PICK e \in Epochs, h \in Savers :
            /\ savers' = [savers EXCEPT ![h] =
                    [pc |-> "waiting", epoch |-> e, data |-> FetchedEpoch(e, {})]]
            /\ UNCHANGED node
      BY <1>4, QuietSteps DEF ExportsWhole
    <2> QED
      BY <1>1, <1>4, <2>1
  <1>5. ASSUME NEW h \in Savers, SaverStep(h), savers'[g] # savers[g]
        PROVE  savers[g].pc # "idle" /\ savers'[g].data = savers[g].data
    <2>1. savers' # [savers EXCEPT ![h] = IdleSaver]
      BY <1>1, <1>5 DEF IdleSaver
    <2>2. \E pc : savers' = [savers EXCEPT ![h].pc = pc] /\ savers[h].pc # "idle"
      BY <1>5, <2>1 DEF SaverStep, SkipUnchanged, SaveEpoch, CleanupRefused,
                        DeleteScheduled, DeleteMissed, SaverEnds
    <2>3. PICK pc : savers' = [savers EXCEPT ![h].pc = pc] /\ savers[h].pc # "idle"
      BY <2>2
    <2>4. h = g
      BY <1>1, <1>5, <2>3
    <2> QED
      BY <1>1, <2>3, <2>4 DEF SaverState
  <1>6. ASSUME NEW c \in Checkers, CheckStep(c), ~ ExportEpoch(c) PROVE UNCHANGED savers
    BY <1>6 DEF CheckStep, LoadRunning, StoreRunning, ReadHead, ReadDb, ReadNode,
                Plan, SkipBlacklisted, MarkOrphanedBlocks, UpdateEpochFinalization
  <1> QED
    BY <1>2, <1>3, <1>4, <1>5, <1>6
    DEF QuietNext, Tick, Finalize, PushHead, ReceiveBlock, SaveBlock

\* What a check has asked for it has seen: the node is asked slot by slot from
\* the first slot of the window to the last.
LEMMA AskedIsSeen ==
    ASSUME IInv, AlwaysKept, [Next]_vars, UNCHANGED used, NEW d \in Checkers,
           NEW s \in Slots, chain[s] # NoBlock,
           HasAsked(d, s) => <<s, chain[s]>> \in checks[d].seen,
           HasAsked(d, s)'
    PROVE  <<s, chain[s]>> \in checks'[d].seen
  <1>1. checks \in [Checkers -> CheckState] /\ checks[d] \in CheckState
    BY DEF IInv, TypeOK
  <1>2. checks'[d].pc \in {"node", "plan", "export", "finalize"}
    BY DEF HasAsked
  <1>3. CASE checks'[d] = checks[d]
    BY <1>3 DEF HasAsked, InWindow
  <1>4. CASE checks'[d] = IdleCheck
    BY <1>2, <1>4 DEF IdleCheck
  <1>5. ASSUME NEW p, checks'[d] = [checks[d] EXCEPT !.pc = p],
               p \in {"load", "off", "store", "head"}
        PROVE  FALSE
    BY <1>1, <1>2, <1>5 DEF CheckState
  <1>6. CASE ReadHead(d)
    BY <1>1, <1>2, <1>6 DEF ReadHead, CheckState
  <1>7. CASE ReadDb(d)
    <2>1. PICK start \in Epochs : start = checks[d].start
      BY <1>1 DEF CheckState
    <2>2. /\ checks'[d].pc = "node" /\ checks'[d].start = start
          /\ checks'[d].cursor = start * SlotsPerEpoch
      BY <1>1, <1>7, <2>1 DEF ReadDb, CheckState
    <2>3. s < start * SlotsPerEpoch /\ EpochOfSlot(s) >= start
      BY <2>2, <2>1, EpochOfSlotType DEF HasAsked, InWindow, Epochs
    <2>4. s \in Nat /\ start \in Nat /\ SlotsPerEpoch \in Nat \ {0}
      BY <2>1, ConstantTypes DEF Slots, Epochs
    <2>5. (s \div SlotsPerEpoch) * SlotsPerEpoch <= s /\ s \div SlotsPerEpoch \in Nat
      BY <2>4, QuotientBounds
    <2>6. \A q \in Nat : q >= start => q * SlotsPerEpoch >= start * SlotsPerEpoch
      BY <2>4
    <2> QED
      BY <2>3, <2>4, <2>5, <2>6 DEF EpochOfSlot
  <1>8. CASE ReadNode(d)
    <2> DEFINE slot == checks[d].cursor
               last == slot + 1 \notin Slots \/ EpochOfSlot(slot + 1) > checks[d].head
    <2>1. /\ checks[d].pc = "node" /\ slot \in Slots /\ checks[d].head \in Epochs
          /\ checks'[d].start = checks[d].start /\ checks'[d].head = checks[d].head
          /\ checks'[d].pc = IF last THEN "plan" ELSE "node"
          /\ checks'[d].cursor = IF last THEN 0 ELSE slot + 1
          /\ checks'[d].seen = checks[d].seen \cup {slot} \X ({chain[slot]} \ {NoBlock})
      BY <1>1, <1>8 DEF ReadNode, CheckState
    <2>2. InWindow(d, s)
      BY <2>1 DEF HasAsked, InWindow
    <2>3. CASE s = slot
      BY <2>1, <2>3
    <2>4. CASE s < slot
      BY <2>1, <2>2, <2>4 DEF HasAsked
    <2>5. CASE s > slot
      <3>1. ~ (s < slot + 1)
        BY <2>1, <2>5 DEF Slots
      <3>2. last
        BY <2>1, <3>1 DEF HasAsked
      <3>3. slot + 1 \in Slots /\ slot + 1 <= s
        BY <2>1, <2>5, ConstantTypes DEF Slots
      <3>4. EpochOfSlot(slot + 1) > checks[d].head
        BY <3>2, <3>3
      <3>5. EpochOfSlot(slot + 1) <= EpochOfSlot(s)
        BY <3>3, QuotientMonotonic, ConstantTypes DEF Slots, EpochOfSlot
      <3>6. EpochOfSlot(s) \in Int /\ EpochOfSlot(slot + 1) \in Int /\ checks[d].head \in Int
        BY <2>1, <3>3, EpochOfSlotType DEF Epochs
      <3>7. EpochOfSlot(s) <= checks[d].head
        BY <2>2 DEF InWindow
      <3> QED
        BY <3>4, <3>5, <3>6, <3>7
    <2>6. s \in Int /\ slot \in Int
      BY <2>1 DEF Slots
    <2> QED
      BY <2>3, <2>4, <2>5, <2>6
  <1>9. CASE Plan(d)
    <2>1. /\ checks[d].pc = "plan"
          /\ checks'[d].start = checks[d].start /\ checks'[d].head = checks[d].head
          /\ checks'[d].seen = checks[d].seen
      BY <1>1, <1>9 DEF Plan, CheckState
    <2> QED
      BY <2>1 DEF HasAsked, InWindow
  <1>10. CASE checks[d].pc = "export" /\ checks'[d].start = checks[d].start
              /\ checks'[d].head = checks[d].head /\ checks'[d].seen = checks[d].seen
    BY <1>10 DEF HasAsked, InWindow
  <1>11. ASSUME NEW e \in Epochs, checks'[d] = [checks[d] EXCEPT !.todo = @ \ {e}]
         PROVE  /\ checks'[d].start = checks[d].start
                /\ checks'[d].head = checks[d].head /\ checks'[d].seen = checks[d].seen
    BY <1>1, <1>11 DEF CheckState
  <1>12. ASSUME checks'[d] = [checks[d] EXCEPT !.pc = "finalize"]
         PROVE  /\ checks'[d].start = checks[d].start
                /\ checks'[d].head = checks[d].head /\ checks'[d].seen = checks[d].seen
    BY <1>1, <1>12 DEF CheckState
  <1> QED
    BY <1>3, <1>4, <1>5, <1>6, <1>7, <1>8, <1>9, <1>10, <1>11, <1>12, CheckMoves
    DEF Moves

\* What the checks see is canonical when they see it.
LEMMA SeenStaysCanonical ==
    ASSUME IInv, AlwaysKept, [Next]_vars, UNCHANGED used, NEW d \in Checkers,
           \A b \in checks[d].seen : Canonical(b)
    PROVE  \A b \in checks'[d].seen : chain'[b[1]] = b[2]
  <1>1. checks \in [Checkers -> CheckState] /\ checks[d] \in CheckState
    BY DEF IInv, TypeOK
  <1>2. CASE checks'[d].seen = checks[d].seen
    <2>1. \A b \in checks[d].seen : b \in Block
      BY <1>1 DEF CheckState
    <2> QED
      BY <1>2, <2>1, CanonicalStays
  <1>3. CASE checks'[d] = IdleCheck
    BY <1>3 DEF IdleCheck
  <1>4. CASE ReadNode(d)
    <2>1. /\ checks[d].cursor \in Slots
          /\ checks'[d].seen = checks[d].seen
                \cup {checks[d].cursor} \X ({chain[checks[d].cursor]} \ {NoBlock})
          /\ UNCHANGED chain
      BY <1>1, <1>4 DEF ReadNode, CheckState
    <2> QED
      BY <2>1 DEF Canonical
  <1>5. ReadHead(d) \/ ReadDb(d) \/ Plan(d) => checks'[d].seen = checks[d].seen
    <2>1. ReadHead(d) => checks'[d].seen = checks[d].seen
      BY <1>1 DEF ReadHead, CheckState
    <2>2. ReadDb(d) => checks'[d].seen = checks[d].seen
      BY <1>1 DEF ReadDb, CheckState
    <2>3. Plan(d) => checks'[d].seen = checks[d].seen
      BY <1>1 DEF Plan, CheckState
    <2> QED
      BY <2>1, <2>2, <2>3
  <1>6. (\E p : checks'[d] = [checks[d] EXCEPT !.pc = p]) => checks'[d].seen = checks[d].seen
    BY <1>1 DEF CheckState
  <1>7. (\E e \in Epochs : checks'[d] = [checks[d] EXCEPT !.todo = @ \ {e}]) =>
            checks'[d].seen = checks[d].seen
    BY <1>1 DEF CheckState
  <1> QED
    BY <1>2, <1>3, <1>4, <1>5, <1>6, <1>7, CheckMoves DEF Moves

\* The five parts together, for a step in which no check begins clean.
LEMMA OnlyCanonicalStays ==
    ASSUME IInv, AlwaysKept, [Next]_vars, UNCHANGED used, OnlyCanonical,
           HistoryType', Settled' \subseteq Settled
    PROVE  OnlyCanonical'
  <1>0. clock \in Slots /\ clock' \in Slots
    BY StepInvariant DEF IInv, TypeOK
  <1>1. clock' >= clock /\ \A s \in Slots : s <= clock => chain'[s] = chain[s]
    BY ChainGrows
  <1>2. \A s \in Settled' : s \in Slots
    BY DEF Settled, HistoryType
  <1>3. \A s \in Settled' : s <= clock /\ chain'[s] = chain[s]
    BY <1>1, <1>2 DEF OnlyCanonical
  <1>4. \A s \in Settled' : s <= clock'
    BY <1>0, <1>1, <1>2, <1>3 DEF Slots
  <1>5. \A b \in Range(newBlocks') \cup Range(inHand') : chain'[b[1]] = b[2]
    BY QueueStaysCanonical DEF OnlyCanonical
  <1>6. ASSUME NEW g \in Savers, savers'[g].pc # "idle",
               NEW s \in DOMAIN savers'[g].data, savers'[g].data[s] \in BlockRoots
        PROVE  chain'[s] = savers'[g].data[s]
    <2>1. CASE savers[g].pc # "idle" /\ savers'[g].data = savers[g].data
      <3>1. <<s, savers[g].data[s]>> \in Block
        BY <1>6, <2>1, SaverDataType DEF IInv, Block, SlotsOf
      <3>2. Canonical(<<s, savers[g].data[s]>>)
        BY <1>6, <2>1 DEF OnlyCanonical, Canonical
      <3> QED
        BY <2>1, <3>1, <3>2, CanonicalStays
    <2>2. CASE /\ \E e \in Epochs : savers'[g].data = FetchedEpoch(e, {})
               /\ UNCHANGED node
      BY <1>6, <2>2, RootsDistinct DEF FetchedEpoch
    <2> QED
      BY <1>6, <2>1, <2>2, SaverHolds
  <1>7. \A d \in Checkers : \A b \in checks'[d].seen : chain'[b[1]] = b[2]
    BY SeenStaysCanonical DEF OnlyCanonical
  <1>8. ASSUME NEW d \in Checkers, NEW s \in Settled', HasAsked(d, s)', chain'[s] # NoBlock
        PROVE  <<s, chain'[s]>> \in checks'[d].seen
    <2>1. s \in Settled /\ s \in Slots /\ chain'[s] = chain[s]
      BY <1>2, <1>3
    <2> QED
      BY <1>8, <2>1, AskedIsSeen DEF OnlyCanonical
  <1> QED
    BY <1>4, <1>5, <1>6, <1>7, <1>8 DEF OnlyCanonical, Canonical

-----------------------------------------------------------------------------
(* Agreement stays, and a check brings it about *)

\* No step undoes the agreement of a settled slot.
LEMMA AgreedKept ==
    ASSUME IInv, AlwaysKept, [Next]_vars, UNCHANGED used, OnlyCanonical,
           NEW s \in Slots, s \in Settled, Agreed(s)
    PROVE  Agreed(s)'
  <1>1. s <= clock /\ chain'[s] = chain[s]
    BY ChainGrows DEF OnlyCanonical
  <1> SUFFICES ASSUME NEW r \in BlockRoots
               PROVE  IF chain'[s] = r
                      THEN \/ blocks'[s][r] = "proposed"
                           \/ blocks'[s][r] = "absent" /\ Coming(s)'
                      ELSE blocks'[s][r] # "proposed"
    BY DEF Agreed
  <1>2. CASE chain[s] = r
    <2>1. blocks[s][r] = "proposed" \/ (blocks[s][r] = "absent" /\ Coming(s))
      BY <1>2 DEF Agreed
    <2>2. CASE blocks'[s][r] = blocks[s][r]
      BY <1>1, <1>2, <2>1, <2>2, ComingKept
    <2>3. CASE blocks'[s][r] = "proposed"
      BY <1>1, <1>2, <2>3
    <2>4. ASSUME NEW c \in Checkers, MarkOrphanedBlocks(c), InWindow(c, s)
          PROVE  <<s, r>> \in checks[c].seen
      <3>1. HasAsked(c, s)
        BY <2>4 DEF MarkOrphanedBlocks, HasAsked
      <3>2. chain[s] # NoBlock
        BY <1>2, RootsDistinct
      <3> QED
        BY <1>2, <3>1, <3>2 DEF OnlyCanonical
    <2> QED
      BY <2>2, <2>3, <2>4, RowMoves
  <1>3. CASE chain[s] # r
    <2>1. blocks[s][r] # "proposed"
      BY <1>3 DEF Agreed
    <2>2. ~ (SaveBlock /\ inHand # <<>> /\ inHand[1] = <<s, r>>)
      <3> SUFFICES ASSUME inHand # <<>>, inHand[1] = <<s, r>> PROVE FALSE
        OBVIOUS
      <3>1. inHand \in Seq(Block)
        BY DEF IInv, TypeOK
      <3>2. 1 \in DOMAIN inHand
        BY <3>1
      <3>3. Canonical(inHand[1])
        BY <3>2 DEF OnlyCanonical, Range
      <3> QED
        BY <1>3, <3>3 DEF Canonical
    <2>3. ~ \E g \in Savers : /\ SaveEpoch(g)
                              /\ s \in DOMAIN savers[g].data
                              /\ savers[g].data[s] = r
      BY <1>3 DEF SaveEpoch, OnlyCanonical
    <2>4. \A c \in Checkers : <<s, r>> \notin checks[c].seen
      BY <1>3 DEF OnlyCanonical, Canonical
    <2>5. blocks'[s][r] = blocks[s][r] \/ blocks'[s][r] = "orphaned"
      BY <2>2, <2>3, <2>4, RowMoves
    <2> QED
      BY <1>1, <1>3, <2>1, <2>5
  <1> QED
    BY <1>2, <1>3

\* What is planned and not exported by this step stays planned or comes.
LEMMA PlannedKept ==
    ASSUME IInv, AlwaysKept, [Next]_vars, UNCHANGED used, OnlyCanonical,
           NEW c \in Checkers, NEW s \in Slots, s \in Settled, Planned(c, s),
           EpochOfSlot(s) \in checks[c].todo =>
                EpochOfSlot(s) \in checks'[c].todo \/ Coming(s)'
    PROVE  Planned(c, s)'
  <1>1. chain'[s] = chain[s]
    BY ChainGrows DEF OnlyCanonical
  <1> SUFFICES ASSUME NEW r \in BlockRoots, chain[s] = r
               PROVE  \/ blocks'[s][r] # "absent"
                      \/ Coming(s)'
                      \/ EpochOfSlot(s) \in checks'[c].todo
    BY <1>1 DEF Planned
  <1>2. \/ blocks[s][r] # "absent"
        \/ Coming(s)
        \/ EpochOfSlot(s) \in checks[c].todo
    BY DEF Planned
  <1>3. blocks[s][r] # "absent" => blocks'[s][r] # "absent"
    BY StepKeeps DEF Kept
  <1> QED
    BY <1>2, <1>3, ComingKept

\* An epoch the check takes off its list is read whole, or is excluded.
LEMMA ExportBrings ==
    ASSUME IInv, [Next]_vars, UNCHANGED used, NEW c \in Checkers,
           NEW s \in Slots, s >= 1, s <= clock, chain[s] # NoBlock,
           chain'[s] = chain[s],
           checks[c].pc = "export", checks'[c].pc = "export",
           EpochOfSlot(s) \in checks[c].todo, EpochOfSlot(s) \notin checks'[c].todo
    PROVE  Coming(s)'
  <1>1. checks \in [Checkers -> CheckState] /\ savers \in [Savers -> SaverState]
    BY DEF IInv, TypeOK
  <1>2. QuietNext
    BY QuietSteps
  <1>3. ASSUME NEW d \in Checkers, NEW e, Exported(d, e)
        PROVE  d = c /\ e = EpochOfSlot(s)
    BY <1>1, <1>3 DEF Exported, CheckState
  <1>4. ASSUME NEW d \in Checkers, ExportEpoch(d) PROVE Coming(s)'
    <2>1. PICK e \in Epochs, g \in Savers :
            /\ savers' = [savers EXCEPT ![g] =
                    [pc |-> "waiting", epoch |-> e, data |-> FetchedEpoch(e, {})]]
            /\ Exported(d, e)
      BY <1>4, QuietSteps DEF ExportsWhole
    <2>2. e = EpochOfSlot(s)
      BY <1>3, <2>1
    <2>3. savers'[g].pc = "waiting" /\ savers'[g].data = FetchedEpoch(e, {})
      BY <1>1, <2>1
    <2>4. s \in SlotsOf(e) /\ s \in 1 .. clock
      BY <2>2 DEF SlotsOf, IInv, TypeOK, Slots
    <2>5. FetchedEpoch(e, {})[s] = chain[s] /\ DOMAIN FetchedEpoch(e, {}) = SlotsOf(e)
      BY <2>4 DEF FetchedEpoch
    <2> QED
      BY <2>3, <2>4, <2>5 DEF Coming
  <1>5. ASSUME NEW d \in Checkers, SkipBlacklisted(d) PROVE Coming(s)'
    <2>1. PICK e \in Epochs : /\ blacklist[e] > BlacklistLimit
                              /\ Exported(d, e)
                              /\ UNCHANGED blacklist
      BY <1>5 DEF SkipBlacklisted
    <2> QED
      BY <1>3, <2>1 DEF Coming
  <1>6. ASSUME NEW d \in Checkers, CheckStep(d), ~ ExportEpoch(d), ~ SkipBlacklisted(d)
        PROVE  FALSE
    <2>1. d # c => checks'[c] = checks[c]
      BY <1>1, <1>6
      DEF CheckStep, LoadRunning, StoreRunning, ReadHead, ReadDb, ReadNode, Plan,
          MarkOrphanedBlocks, UpdateEpochFinalization, CheckEnds, Goto
    <2>2. d = c
      BY <2>1
    <2>3. MarkOrphanedBlocks(c)
      BY <1>6, <2>2 DEF CheckStep, LoadRunning, StoreRunning, ReadHead, ReadDb,
                        ReadNode, Plan, UpdateEpochFinalization
    <2> QED
      BY <2>3 DEF MarkOrphanedBlocks
  <1>7. ASSUME NEW g \in Savers, SaverStep(g) PROVE UNCHANGED checks
    BY <1>7 DEF SaverStep, SkipUnchanged, SaveEpoch, CleanupRefused,
                DeleteScheduled, DeleteMissed
  <1>8. ASSUME ReceiveBlock PROVE checks'[c] = checks[c]
    <2>1. \/ UNCHANGED checks
          \/ \E d \in Checkers : /\ checks[d].pc = "off"
                                 /\ checks' = [checks EXCEPT ![d].pc = "load"]
      BY <1>8 DEF ReceiveBlock
    <2> QED
      BY <1>1, <2>1
  <1> QED
    BY <1>2, <1>4, <1>5, <1>6, <1>7, <1>8
    DEF QuietNext, Tick, Finalize, PushHead, SaveBlock

\* The plan holds every epoch with a canonical block the table lacks.
LEMMA PlanPlans ==
    ASSUME IInv, AlwaysKept, OnlyCanonical, NEW c \in Checkers, Plan(c),
           NEW s \in Slots, s \in Settled, InWindow(c, s)
    PROVE  Planned(c, s)'
  <1>1. checks \in [Checkers -> CheckState] /\ checks[c] \in CheckState
    BY DEF IInv, TypeOK
  <1>2. UNCHANGED <<chain, blocks>> /\ checks[c].pc = "plan"
    BY DEF Plan
  <1>3. Differing(checks[c].db, checks[c].seen) \subseteq checks'[c].todo
    BY <1>1 DEF Plan, CheckState
  <1> SUFFICES ASSUME NEW r \in BlockRoots, chain[s] = r
               PROVE  \/ blocks[s][r] # "absent"
                      \/ EpochOfSlot(s) \in checks'[c].todo
    BY <1>2 DEF Planned
  <1>4. <<s, r>> \in checks[c].seen
    <2>1. HasAsked(c, s) /\ chain[s] # NoBlock
      BY <1>2, RootsDistinct DEF HasAsked
    <2> QED
      BY <2>1 DEF OnlyCanonical
  <1>5. CASE <<s, r>> \in checks[c].db
    BY <1>5 DEF AlwaysKept, DbRowsStay
  <1>6. CASE <<s, r>> \notin checks[c].db
    <2>1. EpochOfSlot(s) \in Differing(checks[c].db, checks[c].seen)
      BY <1>4, <1>6 DEF Differing
    <2> QED
      BY <1>3, <2>1
  <1> QED
    BY <1>5, <1>6

\* With nothing left to export, marking the orphans makes the slots agree.
LEMMA MarkAgrees ==
    ASSUME IInv, AlwaysKept, [Next]_vars, UNCHANGED used, OnlyCanonical,
           NEW c \in Checkers, MarkOrphanedBlocks(c), NEW slot \in Slots,
           NEW s \in Compared(c, slot), s \in Slots, s \in Settled, Planned(c, s)
    PROVE  Agreed(s)'
  <1>1. blocks \in BlockTables
    BY DEF IInv, TypeOK, BlockTables
  <1>2. InWindow(c, s) /\ \E b \in checks[c].seen : s <= b[1]
    BY DEF Compared, InWindow
  <1>3. /\ checks[c].pc = "export" /\ checks[c].todo = {}
        /\ blocks' = UpdateCanonicalBlocks(blocks, checks[c].start, checks[c].head,
                                           checks[c].seen)
        /\ UNCHANGED <<chain, blacklist, savers>>
    BY DEF MarkOrphanedBlocks
  <1> SUFFICES ASSUME NEW r \in BlockRoots
               PROVE  IF chain[s] = r
                      THEN \/ blocks'[s][r] = "proposed"
                           \/ blocks'[s][r] = "absent" /\ Coming(s)'
                      ELSE blocks'[s][r] # "proposed"
    BY <1>3 DEF Agreed
  <1>4. r \in Roots
    BY RootsDistinct
  <1>5. blocks'[s][r] = IF <<s, r>> \in checks[c].seen /\ blocks[s][r] # "absent"
                        THEN "proposed"
                        ELSE IF blocks[s][r] \in {"proposed", "orphaned"}
                        THEN "orphaned"
                        ELSE blocks[s][r]
    BY <1>2, <1>3, <1>4 DEF UpdateCanonicalBlocks, InWindow
  <1>6. CASE chain[s] = r
    <2>1. HasAsked(c, s) /\ chain[s] # NoBlock
      BY <1>2, <1>3, <1>6, RootsDistinct DEF HasAsked
    <2>2. <<s, r>> \in checks[c].seen
      BY <1>6, <2>1 DEF OnlyCanonical
    <2>3. blocks[s][r] # "absent" \/ Coming(s)
      BY <1>3, <1>6 DEF Planned
    <2>4. Coming(s) => Coming(s)'
      BY <1>3 DEF Coming
    <2> QED
      BY <1>5, <1>6, <2>2, <2>3, <2>4
  <1>7. CASE chain[s] # r
    <2>1. <<s, r>> \notin checks[c].seen
      BY <1>7 DEF OnlyCanonical, Canonical
    <2> QED
      BY <1>5, <1>7, <2>1
  <1> QED
    BY <1>6, <1>7

\* A check comes to finalize by marking the orphans, unless that fails.
LEMMA FinalizingMarks ==
    ASSUME IInv, [Next]_vars, UNCHANGED used, NEW c \in Checkers,
           checks[c].pc = "export", checks'[c].pc = "finalize"
    PROVE  MarkOrphanedBlocks(c)
  <1>1. checks \in [Checkers -> CheckState] /\ checks[c] \in CheckState
    BY DEF IInv, TypeOK
  <1>2. QuietNext
    BY QuietSteps
  <1>3. ASSUME NEW d \in Checkers, CheckStep(d), d # c PROVE checks'[c] = checks[c]
    BY <1>1, <1>3
    DEF CheckStep, LoadRunning, StoreRunning, ReadHead, ReadDb, ReadNode, Plan,
        ExportEpoch, Exported, SkipBlacklisted, MarkOrphanedBlocks,
        UpdateEpochFinalization, CheckEnds, Goto
  <1>4. ASSUME NEW e, Exported(c, e) PROVE checks'[c].pc = checks[c].pc
    BY <1>1, <1>4 DEF Exported, CheckState
  <1>5. ~ ExportEpoch(c) /\ ~ SkipBlacklisted(c)
    BY <1>4 DEF ExportEpoch, SkipBlacklisted
  <1>6. CheckStep(c) => MarkOrphanedBlocks(c)
    BY <1>5 DEF CheckStep, LoadRunning, StoreRunning, ReadHead, ReadDb, ReadNode,
                Plan, UpdateEpochFinalization
  <1>7. ASSUME NEW g \in Savers, SaverStep(g) PROVE UNCHANGED checks
    BY <1>7 DEF SaverStep, SkipUnchanged, SaveEpoch, CleanupRefused,
                DeleteScheduled, DeleteMissed
  <1>8. ASSUME ReceiveBlock PROVE checks'[c] = checks[c]
    <2>1. \/ UNCHANGED checks
          \/ \E d \in Checkers : /\ checks[d].pc = "off"
                                 /\ checks' = [checks EXCEPT ![d].pc = "load"]
      BY <1>8 DEF ReceiveBlock
    <2> QED
      BY <1>1, <2>1
  <1> QED
    BY <1>2, <1>3, <1>6, <1>7, <1>8 DEF QuietNext, Tick, Finalize, PushHead, SaveBlock

-----------------------------------------------------------------------------
(* The history *)

\* The history is forgotten with every reorganisation, fault and crash.
LEMMA HistoryForgotten ==
    ASSUME Observe, used' # used
    PROVE  AgreementInv'
  <1>1. undisturbed' = {} /\ covered' = {}
    BY DEF Observe
  <1> QED
    BY <1>1 DEF AgreementInv, HistoryType, Quiet, CheckPromises

\* A check begins while nothing stale is under way.
CleanBegin == \E c \in Checkers : Begins(c) /\ NothingStale(c)

\* The history stays a history of checks and of slots after the first.
LEMMA HistoryKeepsType ==
    ASSUME IInv, HistoryType, Observe, [Next]_vars
    PROVE  HistoryType'
  <1>1. clock \in Slots
    BY DEF IInv, TypeOK
  <1>2. CASE used' # used
    BY <1>2 DEF Observe, HistoryType
  <1>3. CASE used' = used
    <2>1. undisturbed' \subseteq Checkers \X Slots
      BY <1>1, <1>3 DEF Observe, HistoryType
    <2>2. \A c \in Checkers : \A slot \in Slots : Compared(c, slot) \subseteq Slots \ {0}
      BY ConstantTypes DEF Compared, Slots
    <2>3. \A u \in undisturbed : u[1] \in Checkers /\ u[2] \in Slots
      BY DEF HistoryType
    <2>4. covered' \subseteq Slots \ {0}
      BY <1>3, <2>2, <2>3 DEF Observe, HistoryType
    <2> QED
      BY <2>1, <2>4 DEF HistoryType
  <1> QED
    BY <1>2, <1>3

\* A clean check reads its head while nothing else is under way: from here on
\* only canonical data is on its way.
LEMMA CleanBeginInv ==
    ASSUME IInv, AlwaysKept, AgreementInv, [Next]_vars, Observe, UNCHANGED used, CleanBegin
    PROVE  AgreementInv'
  <1>0. checks \in [Checkers -> CheckState] /\ clock \in Slots
    BY DEF IInv, TypeOK
  <1>1. PICK c \in Checkers : Begins(c) /\ NothingStale(c)
    BY DEF CleanBegin
  <1>2. checks[c].pc = "head" /\ checks'[c].pc = "db"
    BY <1>1 DEF Begins
  <1>3. \A d \in Checkers \ {c} : checks[d].pc = "off"
    BY <1>1 DEF NothingStale
  <1>4. \A g \in Savers : savers[g].pc = "idle"
    BY <1>1 DEF NothingStale
  <1>5. ReadHead(c)
    <2>1. checks[c] \in CheckState
      BY <1>0
    <2>2. checks'[c] # checks[c] /\ checks'[c] # IdleCheck
      BY <1>2 DEF IdleCheck
    <2>3. ~ ReadDb(c) /\ ~ ReadNode(c) /\ ~ Plan(c)
      BY <1>2 DEF ReadDb, ReadNode, Plan
    <2>4. ~ \E p : /\ checks'[c] = [checks[c] EXCEPT !.pc = p]
                   /\ <<checks[c].pc, p>> \in
                        {<<"off", "load">>, <<"load", "off">>, <<"load", "store">>,
                         <<"store", "head">>}
      BY <1>2
    <2> QED
      BY <1>2, <2>2, <2>3, <2>4, CheckMoves DEF Moves
  <1>6. UNCHANGED <<clock, chain, blocks, newBlocks, inHand, savers, blacklist>>
    BY <1>5 DEF ReadHead
  <1>7. undisturbed = {}
    <2>1. ASSUME NEW u \in undisturbed PROVE FALSE
      <3>1. u[1] \in Checkers
        BY DEF AgreementInv, HistoryType
      <3>2. checks[u[1]].pc \in {"db", "node", "plan", "export", "finalize"}
        BY DEF AgreementInv, CheckPromises
      <3> QED
        BY <1>2, <1>3, <3>1, <3>2
    <2> QED
      BY <2>1
  <1>8. undisturbed' = {<<c, clock>>} /\ covered' = covered
    <2>1. \A d \in Checkers : Begins(d) => d = c
      BY <1>3 DEF Begins
    <2> QED
      BY <1>1, <1>7, <2>1 DEF Observe
  <1>9. \A d \in Checkers : checks'[d].pc \in {"off", "db"} /\ checks'[d].seen = {}
    <2>1. checks'[c].seen = checks[c].seen /\ checks[c].seen = {}
      BY <1>0, <1>2, <1>5 DEF ReadHead, CheckState, AlwaysKept, SeesNothingYet
    <2>2. \A d \in Checkers \ {c} : checks'[d] = checks[d]
      BY <1>0, <1>5 DEF ReadHead
    <2> QED
      BY <1>2, <1>3, <2>1, <2>2 DEF AlwaysKept, SeesNothingYet
  <1>10. OnlyCanonical'
    <2>1. \A s \in Settled' : s <= clock
      <3>1. covered # {} => \A s \in covered : s <= clock
        BY DEF AgreementInv, Quiet, OnlyCanonical, Settled
      <3> QED
        BY <1>8, <3>1 DEF Settled
    <2>2. \A b \in Range(newBlocks) \cup Range(inHand) : Canonical(b)
      BY <1>1 DEF NothingStale, Canonical
    <2>3. \A d \in Checkers : \A s : ~ HasAsked(d, s)'
      BY <1>9 DEF HasAsked
    <2> QED
      BY <1>4, <1>6, <1>9, <2>1, <2>2, <2>3 DEF OnlyCanonical, Canonical
  <1>11. CheckPromises'
    BY <1>2, <1>8 DEF CheckPromises
  <1>12. \A s \in covered' : Agreed(s)'
    BY <1>6, <1>8 DEF AgreementInv, Agreed, Coming
  <1> QED
    BY <1>10, <1>11, <1>12, HistoryKeepsType DEF AgreementInv

\* Without one, the slots that are settled were settled before.
LEMMA SettledShrinks ==
    ASSUME HistoryType, Observe, UNCHANGED used, ~ CleanBegin
    PROVE  /\ undisturbed' = {u \in undisturbed : ~ Finishes(u[1])}
           /\ Settled' \subseteq Settled
           /\ Quiet' => Quiet
           /\ \A s \in covered' : \/ s \in covered
                                  \/ \E u \in undisturbed :
                                        Finishes(u[1]) /\ s \in Compared(u[1], u[2])
  <1>1. {c \in Checkers : Begins(c) /\ NothingStale(c)} = {}
    BY DEF CleanBegin
  <1>2. undisturbed' = {u \in undisturbed : ~ Finishes(u[1])}
    BY <1>1 DEF Observe
  <1>3. covered' = covered \cup UNION {Compared(u[1], u[2]) :
                                u \in {v \in undisturbed : Finishes(v[1])}}
    BY DEF Observe
  <1>4. \A s \in covered' : \/ s \in covered
                            \/ \E u \in undisturbed :
                                    Finishes(u[1]) /\ s \in Compared(u[1], u[2])
    BY <1>3
  <1>5. \A u \in undisturbed : u[2] \in Slots
    BY DEF HistoryType
  <1>6. \A u \in undisturbed : \A s \in Compared(u[1], u[2]) : s \in Slots /\ s <= u[2]
    <2> TAKE u \in undisturbed
    <2> TAKE s \in Compared(u[1], u[2])
    <2>1. PICK slot \in Slots : slot = u[2]
      BY <1>5
    <2>2. s \in 1 .. slot
      BY <2>1 DEF Compared
    <2> QED
      BY <2>1, <2>2, ConstantTypes DEF Slots
  <1>7. Settled' \subseteq Settled
    <2> SUFFICES ASSUME NEW s \in Settled' PROVE s \in Settled
      OBVIOUS
    <2>1. CASE s \in covered'
      BY <1>4, <1>6, <2>1 DEF Settled
    <2>2. CASE s \in Slots /\ \E u \in undisturbed' : s <= u[2]
      BY <1>2, <2>2 DEF Settled
    <2> QED
      BY <2>1, <2>2 DEF Settled
  <1>8. Quiet' => Quiet
    BY <1>2, <1>4 DEF Quiet
  <1> QED
    BY <1>2, <1>4, <1>7, <1>8

\* A check that stays undisturbed keeps its promises.
LEMMA PromisesKept ==
    ASSUME IInv, AlwaysKept, AgreementInv, OnlyCanonical, [Next]_vars, Observe,
           UNCHANGED used, NEW c \in Checkers, NEW slot \in Slots,
           <<c, slot>> \in undisturbed, ~ Finishes(c)
    PROVE  /\ checks'[c].pc \in {"db", "node", "plan", "export", "finalize"}
           /\ checks'[c].pc = "export" =>
                \A s \in 1 .. slot : InWindow(c, s)' => Planned(c, s)'
           /\ checks'[c].pc = "finalize" =>
                \A s \in Compared(c, slot)' : Agreed(s)'
  <1>0. /\ checks \in [Checkers -> CheckState] /\ checks[c] \in CheckState
        /\ clock \in Slots
    BY DEF IInv, TypeOK
  <1>1. /\ checks[c].pc \in {"db", "node", "plan", "export", "finalize"}
        /\ checks[c].pc = "export" =>
                \A s \in 1 .. slot : InWindow(c, s) => Planned(c, s)
        /\ checks[c].pc = "finalize" =>
                \A s \in Compared(c, slot) : Agreed(s)
    <2>1. PICK u \in undisturbed : u = <<c, slot>>
      OBVIOUS
    <2>2. u[1] = c /\ u[2] = slot
      BY <2>1
    <2> QED
      BY <2>2 DEF AgreementInv, CheckPromises
  <1>2. \A s \in 1 .. slot : s \in Slots /\ s \in Settled
    <2>1. 1 .. slot \subseteq Slots /\ \A s \in 1 .. slot : s <= slot
      BY ConstantTypes DEF Slots
    <2> QED
      BY <2>1 DEF Settled
  <1>3. \A s \in 1 .. slot : s >= 1 /\ s <= clock /\ chain'[s] = chain[s]
    BY <1>2, ChainGrows DEF OnlyCanonical
  <1>4. Compared(c, slot) \subseteq 1 .. slot /\ Compared(c, slot)' \subseteq 1 .. slot
    BY DEF Compared
  <1>5. ASSUME checks'[c].start = checks[c].start, checks'[c].head = checks[c].head,
               checks'[c].seen = checks[c].seen
        PROVE  /\ Compared(c, slot)' = Compared(c, slot)
               /\ \A s : InWindow(c, s)' = InWindow(c, s)
    BY <1>5 DEF Compared, InWindow
  <1>6. ASSUME checks[c].pc = "export", checks'[c].pc = "export",
               checks'[c].start = checks[c].start, checks'[c].head = checks[c].head,
               checks'[c].seen = checks[c].seen
        PROVE  \A s \in 1 .. slot : InWindow(c, s)' => Planned(c, s)'
    <2> SUFFICES ASSUME NEW s \in 1 .. slot, InWindow(c, s) PROVE Planned(c, s)'
      BY <1>5, <1>6
    <2>1. Planned(c, s)
      BY <1>1, <1>6
    <2>2. CASE chain[s] # NoBlock
      <3>1. EpochOfSlot(s) \in checks[c].todo =>
                EpochOfSlot(s) \in checks'[c].todo \/ Coming(s)'
        BY <1>2, <1>3, <1>6, <2>2, ExportBrings
      <3> QED
        BY <1>2, <2>1, <3>1, PlannedKept
    <2>3. CASE chain[s] = NoBlock
      BY <1>3, <2>3, RootsDistinct DEF Planned
    <2> QED
      BY <2>2, <2>3
  <1>7. CASE checks'[c] = checks[c]
    <2>1. checks'[c].pc = "finalize" => \A s \in Compared(c, slot)' : Agreed(s)'
      BY <1>1, <1>2, <1>4, <1>5, <1>7, AgreedKept
    <2> QED
      BY <1>1, <1>6, <1>7, <2>1
  <1>8. CASE checks'[c] = IdleCheck /\ checks[c].pc = "finalize"
    BY <1>8 DEF Finishes, IdleCheck
  <1>9. ReadHead(c) => FALSE
    BY <1>1 DEF ReadHead
  <1>10. CASE ReadDb(c)
    <2>1. checks'[c].pc = "node"
      BY <1>0, <1>10 DEF ReadDb, CheckState
    <2> QED
      BY <2>1
  <1>11. CASE ReadNode(c)
    <2>1. checks'[c].pc \in {"node", "plan"}
      BY <1>0, <1>11 DEF ReadNode, CheckState
    <2> QED
      BY <2>1
  <1>12. CASE Plan(c)
    <2>1. /\ checks'[c].pc = "export"
          /\ checks'[c].start = checks[c].start /\ checks'[c].head = checks[c].head
          /\ checks'[c].seen = checks[c].seen
      BY <1>0, <1>12 DEF Plan, CheckState
    <2> QED
      BY <1>2, <1>5, <1>12, <2>1, PlanPlans
  <1>13. ASSUME checks[c].pc = "export",
                NEW e \in Epochs, checks'[c] = [checks[c] EXCEPT !.todo = @ \ {e}]
         PROVE  /\ checks'[c].pc = "export"
                /\ checks'[c].start = checks[c].start /\ checks'[c].head = checks[c].head
                /\ checks'[c].seen = checks[c].seen
    BY <1>0, <1>13 DEF CheckState
  <1>14. CASE /\ checks[c].pc = "export" /\ checks[c].todo = {}
              /\ checks'[c] = [checks[c] EXCEPT !.pc = "finalize"]
    <2>1. /\ checks'[c].pc = "finalize"
          /\ checks'[c].start = checks[c].start /\ checks'[c].head = checks[c].head
          /\ checks'[c].seen = checks[c].seen
      BY <1>0, <1>14 DEF CheckState
    <2>2. MarkOrphanedBlocks(c)
      BY <1>14, <2>1, FinalizingMarks
    <2>3. ASSUME NEW s \in Compared(c, slot) PROVE Planned(c, s)
      BY <1>1, <1>4, <1>14, <2>3 DEF Compared, InWindow
    <2>4. \A s \in Compared(c, slot) : Agreed(s)'
      BY <1>2, <1>4, <2>2, <2>3, MarkAgrees
    <2> QED
      BY <1>5, <2>1, <2>4
  <1>15. CASE /\ checks[c].pc = "export"
              /\ \E e \in Epochs : checks'[c] = [checks[c] EXCEPT !.todo = @ \ {e}]
    <2>1. /\ checks'[c].pc = "export"
          /\ checks'[c].start = checks[c].start /\ checks'[c].head = checks[c].head
          /\ checks'[c].seen = checks[c].seen
      BY <1>13, <1>15
    <2> QED
      BY <1>6, <1>15, <2>1
  <1>16. \/ checks'[c] = checks[c]
         \/ checks'[c] = IdleCheck /\ checks[c].pc = "finalize"
         \/ ReadDb(c) \/ ReadNode(c) \/ Plan(c)
         \/ /\ checks[c].pc = "export"
            /\ \E e \in Epochs : checks'[c] = [checks[c] EXCEPT !.todo = @ \ {e}]
         \/ /\ checks[c].pc = "export" /\ checks[c].todo = {}
            /\ checks'[c] = [checks[c] EXCEPT !.pc = "finalize"]
    <2>1. Moves(c)
      BY CheckMoves
    <2>2. ~ \E p : /\ checks'[c] = [checks[c] EXCEPT !.pc = p]
                   /\ <<checks[c].pc, p>> \in
                        {<<"off", "load">>, <<"load", "off">>, <<"load", "store">>,
                         <<"store", "head">>}
      <3>1. \A p : <<checks[c].pc, p>> \notin
                        {<<"off", "load">>, <<"load", "off">>, <<"load", "store">>,
                         <<"store", "head">>}
        BY <1>1
      <3> QED
        BY <3>1
    <2>3. ~ (used' # used)
      OBVIOUS
    <2> QED
      BY <1>9, <2>1, <2>2, <2>3, Zenon DEF Moves
  <1> QED
    BY <1>7, <1>8, <1>10, <1>11, <1>12, <1>14, <1>15, <1>16

\* The invariant of the history is kept by every step.
LEMMA AgreementStep ==
    IInv /\ AlwaysKept /\ AgreementInv /\ [AgreementNext]_allVars => AgreementInv'
  <1> SUFFICES ASSUME IInv, AlwaysKept, AgreementInv, [AgreementNext]_allVars
               PROVE  AgreementInv'
    OBVIOUS
  <1>1. CASE UNCHANGED allVars
    BY <1>1
    DEF allVars, AgreementInv, HistoryType, Quiet, OnlyCanonical, CheckPromises,
        Agreed, Settled, Canonical, HasAsked, InWindow, Planned, Coming, Compared
  <1>2. CASE AgreementNext /\ used' # used
    BY <1>2, HistoryForgotten DEF AgreementNext
  <1>3. CASE AgreementNext /\ used' = used /\ CleanBegin
    BY <1>3, CleanBeginInv DEF AgreementNext
  <1>4. CASE AgreementNext /\ used' = used /\ ~ CleanBegin
    <2>0. Next /\ Observe /\ HistoryType /\ HistoryType'
      BY <1>4, HistoryKeepsType DEF AgreementNext, AgreementInv
    <2>1. /\ undisturbed' = {u \in undisturbed : ~ Finishes(u[1])}
          /\ Settled' \subseteq Settled
          /\ Quiet' => Quiet
          /\ \A s \in covered' : \/ s \in covered
                                 \/ \E u \in undisturbed :
                                        Finishes(u[1]) /\ s \in Compared(u[1], u[2])
      BY <1>4, <2>0, SettledShrinks
    <2>2. CASE ~ Quiet
      <3>1. undisturbed' = {} /\ covered' = {}
        BY <2>1, <2>2 DEF Quiet
      <3> QED
        BY <2>0, <3>1 DEF AgreementInv, Quiet, CheckPromises
    <2>3. CASE Quiet
      <3>1. OnlyCanonical
        BY <2>3 DEF AgreementInv
      <3>2. OnlyCanonical'
        BY <1>4, <2>0, <2>1, <3>1, OnlyCanonicalStays
      <3>3. CheckPromises'
        <4> SUFFICES ASSUME NEW u \in undisturbed'
                     PROVE  /\ checks'[u[1]].pc \in {"db", "node", "plan", "export", "finalize"}
                            /\ checks'[u[1]].pc = "export" =>
                                \A s \in 1 .. u[2] : InWindow(u[1], s)' => Planned(u[1], s)'
                            /\ checks'[u[1]].pc = "finalize" =>
                                \A s \in Compared(u[1], u[2])' : Agreed(s)'
          BY DEF CheckPromises
        <4>1. PICK c \in Checkers, slot \in Slots : u = <<c, slot>>
          BY <2>0 DEF HistoryType
        <4>2. u[1] = c /\ u[2] = slot /\ <<c, slot>> \in undisturbed /\ ~ Finishes(c)
          BY <2>1, <4>1
        <4>3. /\ checks'[c].pc \in {"db", "node", "plan", "export", "finalize"}
              /\ checks'[c].pc = "export" =>
                    \A s \in 1 .. slot : InWindow(c, s)' => Planned(c, s)'
              /\ checks'[c].pc = "finalize" =>
                    \A s \in Compared(c, slot)' : Agreed(s)'
          BY <1>4, <2>0, <3>1, <4>2, PromisesKept
        <4> QED
          BY <4>2, <4>3
      <3>4. \A s \in covered' : Agreed(s)'
        <4> SUFFICES ASSUME NEW s \in covered' PROVE Agreed(s)'
          OBVIOUS
        <4>1. s \in Slots
          BY <2>0 DEF HistoryType
        <4>2. s \in Settled
          BY <2>1 DEF Settled
        <4>3. Agreed(s)
          <5>1. CASE s \in covered
            BY <5>1 DEF AgreementInv
          <5>2. ASSUME NEW u \in undisturbed, Finishes(u[1]), s \in Compared(u[1], u[2])
                PROVE  Agreed(s)
            <6>1. checks[u[1]].pc = "finalize"
              BY <5>2 DEF Finishes
            <6> QED
              BY <5>2, <6>1 DEF AgreementInv, CheckPromises
          <5> QED
            BY <2>1, <5>1, <5>2
        <4> QED
          BY <1>4, <2>0, <3>1, <4>1, <4>2, <4>3, AgreedKept
      <3> QED
        BY <2>0, <3>2, <3>3, <3>4 DEF AgreementInv
    <2> QED
      BY <2>2, <2>3
  <1> QED
    BY <1>1, <1>2, <1>3, <1>4

\* When every save is done, what was on its way has arrived.
LEMMA AgreedIsAgreement == IInv /\ AgreementInv => Agreement
  <1> SUFFICES ASSUME IInv, AgreementInv,
                      \A g \in Savers : savers[g].pc = "idle",
                      NEW s \in covered, NEW r \in BlockRoots
               PROVE  /\ blocks[s][r] = "proposed" => chain[s] = r
                      /\ blacklist[EpochOfSlot(s)] <= BlacklistLimit /\ chain[s] = r =>
                            blocks[s][r] = "proposed"
    BY DEF Agreement
  <1>1. Agreed(s) /\ s \in Slots
    BY DEF AgreementInv, HistoryType
  <1>2. EpochOfSlot(s) \in Epochs
    BY <1>1, EpochOfSlotType
  <1>3. blacklist[EpochOfSlot(s)] \in Nat /\ BlacklistLimit \in Nat
    BY <1>2, ConstantTypes DEF IInv, TypeOK
  <1>4. blacklist[EpochOfSlot(s)] <= BlacklistLimit => ~ Coming(s)
    BY <1>3 DEF Coming
  <1> QED
    BY <1>1, <1>4 DEF Agreed

\* A full check that ran undisturbed leaves the canonical block of every slot
\* it compared as the only proposed one, once the exports it planned are saved;
\* later blocks, checks and exports keep it so until the chain reorganises, a
\* request fails or the process dies.
THEOREM UndisturbedChecksAgree == AgreementSpec => []Agreement
  <1>1. AgreementInit => IInv /\ AlwaysKept /\ AgreementInv
    BY InitInvariant, InitKept
    DEF AgreementInit, AgreementInv, HistoryType, Quiet, CheckPromises
  <1>2. [AgreementNext]_allVars => [Next]_vars
    BY DEF AgreementNext, allVars
  <1>3. /\ IInv /\ AlwaysKept /\ AgreementInv
        /\ [AgreementNext]_allVars
        => (IInv /\ AlwaysKept /\ AgreementInv)'
    BY <1>2, StepInvariant, StepKept, AgreementStep
  <1> QED
    BY <1>1, <1>3, AgreedIsAgreement, PTL DEF AgreementSpec
=============================================================================
