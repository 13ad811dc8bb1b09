-------------------------- MODULE ChainSyncProofs --------------------------
(***************************************************************************)
(* Proofs about ChainSync for every length of the chain, every number of   *)
(* checks and savers and every bound.  The first part is about the         *)
(* statements of BlockTable: the tables they return are well typed, a slot *)
(* that has a row keeps one, and a proposed block is never deleted.        *)
(***************************************************************************)
EXTENDS ChainSync, NumberLemmas

BlockTables == [Slots -> [Roots -> BlockStatus]]
DutyTables == [Slots -> DutyStatus]

-----------------------------------------------------------------------------
(* Slots and epochs *)

\* The epoch of a slot is an epoch, and the first slot of an epoch is a slot.
LEMMA EpochOfSlotType ==
    ASSUME NEW s \in Slots
    PROVE  EpochOfSlot(s) \in Epochs
  <1>1. s \in Nat /\ s <= MaxSlot /\ MaxSlot \in Nat /\ SlotsPerEpoch \in Nat \ {0}
    BY SlotAssumption DEF Slots
  <1>2. s \div SlotsPerEpoch \in Nat
    BY <1>1, QuotientBounds
  <1>3. MaxSlot \div SlotsPerEpoch \in Nat
    BY <1>1, QuotientBounds
  <1>4. s \div SlotsPerEpoch <= MaxSlot \div SlotsPerEpoch
    BY <1>1, QuotientMonotonic
  <1> QED
    BY <1>2, <1>3, <1>4 DEF Epochs, EpochOfSlot

\* The last epoch is a natural number.
LEMMA LastEpochType == EpochOfSlot(MaxSlot) \in Nat
  <1>1. MaxSlot \in Nat /\ SlotsPerEpoch \in Nat \ {0}
    BY SlotAssumption
  <1> QED
    BY <1>1, QuotientBounds DEF EpochOfSlot

\* The first slot of an epoch is a slot of the model.
LEMMA FirstSlotType ==
    ASSUME NEW e \in Epochs
    PROVE  e * SlotsPerEpoch \in Slots
  <1> DEFINE last == MaxSlot \div SlotsPerEpoch
  <1>1. MaxSlot \in Nat /\ SlotsPerEpoch \in Nat \ {0}
    BY SlotAssumption
  <1>2. last \in Nat /\ last * SlotsPerEpoch <= MaxSlot
    BY <1>1, QuotientBounds
  <1>3. e \in Nat /\ e <= last
    BY <1>2 DEF Epochs, EpochOfSlot
  <1> HIDE DEF last
  <1>4. e * SlotsPerEpoch \in Nat /\ e * SlotsPerEpoch <= last * SlotsPerEpoch
    BY <1>1, <1>2, <1>3
  <1>5. last * SlotsPerEpoch \in Nat
    BY <1>1, <1>2
  <1> QED
    BY <1>1, <1>2, <1>4, <1>5 DEF Slots

\* The slots of an epoch are slots.
LEMMA SlotsOfType ==
    ASSUME NEW e \in Epochs
    PROVE  SlotsOf(e) \subseteq Slots
  BY DEF SlotsOf

\* The placeholders are no block roots, and carry their own status.
LEMMA RootsDistinct ==
    /\ Root00 \notin BlockRoots /\ Root01 \notin BlockRoots /\ NoBlock \notin BlockRoots
    /\ Root00 # Root01
    /\ \A r \in BlockRoots : r \notin Placeholders /\ r \in Roots
    /\ Root00 \in Roots /\ Root01 \in Roots /\ Placeholders \subseteq Roots
  BY RootAssumption DEF Root00, Root01, NoBlock, Placeholders, Roots

\* A fetched block is scheduled, proposed or missed, a real block proposed.
LEMMA StatusOfType ==
    ASSUME NEW r \in Roots
    PROVE  /\ StatusOf(r) \in {"scheduled", "proposed", "missed"}
           /\ r \in BlockRoots => StatusOf(r) = "proposed"
  BY RootsDistinct DEF StatusOf, Roots, Placeholders

-----------------------------------------------------------------------------
(* saveBlocks *)

\* One inserted row: typed rows stay typed, the root is there afterwards, and
\* only placeholders can be missing that were there before.
LEMMA InsertBlockFacts ==
    ASSUME NEW rows \in [Roots -> BlockStatus], NEW r \in Roots
    PROVE  /\ InsertBlock(rows, r) \in [Roots -> BlockStatus]
           /\ InsertBlock(rows, r)[r] # "absent"
           /\ \A q \in BlockRoots : rows[q] # "absent" =>
                InsertBlock(rows, r)[q] = rows[q]
  <1>1. CASE rows[r] # "absent"
    BY <1>1 DEF InsertBlock
  <1>2. CASE rows[r] = "absent"
    <2>1. InsertBlock(rows, r) =
            [q \in Roots |-> IF q = r THEN StatusOf(r)
                             ELSE IF q \in Placeholders THEN "absent"
                             ELSE rows[q]]
      BY <1>2 DEF InsertBlock
    <2>2. StatusOf(r) \in BlockStatus /\ StatusOf(r) # "absent"
      BY StatusOfType DEF BlockStatus
    <2>3. "absent" \in BlockStatus
      BY DEF BlockStatus
    <2>4. \A q \in BlockRoots : q \in Roots /\ q \notin Placeholders
      BY RootsDistinct
    <2> QED
      BY <1>2, <2>1, <2>2, <2>3, <2>4
  <1> QED
    BY <1>1, <1>2

\* saveBlocks returns a typed table, leaves no slot it was given empty, empties
\* no other slot, and loses no proposed block.
LEMMA SaveBlocksFacts ==
    ASSUME NEW table \in BlockTables, NEW data,
           \A s \in Slots \cap DOMAIN data : data[s] \in Roots
    PROVE  /\ SaveBlocks(table, data) \in BlockTables
           /\ \A s \in Slots \cap DOMAIN data :
                Present(SaveBlocks(table, data)[s]) # {}
           /\ \A s \in Slots : Present(table[s]) # {} =>
                Present(SaveBlocks(table, data)[s]) # {}
           /\ \A s \in Slots : \A q \in BlockRoots : table[s][q] # "absent" =>
                SaveBlocks(table, data)[s][q] # "absent"
  <1> DEFINE new == SaveBlocks(table, data)
  <1>1. \A s \in Slots : new[s] = IF s \in DOMAIN data
                                  THEN InsertBlock(table[s], data[s])
                                  ELSE table[s]
    BY DEF SaveBlocks
  <1>2. \A s \in Slots : table[s] \in [Roots -> BlockStatus]
    BY DEF BlockTables
  <1>3. \A s \in Slots \cap DOMAIN data :
            /\ InsertBlock(table[s], data[s]) \in [Roots -> BlockStatus]
            /\ InsertBlock(table[s], data[s])[data[s]] # "absent"
            /\ \A q \in BlockRoots : table[s][q] # "absent" =>
                InsertBlock(table[s], data[s])[q] = table[s][q]
    BY <1>2, InsertBlockFacts
  <1>4. new \in BlockTables
    <2>1. \A s \in Slots : new[s] \in [Roots -> BlockStatus]
      BY <1>1, <1>2, <1>3
    <2>2. new = [s \in Slots |-> new[s]]
      BY DEF SaveBlocks
    <2> QED
      BY <2>1, <2>2 DEF BlockTables
  <1>5. \A s \in Slots \cap DOMAIN data : Present(new[s]) # {}
    BY <1>1, <1>3 DEF Present
  <1>6. \A s \in Slots : Present(table[s]) # {} => Present(new[s]) # {}
    BY <1>1, <1>5
  <1>7. \A s \in Slots : \A q \in BlockRoots : table[s][q] # "absent" =>
            new[s][q] # "absent"
    BY <1>1, <1>3
  <1> QED
    BY <1>4, <1>5, <1>6, <1>7

\* The duties saveBlocks writes are typed.
LEMMA SaveBlockDutiesType ==
    ASSUME NEW assigned \in DutyTables, NEW table \in BlockTables, NEW data,
           \A s \in Slots \cap DOMAIN data : data[s] \in Roots
    PROVE  SaveBlockDuties(assigned, table, data) \in DutyTables
  <1>1. \A s \in Slots \cap DOMAIN data :
            RecordDuty(assigned[s], table[s], data[s]) \in DutyStatus
    BY StatusOfType DEF RecordDuty, DutyStatus, DutyTables
  <1> QED
    BY <1>1 DEF SaveBlockDuties, DutyTables

\* The assigned saveValidatorProposalAssignments writes are typed.
LEMMA AssignProposersType ==
    ASSUME NEW assigned \in DutyTables, NEW slots
    PROVE  AssignProposers(assigned, slots) \in DutyTables
  BY DEF AssignProposers, DutyTables, DutyStatus

-----------------------------------------------------------------------------
(* The cleanup and UpdateCanonicalBlocks *)

\* A deleted placeholder leaves another row, and no block is deleted.
LEMMA DeleteDuplicatesFacts ==
    ASSUME NEW table \in BlockTables, NEW from, NEW p \in Placeholders
    PROVE  /\ DeleteDuplicates(table, from, p) \in BlockTables
           /\ \A s \in Slots : Present(table[s]) # {} =>
                Present(DeleteDuplicates(table, from, p)[s]) # {}
           /\ \A s \in Slots : \A q \in BlockRoots :
                DeleteDuplicates(table, from, p)[s][q] = table[s][q]
  <1> DEFINE new == DeleteDuplicates(table, from, p)
  <1>1. \A s \in Slots : \/ new[s] = table[s]
                         \/ /\ \E q \in Roots \ {p} : table[s][q] # "absent"
                            /\ new[s] = [table[s] EXCEPT ![p] = "absent"]
    BY DEF DeleteDuplicates
  <1>2. \A s \in Slots : table[s] \in [Roots -> BlockStatus]
    BY DEF BlockTables
  <1>3. \A s \in Slots : new[s] \in [Roots -> BlockStatus]
    <2> HIDE DEF new
    <2> TAKE s \in Slots
    <2>1. "absent" \in BlockStatus
      BY DEF BlockStatus
    <2>2. [table[s] EXCEPT ![p] = "absent"] \in [Roots -> BlockStatus]
      BY <1>2, <2>1
    <2> QED
      BY <1>1, <1>2, <2>2
  <1>4. new \in BlockTables
    BY <1>3 DEF BlockTables, DeleteDuplicates
  <1>5. \A s \in Slots : Present(table[s]) # {} => Present(new[s]) # {}
    BY <1>1, <1>2 DEF Present
  <1>6. \A s \in Slots : \A q \in BlockRoots : new[s][q] = table[s][q]
    <2>1. \A q \in BlockRoots : q \in Roots /\ q # p
      BY RootsDistinct
    <2> QED
      BY <1>1, <1>2, <2>1
  <1> QED
    BY <1>4, <1>5, <1>6

\* Marking changes statuses, never which rows there are.
LEMMA UpdateCanonicalBlocksFacts ==
    ASSUME NEW table \in BlockTables, NEW first, NEW last, NEW seen
    PROVE  /\ UpdateCanonicalBlocks(table, first, last, seen) \in BlockTables
           /\ \A s \in Slots : \A r \in Roots :
                UpdateCanonicalBlocks(table, first, last, seen)[s][r] = "absent"
                    <=> table[s][r] = "absent"
  <1> DEFINE new == UpdateCanonicalBlocks(table, first, last, seen)
  <1>1. \A s \in Slots : \A r \in Roots :
            \/ new[s][r] = table[s][r]
            \/ new[s][r] = "proposed" /\ table[s][r] # "absent"
            \/ new[s][r] = "orphaned" /\ table[s][r] # "absent"
    BY DEF UpdateCanonicalBlocks
  <1>2. \A s \in Slots : \A r \in Roots : new[s][r] \in BlockStatus
    BY <1>1 DEF BlockTables, BlockStatus
  <1>3. new \in BlockTables
    BY <1>2 DEF BlockTables, UpdateCanonicalBlocks
  <1>4. \A s \in Slots : \A r \in Roots : new[s][r] = "absent" <=> table[s][r] = "absent"
    BY <1>1
  <1> QED
    BY <1>3, <1>4

-----------------------------------------------------------------------------
(***************************************************************************)
(* The inductive invariant.  To the types it adds what the steps rely on:  *)
(* the chain has its genesis block, what a saver holds are the slots of    *)
(* its epoch, a check never saw a later finalized epoch than the node has, *)
(* and the two safety properties themselves.                               *)
(***************************************************************************)
SaverHoldsEpoch ==
    \A g \in Savers : savers[g].pc # "idle" =>
        savers[g].data \in [SlotsOf(savers[g].epoch) -> Roots]

CheckSawFinalized == \A c \in Checkers : checks[c].fin <= finalized

IInv ==
    /\ TypeOK
    /\ chain[0] # NoBlock
    /\ SaverHoldsEpoch
    /\ CheckSawFinalized
    /\ ListedEpochComplete
    /\ FlaggedIsFinalized

USE DEF node, tables, loop, vars

-----------------------------------------------------------------------------
(* Types of the helpers *)

\* The types of the constants, gathered from the assumptions.
LEMMA ConstantTypes ==
    /\ MaxSlot \in Nat /\ SlotsPerEpoch \in Nat \ {0} /\ CleanupBack \in Nat
    /\ Main \in BlockRoots
    /\ ChanCap \in Nat /\ Grace \in Nat /\ NoFinalityLimit \in Nat
    /\ FinalityLag \in Nat /\ BlacklistLimit \in Nat /\ OldAge \in Nat
  BY SlotAssumption, ChainSyncAssumption

\* The head is a block at or below the current slot.
LEMMA HeadType ==
    ASSUME TypeOK, chain[0] # NoBlock
    PROVE  /\ HeadSlot \in Slots
           /\ chain[HeadSlot] \in BlockRoots
           /\ HeadEpoch \in Epochs
  <1> DEFINE taken == {s \in 0 .. clock : chain[s] # NoBlock}
  <1>1. clock \in Nat /\ clock <= MaxSlot /\ MaxSlot \in Nat
    BY ConstantTypes DEF TypeOK, Slots
  <1>2. taken \subseteq 0 .. clock /\ taken # {}
    BY <1>1
  <1>3. Max(taken) \in taken
    <2> HIDE DEF taken
    <2> QED
      BY <1>1, <1>2, MaxOfInterval
  <1>4. HeadSlot \in Slots /\ chain[HeadSlot] # NoBlock
    BY <1>1, <1>3 DEF HeadSlot, Slots
  <1>5. chain[HeadSlot] \in BlockRoots
    BY <1>4 DEF TypeOK
  <1> QED
    BY <1>4, <1>5, EpochOfSlotType DEF HeadEpoch

\* The window of a full check starts at an epoch: the subtraction cannot wrap.
LEMMA WindowStartType ==
    ASSUME NEW head \in Epochs, NEW fin \in Epochs
    PROVE  WindowStart(head, fin) \in Epochs
  BY ConstantTypes, LastEpochType DEF WindowStart, Epochs

\* What a full check plans to export are epochs.
LEMMA PlanType ==
    ASSUME NEW db \in SUBSET (Slots \X Roots), NEW seen \in SUBSET Block,
           NEW known \in SUBSET Epochs, NEW head \in Epochs
    PROVE  Differing(db, seen) \cup NotYetExported(known, head) \cup Gaps(known)
             \subseteq Epochs
  <1>1. Differing(db, seen) \subseteq Epochs
    BY EpochOfSlotType DEF Differing, Block
  <1>2. Gaps(known) \subseteq Epochs
    BY DEF Gaps
  <1>3. NotYetExported(known, head) \subseteq Epochs
    <2>1. CASE known = {}
      BY <2>1, LastEpochType DEF NotYetExported, Epochs
    <2>2. CASE known # {}
      <3>1. Max(known) \in Epochs
        BY <2>2, LastEpochType, MaxOfInterval DEF Epochs
      <3>2. 0 \in Epochs
        BY LastEpochType DEF Epochs
      <3>3. Max(known) .. head \subseteq Epochs
        BY <3>1, LastEpochType DEF Epochs
      <3> QED
        BY <2>2, <3>2, <3>3 DEF NotYetExported
    <2> QED
      BY <2>1, <2>2
  <1> QED
    BY <1>1, <1>2, <1>3

\* GetEpochData returns a root for each slot of the epoch.
LEMMA FetchedEpochType ==
    ASSUME TypeOK, NEW e \in Epochs, NEW failed
    PROVE  FetchedEpoch(e, failed) \in [SlotsOf(e) -> Roots]
  <1>1. \A s \in SlotsOf(e) : chain[s] # NoBlock => chain[s] \in BlockRoots
    BY SlotsOfType DEF TypeOK
  <1> QED
    BY <1>1, RootsDistinct DEF FetchedEpoch, Roots

\* What a saver that is not idle holds is data for an epoch.
LEMMA SaverDataType ==
    ASSUME TypeOK, SaverHoldsEpoch, NEW g \in Savers, savers[g].pc # "idle"
    PROVE  /\ savers[g].epoch \in Epochs
           /\ savers[g].data \in EpochData
           /\ DOMAIN savers[g].data = SlotsOf(savers[g].epoch)
           /\ \A s \in DOMAIN savers[g].data : savers[g].data[s] \in Roots
  <1>1. savers[g] \in SaverState
    BY DEF TypeOK
  <1>2. savers[g].epoch \in Epochs /\ savers[g].data \in EpochData
    BY <1>1 DEF SaverState
  <1>3. savers[g].data \in [SlotsOf(savers[g].epoch) -> Roots]
    BY DEF SaverHoldsEpoch
  <1> QED
    BY <1>2, <1>3

\* A saver that ends leaves the others as they are.
LEMMA SaverEndsType ==
    ASSUME TypeOK, SaverHoldsEpoch, NEW g \in Savers, SaverEnds(g)
    PROVE  savers' \in [Savers -> SaverState] /\ SaverHoldsEpoch'
  <1>1. IdleSaver \in SaverState /\ IdleSaver.pc = "idle"
    BY DEF IdleSaver, SaverState
  <1>2. savers' = [savers EXCEPT ![g] = IdleSaver]
    BY DEF SaverEnds
  <1>3. savers' \in [Savers -> SaverState]
    BY <1>1, <1>2 DEF TypeOK
  <1>4. SaverHoldsEpoch'
    BY <1>1, <1>2 DEF SaverHoldsEpoch, TypeOK
  <1> QED
    BY <1>3, <1>4

\* A check that is off is a well-typed check.
LEMMA IdleCheckType == IdleCheck \in CheckState /\ IdleCheck.fin = 0
  <1>1. 0 \in Epochs /\ 0 \in Slots
    BY LastEpochType, ConstantTypes DEF Epochs, Slots
  <1> QED
    BY <1>1 DEF IdleCheck, CheckState

\* A check that ends leaves the others as they are.
LEMMA CheckEndsType ==
    ASSUME TypeOK, CheckSawFinalized, NEW c \in Checkers, CheckEnds(c),
           UNCHANGED finalized
    PROVE  /\ checks' \in [Checkers -> CheckState] /\ running' \in {0, 1}
           /\ CheckSawFinalized'
  <1>1. checks' = [checks EXCEPT ![c] = IdleCheck]
    BY DEF CheckEnds
  <1>2. checks' \in [Checkers -> CheckState]
    BY <1>1, IdleCheckType DEF TypeOK
  <1>3. finalized >= 0
    BY LastEpochType DEF TypeOK, Epochs
  <1>4. CheckSawFinalized'
    BY <1>1, <1>3, IdleCheckType DEF CheckSawFinalized, TypeOK
  <1> QED
    BY <1>2, <1>4 DEF CheckEnds

\* Moving a check to another step changes nothing else of it.
LEMMA GotoType ==
    ASSUME TypeOK, CheckSawFinalized, UNCHANGED finalized,
           NEW c \in Checkers,
           NEW pc \in {"off", "load", "store", "head", "db", "node", "plan",
                       "export", "finalize"},
           Goto(c, pc)
    PROVE  checks' \in [Checkers -> CheckState] /\ CheckSawFinalized'
  <1>1. checks' = [checks EXCEPT ![c].pc = pc]
    BY DEF Goto
  <1>2. \A d \in Checkers : checks[d] \in CheckState
    BY DEF TypeOK
  <1>3. [checks[c] EXCEPT !.pc = pc] \in CheckState
    BY <1>2 DEF CheckState
  <1>4. checks' = [checks EXCEPT ![c] = [checks[c] EXCEPT !.pc = pc]]
    BY <1>1
  <1>5. checks' \in [Checkers -> CheckState]
    BY <1>3, <1>4 DEF TypeOK
  <1>6. \A d \in Checkers : checks'[d].fin = checks[d].fin
    BY <1>2, <1>4 DEF TypeOK, CheckState
  <1> QED
    BY <1>5, <1>6 DEF CheckSawFinalized

UsedState == [reorgs : Nat, faults : Nat, crashes : Nat]

\* Counting one more use of a bound keeps the counters natural.
LEMMA UsedType ==
    ASSUME NEW u \in UsedState, NEW k \in Nat
    PROVE  /\ [u EXCEPT !.reorgs = @ + k] \in UsedState
           /\ [u EXCEPT !.faults = @ + k] \in UsedState
           /\ [u EXCEPT !.crashes = @ + k] \in UsedState
  <1>1. u.reorgs + k \in Nat /\ u.faults + k \in Nat /\ u.crashes + k \in Nat
    BY DEF UsedState
  <1> QED
    BY <1>1 DEF UsedState

-----------------------------------------------------------------------------
(* The initial states *)

\* The tables of a seeded database are typed and complete for epoch 0.
LEMMA SeedType ==
    ASSUME NEW data \in [SlotsOf(0) -> Roots]
    PROVE  /\ SaveBlocks(EmptyBlocks, data) \in BlockTables
           /\ \A s \in SlotsOf(0) : Present(SaveBlocks(EmptyBlocks, data)[s]) # {}
           /\ SaveBlockDuties(EmptyDuties, EmptyBlocks, data) \in DutyTables
  <1>1. EmptyBlocks \in BlockTables
    BY DEF EmptyBlocks, BlockTables, BlockStatus
  <1>2. EmptyDuties \in DutyTables
    BY DEF EmptyDuties, DutyTables, DutyStatus
  <1>3. DOMAIN data = SlotsOf(0) /\ \A s \in SlotsOf(0) : data[s] \in Roots
    OBVIOUS
  <1>4. SlotsOf(0) \subseteq Slots
    BY DEF SlotsOf
  <1>5. SaveBlocks(EmptyBlocks, data) \in BlockTables
    BY <1>1, <1>3, SaveBlocksFacts
  <1>6. \A s \in SlotsOf(0) : Present(SaveBlocks(EmptyBlocks, data)[s]) # {}
    BY <1>1, <1>3, <1>4, SaveBlocksFacts
  <1>7. SaveBlockDuties(EmptyDuties, EmptyBlocks, data) \in DutyTables
    BY <1>1, <1>2, <1>3, SaveBlockDutiesType
  <1> QED
    BY <1>5, <1>6, <1>7

\* The initial tables are typed and satisfy the two safety properties.
LEMMA InitTables ==
    ASSUME Init
    PROVE  /\ blocks \in BlockTables /\ duties \in DutyTables
           /\ epochs \in [Epochs -> {"absent", "open", "finalized"}]
           /\ ListedEpochComplete /\ FlaggedIsFinalized
  <1>0. 0 \in Epochs
    BY LastEpochType DEF Epochs
  <1>1. CASE SeededDb
    <2> DEFINE data == [s \in SlotsOf(0) |-> Root01]
    <2>1. data \in [SlotsOf(0) -> Roots]
      BY RootsDistinct
    <2>2. /\ blocks = SaveBlocks(EmptyBlocks, data)
          /\ duties = SaveBlockDuties(EmptyDuties, EmptyBlocks, data)
          /\ epochs = [e \in Epochs |-> IF e = 0 THEN "finalized" ELSE "absent"]
      BY <1>1 DEF Init
    <2> HIDE DEF data
    <2>3. /\ blocks \in BlockTables /\ duties \in DutyTables
          /\ \A s \in SlotsOf(0) : Present(blocks[s]) # {}
      BY <2>1, <2>2, SeedType
    <2>4. ExportedEpochs \subseteq {0}
      BY <2>2 DEF ExportedEpochs
    <2>5. FlaggedIsFinalized
      BY <2>2 DEF FlaggedIsFinalized, Epochs
    <2> QED
      BY <2>2, <2>3, <2>4, <2>5 DEF ListedEpochComplete
  <1>2. CASE ~ SeededDb
    <2>1. /\ blocks = EmptyBlocks /\ duties = EmptyDuties
          /\ epochs = [e \in Epochs |-> "absent"]
      BY <1>2 DEF Init
    <2>2. blocks \in BlockTables /\ duties \in DutyTables
      BY <2>1 DEF EmptyBlocks, EmptyDuties, BlockTables, BlockStatus,
                  DutyTables, DutyStatus
    <2> QED
      BY <2>1, <2>2 DEF ListedEpochComplete, ExportedEpochs, FlaggedIsFinalized
  <1> QED
    BY <1>1, <1>2

\* The inductive invariant holds initially.
THEOREM InitInvariant == Init => IInv
  <1> SUFFICES ASSUME Init PROVE IInv
    OBVIOUS
  <1>1. 0 \in Slots /\ 0 \in Epochs
    BY ConstantTypes, LastEpochType DEF Slots, Epochs
  <1>2. /\ blocks \in [Slots -> [Roots -> BlockStatus]]
        /\ duties \in [Slots -> DutyStatus]
        /\ epochs \in [Epochs -> {"absent", "open", "finalized"}]
        /\ ListedEpochComplete /\ FlaggedIsFinalized
    BY InitTables DEF BlockTables, DutyTables
  <1>3. chain \in [Slots -> BlockRoots \cup {NoBlock}] /\ chain[0] # NoBlock
    BY <1>1, ConstantTypes, RootsDistinct DEF Init
  <1>4. savers \in [Savers -> SaverState] /\ SaverHoldsEpoch
    BY DEF Init, IdleSaver, SaverState, SaverHoldsEpoch
  <1>5. checks \in [Checkers -> CheckState] /\ CheckSawFinalized
    BY IdleCheckType DEF Init, CheckSawFinalized
  <1>6. clock \in Slots
    BY ConstantTypes, ChainSyncAssumption DEF Init, Slots
  <1>7. newBlocks \in Seq(Block) /\ inHand \in Seq(Block)
    BY DEF Init
  <1>8. TypeOK
    BY <1>1, <1>2, <1>3, <1>4, <1>5, <1>6, <1>7 DEF Init, TypeOK
  <1> QED
    BY <1>2, <1>3, <1>4, <1>5, <1>8 DEF IInv

-----------------------------------------------------------------------------
(* The steps.  A step that leaves the tables alone keeps what is said of     *)
(* them, and a step that leaves the savers or the checks alone keeps theirs. *)

\* What is said of the tables survives a step that leaves them alone.
LEMMA TablesUnchanged ==
    ASSUME IInv, UNCHANGED <<blocks, epochs>>, finalized' >= finalized,
           finalized' \in Epochs
    PROVE  ListedEpochComplete' /\ FlaggedIsFinalized'
  <1>1. ListedEpochComplete'
    BY DEF IInv, ListedEpochComplete, ExportedEpochs
  <1>2. FlaggedIsFinalized'
    BY DEF IInv, TypeOK, FlaggedIsFinalized, Epochs
  <1> QED
    BY <1>1, <1>2

\* Slots, reorganisations and finalization keep the invariant.
LEMMA NodeStepInvariant ==
    ASSUME IInv, NodeStep
    PROVE  IInv'
  <1>1. CASE Tick
    <2>1. clock' \in Slots /\ clock' > 0
      BY <1>1, ConstantTypes DEF IInv, TypeOK, Tick, Slots
    <2>2. chain' \in [Slots -> BlockRoots \cup {NoBlock}] /\ chain'[0] # NoBlock
      <3>1. PICK b \in {Main, NoBlock} : chain' = [chain EXCEPT ![clock + 1] = b]
        BY <1>1 DEF Tick
      <3>2. 0 \in Slots /\ clock + 1 # 0
        BY ConstantTypes DEF IInv, TypeOK, Slots
      <3> QED
        BY <3>1, <3>2, ConstantTypes DEF IInv, TypeOK
    <2>3. announce' \in BOOLEAN
      BY <1>1 DEF IInv, TypeOK, Tick
    <2>4. UNCHANGED <<finalized, tables, loop, running, checks, savers, cache,
                      blacklist, used>>
      BY <1>1 DEF Tick
    <2>5. TypeOK'
      BY <2>1, <2>2, <2>3, <2>4 DEF IInv, TypeOK
    <2>6. SaverHoldsEpoch' /\ CheckSawFinalized'
      BY <2>4 DEF IInv, SaverHoldsEpoch, CheckSawFinalized
    <2>7. ListedEpochComplete' /\ FlaggedIsFinalized'
      BY <2>4 DEF IInv, ListedEpochComplete, FlaggedIsFinalized, ExportedEpochs
    <2> QED
      BY <2>2, <2>5, <2>6, <2>7 DEF IInv
  <1>2. CASE Reorg
    <2>1. PICK s \in FirstReorgable .. clock :
            \E branch \in [s .. clock -> BlockRoots \cup {NoBlock}] :
                chain' = [t \in Slots |->
                            IF t \in s .. clock THEN branch[t] ELSE chain[t]]
      BY <1>2 DEF Reorg
    <2>2. s > 0 /\ 0 \in Slots
      <3>1. finalized \in Nat /\ SlotsPerEpoch \in Nat /\ clock \in Nat
        BY ConstantTypes DEF IInv, TypeOK, Epochs, Slots
      <3>2. finalized * SlotsPerEpoch \in Nat
        BY <3>1
      <3> QED
        BY <3>1, <3>2, ConstantTypes DEF FirstReorgable, Slots
    <2>3. chain' \in [Slots -> BlockRoots \cup {NoBlock}]
      BY <2>1 DEF IInv, TypeOK
    <2>4. chain'[0] # NoBlock
      BY <2>1, <2>2 DEF IInv
    <2>5. used' \in [reorgs : Nat, faults : Nat, crashes : Nat]
      BY <1>2, UsedType DEF Reorg, IInv, TypeOK, UsedState
    <2>6. UNCHANGED <<clock, finalized, tables, loop, running, checks, savers,
                      cache, blacklist>>
      BY <1>2 DEF Reorg
    <2>7. TypeOK'
      BY <1>2, <2>3, <2>5, <2>6 DEF IInv, TypeOK, Reorg
    <2>8. SaverHoldsEpoch' /\ CheckSawFinalized'
      BY <2>6 DEF IInv, SaverHoldsEpoch, CheckSawFinalized
    <2>9. ListedEpochComplete' /\ FlaggedIsFinalized'
      BY <2>6 DEF IInv, ListedEpochComplete, FlaggedIsFinalized, ExportedEpochs
    <2> QED
      BY <2>4, <2>7, <2>8, <2>9 DEF IInv
  <1>3. CASE Finalize
    <2>1. finalized' \in Epochs /\ finalized' >= finalized
      <3>1. HeadEpoch \in Epochs
        BY HeadType DEF IInv
      <3> QED
        BY <1>3, <3>1, ConstantTypes, LastEpochType DEF Finalize, IInv, TypeOK, Epochs
    <2>2. UNCHANGED <<clock, chain, announce, tables, loop, running, checks,
                      savers, cache, blacklist, used>>
      BY <1>3 DEF Finalize
    <2>3. TypeOK'
      BY <2>1, <2>2 DEF IInv, TypeOK
    <2>4. SaverHoldsEpoch'
      BY <2>2 DEF IInv, SaverHoldsEpoch
    <2>5. CheckSawFinalized'
      <3>1. \A c \in Checkers : checks[c].fin \in Nat /\ checks[c].fin <= finalized
        BY DEF IInv, TypeOK, CheckState, CheckSawFinalized, Epochs
      <3> QED
        BY <2>1, <2>2, <3>1 DEF CheckSawFinalized, IInv, TypeOK, Epochs
    <2>6. ListedEpochComplete' /\ FlaggedIsFinalized'
      BY <2>1, <2>2, TablesUnchanged
    <2> QED
      BY <2>2, <2>3, <2>4, <2>5, <2>6 DEF IInv
  <1> QED
    BY <1>1, <1>2, <1>3 DEF NodeStep

\* The event stream and the monitoring loop keep the invariant.
LEMMA LoopStepInvariant ==
    ASSUME IInv, LoopStep
    PROVE  IInv'
  <1>1. CASE PushHead
    <2>1. newBlocks' \in Seq(Block)
      <3>1. <<HeadSlot, chain[HeadSlot]>> \in Block
        BY HeadType DEF IInv, Block
      <3> QED
        BY <1>1, <3>1 DEF PushHead, IInv, TypeOK
    <2>2. UNCHANGED <<clock, chain, finalized, tables, inHand, lastSlot, running,
                      checks, savers, cache, blacklist, used>>
      BY <1>1 DEF PushHead
    <2>3. TypeOK'
      BY <1>1, <2>1, <2>2 DEF PushHead, IInv, TypeOK
    <2> QED
      BY <2>2, <2>3 DEF IInv, SaverHoldsEpoch, CheckSawFinalized,
                        ListedEpochComplete, FlaggedIsFinalized, ExportedEpochs
  <1>2. CASE DropHead
    <2>1. UNCHANGED <<clock, chain, finalized, tables, loop, running, checks,
                      savers, cache, blacklist>>
      BY <1>2 DEF DropHead
    <2>2. used' \in [reorgs : Nat, faults : Nat, crashes : Nat]
      BY <1>2, UsedType DEF DropHead, IInv, TypeOK, UsedState
    <2>3. announce' \in BOOLEAN
      BY <1>2 DEF DropHead
    <2>4. TypeOK'
      BY <2>1, <2>2, <2>3 DEF IInv, TypeOK
    <2> QED
      BY <2>1, <2>4 DEF IInv, SaverHoldsEpoch, CheckSawFinalized,
                        ListedEpochComplete, FlaggedIsFinalized, ExportedEpochs
  <1>3. CASE ReceiveBlock
    <2>1. Head(newBlocks) \in Block /\ Tail(newBlocks) \in Seq(Block)
      BY <1>3 DEF ReceiveBlock, IInv, TypeOK
    <2>2. newBlocks' \in Seq(Block) /\ inHand' \in Seq(Block)
      BY <1>3, <2>1 DEF ReceiveBlock
    <2>3. \/ UNCHANGED checks
          \/ \E c \in Checkers : Goto(c, "load")
      BY <1>3 DEF ReceiveBlock, Goto
    <2>4. checks' \in [Checkers -> CheckState] /\ CheckSawFinalized'
      <3>1. UNCHANGED finalized
        BY <1>3 DEF ReceiveBlock
      <3>2. CASE UNCHANGED checks
        BY <3>1, <3>2 DEF IInv, TypeOK, CheckSawFinalized
      <3>3. CASE \E c \in Checkers : Goto(c, "load")
        BY <3>1, <3>3, GotoType DEF IInv
      <3> QED
        BY <2>3, <3>2, <3>3
    <2>5. UNCHANGED <<node, tables, lastSlot, running, savers, cache, blacklist,
                      used>>
      BY <1>3 DEF ReceiveBlock
    <2>6. TypeOK'
      BY <2>2, <2>4, <2>5 DEF IInv, TypeOK
    <2> QED
      BY <2>4, <2>5, <2>6 DEF IInv, SaverHoldsEpoch, ListedEpochComplete,
                              FlaggedIsFinalized, ExportedEpochs
  <1>4. CASE SaveBlock
    <2> DEFINE data == [s \in {inHand[1][1]} |-> inHand[1][2]]
    <2>1. inHand[1] \in Block
      BY <1>4 DEF SaveBlock, IInv, TypeOK
    <2>2. inHand[1][1] \in Slots /\ inHand[1][2] \in Roots
      BY <2>1, RootsDistinct DEF Block
    <2>3. /\ blocks' = SaveBlocks(blocks, data)
          /\ duties' = SaveBlockDuties(duties, blocks, data)
          /\ lastSlot' = inHand[1][1] /\ inHand' = <<>>
      BY <1>4 DEF SaveBlock
    <2>4. \A s \in Slots \cap DOMAIN data : data[s] \in Roots
      BY <2>2
    <2>5. blocks \in BlockTables /\ duties \in DutyTables
      BY DEF IInv, TypeOK, BlockTables, DutyTables
    <2> HIDE DEF data
    <2>6. /\ blocks' \in BlockTables
          /\ \A s \in Slots : Present(blocks[s]) # {} => Present(blocks'[s]) # {}
      BY <2>3, <2>4, <2>5, SaveBlocksFacts
    <2>7. duties' \in DutyTables
      BY <2>3, <2>4, <2>5, SaveBlockDutiesType
    <2>8. UNCHANGED <<node, epochs, newBlocks, running, checks, savers, cache,
                      blacklist, used>>
      BY <1>4 DEF SaveBlock
    <2>9. TypeOK'
      BY <2>2, <2>3, <2>6, <2>7, <2>8 DEF IInv, TypeOK, BlockTables, DutyTables
    <2>10. ListedEpochComplete'
      BY <2>6, <2>8, SlotsOfType DEF IInv, ListedEpochComplete, ExportedEpochs
    <2> QED
      BY <2>8, <2>9, <2>10 DEF IInv, SaverHoldsEpoch, CheckSawFinalized,
                               FlaggedIsFinalized
  <1>5. CASE SaveBlockFails
    <2>1. inHand[1] \in Block
      BY <1>5 DEF SaveBlockFails, IInv, TypeOK
    <2>2. lastSlot' \in Slots
      BY <1>5, <2>1 DEF SaveBlockFails, Block
    <2>3. UNCHANGED <<node, tables, newBlocks, running, checks, savers, cache,
                      blacklist>>
      BY <1>5 DEF SaveBlockFails
    <2>4. used' \in [reorgs : Nat, faults : Nat, crashes : Nat]
      BY <1>5, UsedType DEF SaveBlockFails, IInv, TypeOK, UsedState
    <2>5. inHand' \in Seq(Block)
      BY <1>5 DEF SaveBlockFails
    <2>6. TypeOK'
      BY <2>2, <2>3, <2>4, <2>5 DEF IInv, TypeOK
    <2> QED
      BY <2>3, <2>6 DEF IInv, SaverHoldsEpoch, CheckSawFinalized,
                        ListedEpochComplete, FlaggedIsFinalized, ExportedEpochs
  <1> QED
    BY <1>1, <1>2, <1>3, <1>4, <1>5 DEF LoopStep

-----------------------------------------------------------------------------
(* The full check *)

\* A step of a check that touches neither the tables nor the savers.
LEMMA OnlyChecksChange ==
    ASSUME IInv, checks' \in [Checkers -> CheckState], CheckSawFinalized',
           running' \in {0, 1}, blacklist' \in [Epochs -> Nat],
           used' \in UsedState,
           UNCHANGED <<node, tables, loop, savers, cache>>
    PROVE  IInv'
  <1>1. TypeOK'
    BY DEF IInv, TypeOK, UsedState
  <1> QED
    BY <1>1 DEF IInv, SaverHoldsEpoch, ListedEpochComplete, FlaggedIsFinalized,
                ExportedEpochs

\* A check that keeps the finalized epoch it saw, or sees the node's.
LEMMA CheckUpdateType ==
    ASSUME TypeOK, CheckSawFinalized, UNCHANGED finalized,
           NEW c \in Checkers, NEW k \in CheckState,
           k.fin = checks[c].fin \/ k.fin = finalized,
           checks' = [checks EXCEPT ![c] = k]
    PROVE  checks' \in [Checkers -> CheckState] /\ CheckSawFinalized'
  <1>1. checks' \in [Checkers -> CheckState]
    BY DEF TypeOK
  <1>2. finalized <= finalized
    BY LastEpochType DEF TypeOK, Epochs
  <1> QED
    BY <1>1, <1>2 DEF CheckSawFinalized, TypeOK

\* An epoch taken off the list of a check leaves the rest of the check as it is.
LEMMA ExportedType ==
    ASSUME TypeOK, CheckSawFinalized, UNCHANGED finalized,
           NEW c \in Checkers, NEW e, Exported(c, e)
    PROVE  checks' \in [Checkers -> CheckState] /\ CheckSawFinalized'
  <1> DEFINE n == [checks[c] EXCEPT !.todo = @ \ {e}]
  <1>1. checks[c] \in CheckState
    BY DEF TypeOK
  <1>2. n \in CheckState /\ n.fin = checks[c].fin
    BY <1>1 DEF CheckState
  <1>3. checks' = [checks EXCEPT ![c] = n]
    BY DEF Exported
  <1> QED
    BY <1>2, <1>3, CheckUpdateType

\* The steps of a full check keep the invariant.
LEMMA CheckStepInvariant ==
    ASSUME IInv, NEW c \in Checkers, CheckStep(c)
    PROVE  IInv'
  <1> DEFINE k == checks[c]
  <1>1. /\ TypeOK /\ CheckSawFinalized /\ k \in CheckState
        /\ checks \in [Checkers -> CheckState]
        /\ running \in {0, 1} /\ blacklist \in [Epochs -> Nat]
        /\ used \in UsedState
    BY DEF IInv, TypeOK, UsedState
  <1>2. CASE LoadRunning(c)
    <2>1. checks' \in [Checkers -> CheckState] /\ CheckSawFinalized'
      BY <1>1, <1>2, GotoType DEF LoadRunning
    <2> QED
      BY <1>1, <1>2, <2>1, OnlyChecksChange DEF LoadRunning
  <1>3. CASE StoreRunning(c)
    <2>1. checks' \in [Checkers -> CheckState] /\ CheckSawFinalized'
      BY <1>1, <1>3, GotoType DEF StoreRunning
    <2> QED
      BY <1>1, <1>3, <2>1, OnlyChecksChange DEF StoreRunning
  <1>4. CASE ReadHead(c)
    <2> DEFINE n == [k EXCEPT !.pc = "db", !.head = HeadEpoch, !.fin = finalized,
                              !.start = WindowStart(HeadEpoch, finalized)]
    <2>1. HeadEpoch \in Epochs /\ finalized \in Epochs
      BY HeadType DEF IInv, TypeOK
    <2>2. WindowStart(HeadEpoch, finalized) \in Epochs
      BY <2>1, WindowStartType
    <2>3. n \in CheckState /\ n.fin = finalized
      BY <1>1, <2>1, <2>2 DEF CheckState
    <2>4. checks' = [checks EXCEPT ![c] = n]
      BY <1>4 DEF ReadHead
    <2>5. checks' \in [Checkers -> CheckState] /\ CheckSawFinalized'
      BY <1>1, <1>4, <2>3, <2>4, CheckUpdateType DEF ReadHead
    <2> QED
      BY <1>1, <1>4, <2>5, OnlyChecksChange DEF ReadHead
  <1>5. CASE ReadDb(c)
    <2> DEFINE rows == PendingAndProposed(blocks, k.start, k.head)
               n == [k EXCEPT !.pc = "node", !.db = rows,
                              !.cursor = k.start * SlotsPerEpoch]
    <2>1. rows \in SUBSET (Slots \X Roots)
      BY DEF PendingAndProposed
    <2>2. k.start * SlotsPerEpoch \in Slots
      BY <1>1, FirstSlotType DEF CheckState
    <2> HIDE DEF rows
    <2>3. n \in CheckState /\ n.fin = k.fin
      BY <1>1, <2>1, <2>2 DEF CheckState
    <2>4. checks' = [checks EXCEPT ![c] = n]
      BY <1>5 DEF ReadDb, rows
    <2>5. checks' \in [Checkers -> CheckState] /\ CheckSawFinalized'
      BY <1>1, <1>5, <2>3, <2>4, CheckUpdateType DEF ReadDb
    <2> QED
      BY <1>1, <1>5, <2>5, OnlyChecksChange DEF ReadDb
  <1>6. CASE ReadNode(c)
    <2> DEFINE last == k.cursor + 1 \notin Slots \/ EpochOfSlot(k.cursor + 1) > k.head
               found == k.seen \cup {k.cursor} \X ({chain[k.cursor]} \ {NoBlock})
               next == IF last THEN 0 ELSE k.cursor + 1
               pc == IF last THEN "plan" ELSE "node"
               n == [k EXCEPT !.pc = pc, !.cursor = next, !.seen = found]
    <2>1. k.cursor \in Slots /\ k.seen \in SUBSET Block
      BY <1>1 DEF CheckState
    <2>2. {chain[k.cursor]} \ {NoBlock} \subseteq BlockRoots
      BY <1>1, <2>1 DEF TypeOK
    <2>3. found \in SUBSET Block
      BY <2>1, <2>2 DEF Block
    <2>4. next \in Slots /\ pc \in {"plan", "node"}
      BY <2>1, ConstantTypes DEF Slots
    <2>5. checks' = [checks EXCEPT ![c] = n]
      BY <1>6 DEF ReadNode
    <2> HIDE DEF found, next, pc
    <2>6. n \in CheckState /\ n.fin = k.fin
      BY <1>1, <2>3, <2>4 DEF CheckState
    <2>7. checks' \in [Checkers -> CheckState] /\ CheckSawFinalized'
      BY <1>1, <1>6, <2>5, <2>6, CheckUpdateType DEF ReadNode
    <2> QED
      BY <1>1, <1>6, <2>7, OnlyChecksChange DEF ReadNode
  <1>7. CASE Plan(c)
    <2> DEFINE todo == Differing(k.db, k.seen) \cup NotYetExported(ExportedEpochs, k.head)
                       \cup Gaps(ExportedEpochs)
               n == [k EXCEPT !.pc = "export", !.todo = todo]
    <2>1. k.db \in SUBSET (Slots \X Roots) /\ k.seen \in SUBSET Block /\ k.head \in Epochs
      BY <1>1 DEF CheckState
    <2>2. ExportedEpochs \in SUBSET Epochs
      BY DEF ExportedEpochs
    <2>3. todo \subseteq Epochs
      <3> HIDE DEF k
      <3> QED
        BY <2>1, <2>2, PlanType
    <2>4. checks' = [checks EXCEPT ![c] = n]
      BY <1>7 DEF Plan
    <2> HIDE DEF todo
    <2>5. n \in CheckState /\ n.fin = k.fin
      BY <1>1, <2>3 DEF CheckState
    <2>6. checks' \in [Checkers -> CheckState] /\ CheckSawFinalized'
      BY <1>1, <1>7, <2>4, <2>5, CheckUpdateType DEF Plan
    <2> QED
      BY <1>1, <1>7, <2>6, OnlyChecksChange DEF Plan
  <1>8. CASE ExportEpoch(c)
    <2>1. PICK e \in Epochs, g \in Savers,
               failed \in {{}} \cup {{s} : s \in Slots} :
            /\ savers' = [savers EXCEPT ![g] =
                    [pc |-> "waiting", epoch |-> e,
                     data |-> FetchedEpoch(e, failed)]]
            /\ Exported(c, e)
            /\ used' = [used EXCEPT !.faults = @ + Cardinality(failed)]
            /\ UNCHANGED <<node, tables, loop, running, cache, blacklist>>
      BY <1>8 DEF ExportEpoch
    <2> DEFINE data == FetchedEpoch(e, failed)
               n == [k EXCEPT !.todo = @ \ {e}]
    <2>2. data \in [SlotsOf(e) -> Roots] /\ data \in EpochData
      BY <1>1, FetchedEpochType DEF EpochData
    <2> HIDE DEF data
    <2>3. savers' \in [Savers -> SaverState] /\ SaverHoldsEpoch'
      <3>1. [pc |-> "waiting", epoch |-> e, data |-> data] \in SaverState
        BY <2>2 DEF SaverState
      <3>2. savers' = [savers EXCEPT ![g] =
                            [pc |-> "waiting", epoch |-> e, data |-> data]]
        BY <2>1 DEF data
      <3>3. savers' \in [Savers -> SaverState]
        BY <1>1, <3>1, <3>2 DEF TypeOK
      <3> QED
        BY <1>1, <2>2, <3>2, <3>3 DEF IInv, TypeOK, SaverHoldsEpoch
    <2>4. n \in CheckState /\ n.fin = k.fin
      BY <1>1 DEF CheckState
    <2>5. checks' = [checks EXCEPT ![c] = n]
      BY <2>1 DEF Exported
    <2>6. checks' \in [Checkers -> CheckState] /\ CheckSawFinalized'
      BY <1>1, <2>1, <2>4, <2>5, CheckUpdateType
    <2>7. used' \in UsedState
      <3>1. IsFiniteSet(failed)
        BY FS_EmptySet, FS_Singleton
      <3>2. Cardinality(failed) \in Nat
        BY <3>1, FS_CardinalityType
      <3> QED
        BY <1>1, <2>1, <3>2, UsedType
    <2>8. TypeOK'
      BY <1>1, <2>1, <2>3, <2>6, <2>7 DEF TypeOK, UsedState
    <2> QED
      BY <2>1, <2>3, <2>6, <2>8
      DEF IInv, ListedEpochComplete, FlaggedIsFinalized, ExportedEpochs
  <1>9. CASE SkipBlacklisted(c)
    <2>1. PICK e \in Epochs : Exported(c, e)
      BY <1>9 DEF SkipBlacklisted
    <2>2. checks' \in [Checkers -> CheckState] /\ CheckSawFinalized'
      BY <1>1, <1>9, <2>1, ExportedType DEF SkipBlacklisted
    <2> QED
      BY <1>1, <1>9, <2>2, OnlyChecksChange DEF SkipBlacklisted
  <1>10. CASE MarkOrphanedBlocks(c)
    <2>1. blocks' = UpdateCanonicalBlocks(blocks, k.start, k.head, k.seen)
      BY <1>10 DEF MarkOrphanedBlocks
    <2>2. blocks \in BlockTables
      BY <1>1 DEF TypeOK, BlockTables
    <2>3. /\ blocks' \in BlockTables
          /\ \A s \in Slots : \A r \in Roots :
                blocks'[s][r] = "absent" <=> blocks[s][r] = "absent"
      BY <2>1, <2>2, UpdateCanonicalBlocksFacts
    <2>4. \A s \in Slots : Present(blocks'[s]) = Present(blocks[s])
      BY <2>3 DEF Present
    <2>5. UNCHANGED <<node, duties, epochs, loop, running, savers, cache,
                      blacklist, used>>
      BY <1>10 DEF MarkOrphanedBlocks
    <2>6. checks' \in [Checkers -> CheckState] /\ CheckSawFinalized'
      BY <1>1, <1>10, GotoType DEF MarkOrphanedBlocks
    <2>7. TypeOK'
      BY <1>1, <2>3, <2>5, <2>6 DEF TypeOK, BlockTables
    <2>8. ListedEpochComplete'
      BY <2>4, <2>5, SlotsOfType DEF IInv, ListedEpochComplete, ExportedEpochs
    <2> QED
      BY <2>5, <2>6, <2>7, <2>8 DEF IInv, SaverHoldsEpoch, FlaggedIsFinalized
  <1>11. CASE UpdateEpochFinalization(c)
    <2>1. \A e \in Epochs : \/ epochs'[e] = epochs[e]
                            \/ /\ epochs'[e] = "finalized"
                               /\ epochs[e] # "absent" /\ e <= k.fin
      BY <1>11 DEF UpdateEpochFinalization
    <2>2. epochs' \in [Epochs -> {"absent", "open", "finalized"}]
      BY <1>1, <1>11, <2>1 DEF UpdateEpochFinalization, TypeOK
    <2>3. UNCHANGED <<node, blocks, duties, loop, savers, cache, blacklist, used>>
      BY <1>11 DEF UpdateEpochFinalization
    <2>4. /\ checks' \in [Checkers -> CheckState] /\ running' \in {0, 1}
          /\ CheckSawFinalized'
      BY <1>1, <1>11, <2>3, CheckEndsType DEF UpdateEpochFinalization
    <2>5. TypeOK'
      BY <1>1, <2>2, <2>3, <2>4 DEF TypeOK
    <2>6. ListedEpochComplete'
      <3>1. ExportedEpochs' \subseteq ExportedEpochs
        BY <2>1 DEF ExportedEpochs
      <3> QED
        BY <2>3, <3>1 DEF IInv, ListedEpochComplete
    <2>7. FlaggedIsFinalized'
      <3>1. k.fin \in Nat /\ finalized \in Nat /\ k.fin <= finalized
        BY <1>1 DEF CheckSawFinalized, CheckState, TypeOK, Epochs
      <3>2. \A e \in Epochs : e \in Nat /\ (e <= k.fin => e <= finalized)
        BY <3>1 DEF Epochs
      <3> QED
        BY <2>1, <2>3, <3>2 DEF IInv, FlaggedIsFinalized
    <2> QED
      BY <2>3, <2>4, <2>5, <2>6, <2>7 DEF IInv, SaverHoldsEpoch
  <1> QED
    BY <1>2, <1>3, <1>4, <1>5, <1>6, <1>7, <1>8, <1>9, <1>10, <1>11 DEF CheckStep

\* The failures of a full check keep the invariant.
LEMMA CheckFaultInvariant ==
    ASSUME IInv, NEW c \in Checkers, CheckFault(c)
    PROVE  IInv'
  <1>1. /\ TypeOK /\ CheckSawFinalized
        /\ running \in {0, 1} /\ blacklist \in [Epochs -> Nat]
        /\ used \in UsedState
    BY DEF IInv, TypeOK, UsedState
  <1>2. CASE RequestFails(c)
    <2>1. /\ checks' \in [Checkers -> CheckState] /\ running' \in {0, 1}
          /\ CheckSawFinalized'
      BY <1>1, <1>2, CheckEndsType DEF RequestFails
    <2>2. used' \in UsedState
      BY <1>1, <1>2, UsedType DEF RequestFails
    <2> QED
      BY <1>1, <1>2, <2>1, <2>2, OnlyChecksChange DEF RequestFails
  <1>3. CASE ExportFails(c)
    <2>1. PICK e \in Epochs :
            /\ Exported(c, e)
            /\ blacklist' \in {blacklist, [blacklist EXCEPT ![e] = @ + 1]}
            /\ used' = [used EXCEPT !.faults = @ + 1]
            /\ UNCHANGED <<node, tables, loop, running, savers, cache>>
      BY <1>3 DEF ExportFails
    <2>2. checks' \in [Checkers -> CheckState] /\ CheckSawFinalized'
      BY <1>1, <2>1, ExportedType
    <2>3. blacklist' \in [Epochs -> Nat]
      BY <1>1, <2>1
    <2>4. used' \in UsedState
      BY <1>1, <2>1, UsedType
    <2> QED
      BY <1>1, <2>1, <2>2, <2>3, <2>4, OnlyChecksChange
  <1>4. CASE MarkFails(c)
    <2>1. checks' \in [Checkers -> CheckState] /\ CheckSawFinalized'
      BY <1>1, <1>4, GotoType DEF MarkFails
    <2>2. used' \in UsedState
      BY <1>1, <1>4, UsedType DEF MarkFails
    <2> QED
      BY <1>1, <1>4, <2>1, <2>2, OnlyChecksChange DEF MarkFails
  <1> QED
    BY <1>2, <1>3, <1>4 DEF CheckFault

-----------------------------------------------------------------------------
(* The save goroutines and the crash *)

\* A step that only ends a saver, whatever it counts or caches.
LEMMA SaverOnlyEnds ==
    ASSUME IInv, NEW g \in Savers, SaverEnds(g), used' \in UsedState,
           UNCHANGED <<node, tables, loop, running, checks, cache, blacklist>>
    PROVE  IInv'
  <1>1. savers' \in [Savers -> SaverState] /\ SaverHoldsEpoch'
    BY SaverEndsType DEF IInv
  <1>2. TypeOK'
    BY <1>1 DEF IInv, TypeOK, UsedState
  <1> QED
    BY <1>1, <1>2 DEF IInv, CheckSawFinalized, ListedEpochComplete,
                      FlaggedIsFinalized, ExportedEpochs

\* A saver that goes on keeps its epoch and its data.
LEMMA SaverMovesType ==
    ASSUME TypeOK, SaverHoldsEpoch, NEW g \in Savers, savers[g].pc # "idle",
           NEW pc \in {"waiting", "delete00", "delete01"},
           savers' = [savers EXCEPT ![g].pc = pc]
    PROVE  savers' \in [Savers -> SaverState] /\ SaverHoldsEpoch'
  <1> DEFINE n == [savers[g] EXCEPT !.pc = pc]
  <1>1. savers[g] \in [pc : {"waiting", "delete00", "delete01"}, epoch : Epochs,
                       data : EpochData]
    BY DEF TypeOK, SaverState
  <1>2. n \in SaverState /\ n.epoch = savers[g].epoch /\ n.data = savers[g].data
    BY <1>1 DEF SaverState
  <1>3. savers' = [savers EXCEPT ![g] = n]
    OBVIOUS
  <1>4. savers' \in [Savers -> SaverState]
    BY <1>2, <1>3 DEF TypeOK
  <1> QED
    BY <1>2, <1>3, <1>4 DEF SaverHoldsEpoch, TypeOK

\* The steps of SaveEpoch keep the invariant.
LEMMA SaverStepInvariant ==
    ASSUME IInv, NEW g \in Savers, SaverStep(g)
    PROVE  IInv'
  <1> DEFINE e == savers[g].epoch
             data == savers[g].data
  <1>1. /\ TypeOK /\ SaverHoldsEpoch /\ used \in UsedState
        /\ blocks \in BlockTables /\ duties \in DutyTables
    BY DEF IInv, TypeOK, UsedState, BlockTables, DutyTables
  <1>2. CASE SkipUnchanged(g)
    BY <1>1, <1>2, SaverOnlyEnds DEF SkipUnchanged
  <1>3. CASE SaveEpoch(g)
    <2>1. savers[g].pc = "waiting"
      BY <1>3 DEF SaveEpoch
    <2>2. /\ blocks' = SaveBlocks(blocks, data)
          /\ duties' = AssignProposers(SaveBlockDuties(duties, blocks, data),
                                       SlotsOf(e))
          /\ epochs' = [epochs EXCEPT ![e] = IF @ = "absent" THEN "open" ELSE @]
          /\ savers' = [savers EXCEPT ![g].pc = "delete00"]
          /\ UNCHANGED <<node, loop, running, checks, cache, blacklist, used>>
      BY <1>3 DEF SaveEpoch
    <2>3. /\ e \in Epochs /\ DOMAIN data = SlotsOf(e)
          /\ \A s \in DOMAIN data : data[s] \in Roots
      BY <1>1, <2>1, SaverDataType
    <2>4. savers' \in [Savers -> SaverState] /\ SaverHoldsEpoch'
      BY <1>1, <2>1, <2>2, SaverMovesType
    <2> HIDE DEF e, data
    <2>5. SlotsOf(e) \subseteq Slots
      BY <2>3, SlotsOfType
    <2>6. /\ blocks' \in BlockTables
          /\ \A s \in SlotsOf(e) : Present(blocks'[s]) # {}
          /\ \A s \in Slots : Present(blocks[s]) # {} => Present(blocks'[s]) # {}
      BY <1>1, <2>2, <2>3, <2>5, SaveBlocksFacts
    <2>7. duties' \in DutyTables
      BY <1>1, <2>2, <2>3, SaveBlockDutiesType, AssignProposersType
    <2>8. /\ epochs' \in [Epochs -> {"absent", "open", "finalized"}]
          /\ \A f \in Epochs : epochs'[f] = "finalized" => epochs[f] = "finalized"
          /\ \A f \in Epochs \ {e} : epochs'[f] = epochs[f]
      BY <1>1, <2>2, <2>3 DEF TypeOK
    <2>9. TypeOK'
      BY <1>1, <2>2, <2>4, <2>6, <2>7, <2>8 DEF TypeOK, BlockTables, DutyTables
    <2>10. ListedEpochComplete'
      <3> SUFFICES ASSUME NEW f \in Epochs, epochs'[f] # "absent",
                          NEW s \in SlotsOf(f)
                   PROVE  Present(blocks'[s]) # {}
        BY DEF ListedEpochComplete, ExportedEpochs
      <3>1. CASE f = e
        BY <2>6, <3>1
      <3>2. CASE f # e
        <4>1. Present(blocks[s]) # {} /\ s \in Slots
          BY <2>8, <3>2, SlotsOfType DEF IInv, ListedEpochComplete, ExportedEpochs
        <4> QED
          BY <2>6, <4>1
      <3> QED
        BY <3>1, <3>2
    <2>11. FlaggedIsFinalized'
      BY <2>2, <2>8 DEF IInv, FlaggedIsFinalized
    <2> QED
      BY <2>2, <2>4, <2>9, <2>10, <2>11 DEF IInv, CheckSawFinalized
  <1>4. CASE CleanupRefused(g)
    BY <1>1, <1>4, SaverOnlyEnds DEF CleanupRefused
  <1>5. CASE DeleteScheduled(g)
    <2>1. /\ savers[g].pc = "delete00"
          /\ blocks' = DeleteDuplicates(blocks, e - CleanupBack, Root00)
          /\ savers' = [savers EXCEPT ![g].pc = "delete01"]
          /\ UNCHANGED <<node, duties, epochs, loop, running, checks, cache,
                         blacklist, used>>
      BY <1>5 DEF DeleteScheduled
    <2>2. savers' \in [Savers -> SaverState] /\ SaverHoldsEpoch'
      BY <1>1, <2>1, SaverMovesType
    <2>3. /\ blocks' \in BlockTables
          /\ \A s \in Slots : Present(blocks[s]) # {} => Present(blocks'[s]) # {}
      BY <1>1, <2>1, DeleteDuplicatesFacts DEF Placeholders
    <2>4. TypeOK'
      BY <1>1, <2>1, <2>2, <2>3 DEF TypeOK, BlockTables
    <2>5. ListedEpochComplete'
      BY <2>1, <2>3, SlotsOfType DEF IInv, ListedEpochComplete, ExportedEpochs
    <2> QED
      BY <2>1, <2>2, <2>4, <2>5 DEF IInv, CheckSawFinalized, FlaggedIsFinalized
  <1>6. CASE DeleteMissed(g)
    <2>1. /\ savers[g].pc # "idle"
          /\ blocks' = DeleteDuplicates(blocks, e - CleanupBack, Root01)
          /\ cache' = [cache EXCEPT ![e] = data]
          /\ SaverEnds(g)
          /\ UNCHANGED <<node, duties, epochs, loop, running, checks, blacklist,
                         used>>
      BY <1>6 DEF DeleteMissed
    <2>2. savers' \in [Savers -> SaverState] /\ SaverHoldsEpoch'
      BY <1>1, <2>1, SaverEndsType
    <2>3. /\ blocks' \in BlockTables
          /\ \A s \in Slots : Present(blocks[s]) # {} => Present(blocks'[s]) # {}
      BY <1>1, <2>1, DeleteDuplicatesFacts DEF Placeholders
    <2>4. cache' \in [Epochs -> EpochData \cup {<<>>}]
      BY <1>1, <2>1, SaverDataType DEF TypeOK
    <2>5. TypeOK'
      BY <1>1, <2>1, <2>2, <2>3, <2>4 DEF TypeOK, BlockTables
    <2>6. ListedEpochComplete'
      BY <2>1, <2>3, SlotsOfType DEF IInv, ListedEpochComplete, ExportedEpochs
    <2> QED
      BY <2>1, <2>2, <2>5, <2>6 DEF IInv, CheckSawFinalized, FlaggedIsFinalized
  <1> QED
    BY <1>2, <1>3, <1>4, <1>5, <1>6 DEF SaverStep

\* A failing save keeps the invariant.
LEMMA SaverFailsInvariant ==
    ASSUME IInv, NEW g \in Savers, SaverFails(g)
    PROVE  IInv'
  <1>1. used' \in UsedState
    BY UsedType DEF SaverFails, IInv, TypeOK, UsedState
  <1> QED
    BY <1>1, SaverOnlyEnds DEF SaverFails

\* A crash forgets the memory of the exporter and keeps the tables.
LEMMA CrashInvariant ==
    ASSUME IInv, Crash
    PROVE  IInv'
  <1>1. savers' \in [Savers -> SaverState] /\ SaverHoldsEpoch'
    BY DEF Crash, IdleSaver, SaverState, SaverHoldsEpoch
  <1>2. checks' \in [Checkers -> CheckState] /\ CheckSawFinalized'
    <2>1. 0 <= finalized
      BY DEF IInv, TypeOK, Epochs
    <2> QED
      BY <2>1, IdleCheckType DEF Crash, CheckSawFinalized
  <1>3. UNCHANGED <<clock, chain, finalized, tables>>
    BY DEF Crash
  <1>4. /\ announce' \in BOOLEAN /\ running' \in {0, 1} /\ lastSlot' \in Slots
        /\ newBlocks' \in Seq(Block) /\ inHand' \in Seq(Block)
        /\ cache' \in [Epochs -> EpochData \cup {<<>>}]
        /\ blacklist' \in [Epochs -> Nat]
    <2>1. newBlocks' = <<>> /\ inHand' = <<>>
      BY DEF Crash
    <2>2. newBlocks' \in Seq(Block) /\ inHand' \in Seq(Block)
      BY <2>1
    <2>3. announce' \in BOOLEAN
      BY DEF Crash, IInv, TypeOK
    <2>4. running' \in {0, 1} /\ lastSlot' \in Slots
      BY ConstantTypes DEF Crash, Slots
    <2>5. cache' \in [Epochs -> EpochData \cup {<<>>}]
      BY DEF Crash
    <2>6. blacklist' \in [Epochs -> Nat]
      BY DEF Crash
    <2> QED
      BY <2>2, <2>3, <2>4, <2>5, <2>6
  <1>5. used' \in [reorgs : Nat, faults : Nat, crashes : Nat]
    BY UsedType DEF Crash, IInv, TypeOK, UsedState
  <1>6. TypeOK'
    BY <1>1, <1>2, <1>3, <1>4, <1>5 DEF IInv, TypeOK
  <1> QED
    BY <1>1, <1>2, <1>3, <1>6
    DEF IInv, ListedEpochComplete, FlaggedIsFinalized, ExportedEpochs

-----------------------------------------------------------------------------
(* The theorems *)

\* Every step of the exporter and of its environment keeps the invariant.
THEOREM StepInvariant == IInv /\ [Next]_vars => IInv'
  <1> SUFFICES ASSUME IInv, [Next]_vars PROVE IInv'
    OBVIOUS
  <1>1. CASE NodeStep
    BY <1>1, NodeStepInvariant
  <1>2. CASE LoopStep
    BY <1>2, LoopStepInvariant
  <1>3. CASE \E c \in Checkers : CheckStep(c) \/ CheckFault(c)
    BY <1>3, CheckStepInvariant, CheckFaultInvariant
  <1>4. CASE \E g \in Savers : SaverStep(g) \/ SaverFails(g)
    BY <1>4, SaverStepInvariant, SaverFailsInvariant
  <1>5. CASE Crash
    BY <1>5, CrashInvariant
  <1>6. CASE UNCHANGED vars
    BY <1>6 DEF IInv, TypeOK, SaverHoldsEpoch, CheckSawFinalized,
                ListedEpochComplete, FlaggedIsFinalized, ExportedEpochs
  <1> QED
    BY <1>1, <1>2, <1>3, <1>4, <1>5, <1>6 DEF Next

\* The inductive invariant holds in every reachable state.
THEOREM Invariance == Spec => []IInv
  BY InitInvariant, StepInvariant, PTL DEF Spec

\* Every variable stays in its type.
THEOREM TypeCorrect == Spec => []TypeOK
  <1>1. IInv => TypeOK
    BY DEF IInv
  <1> QED
    BY <1>1, Invariance, PTL

\* An epoch that the table epochs lists has a row for each of its slots.
THEOREM ListedEpochsAreComplete == Spec => []ListedEpochComplete
  <1>1. IInv => ListedEpochComplete
    BY DEF IInv
  <1> QED
    BY <1>1, Invariance, PTL

\* An epoch flagged finalized is finalized for the node.
THEOREM FlaggedEpochsAreFinalized == Spec => []FlaggedIsFinalized
  <1>1. IInv => FlaggedIsFinalized
    BY DEF IInv
  <1> QED
    BY <1>1, Invariance, PTL

-----------------------------------------------------------------------------
(* What no step does *)

\* The step predicate of KeepsBlocksAndFlags.
Kept ==
    /\ \A s \in Slots : \A r \in BlockRoots :
            blocks[s][r] # "absent" => blocks'[s][r] # "absent"
    /\ \A e \in Epochs : epochs[e] = "finalized" => epochs'[e] = "finalized"

\* The steps that write the tables keep every block and every flag.
LEMMA StepKeeps == IInv /\ [Next]_vars => Kept
  <1> SUFFICES ASSUME IInv, [Next]_vars PROVE Kept
    OBVIOUS
  <1>1. blocks \in BlockTables /\ epochs \in [Epochs -> {"absent", "open", "finalized"}]
    BY DEF IInv, TypeOK, BlockTables
  <1>2. CASE UNCHANGED <<blocks, epochs>>
    BY <1>2 DEF Kept
  <1>3. CASE SaveBlock
    <2> DEFINE data == [s \in {inHand[1][1]} |-> inHand[1][2]]
    <2>1. inHand[1] \in Block
      BY <1>3 DEF SaveBlock, IInv, TypeOK
    <2>2. \A s \in Slots \cap DOMAIN data : data[s] \in Roots
      BY <2>1, RootsDistinct DEF Block
    <2>3. blocks' = SaveBlocks(blocks, data) /\ UNCHANGED epochs
      BY <1>3 DEF SaveBlock
    <2> HIDE DEF data
    <2> QED
      BY <1>1, <2>2, <2>3, SaveBlocksFacts DEF Kept
  <1>4. ASSUME NEW c \in Checkers, MarkOrphanedBlocks(c) PROVE Kept
    <2>1. /\ blocks' = UpdateCanonicalBlocks(blocks, checks[c].start,
                                             checks[c].head, checks[c].seen)
          /\ UNCHANGED epochs
      BY <1>4 DEF MarkOrphanedBlocks
    <2>2. \A s \in Slots : \A r \in Roots :
            blocks'[s][r] = "absent" <=> blocks[s][r] = "absent"
      BY <1>1, <2>1, UpdateCanonicalBlocksFacts
    <2> QED
      BY <2>1, <2>2, RootsDistinct DEF Kept
  <1>5. ASSUME NEW c \in Checkers, UpdateEpochFinalization(c) PROVE Kept
    BY <1>5 DEF UpdateEpochFinalization, Kept
  <1>6. ASSUME NEW g \in Savers, SaveEpoch(g) PROVE Kept
    <2>1. savers[g].pc # "idle" /\ TypeOK /\ SaverHoldsEpoch
      BY <1>6 DEF SaveEpoch, IInv
    <2>2. /\ savers[g].epoch \in Epochs
          /\ \A s \in DOMAIN savers[g].data : savers[g].data[s] \in Roots
      BY <2>1, SaverDataType
    <2>3. /\ blocks' = SaveBlocks(blocks, savers[g].data)
          /\ epochs' = [epochs EXCEPT ![savers[g].epoch] =
                            IF @ = "absent" THEN "open" ELSE @]
      BY <1>6 DEF SaveEpoch
    <2>4. \A s \in Slots : \A r \in BlockRoots :
            blocks[s][r] # "absent" => blocks'[s][r] # "absent"
      BY <1>1, <2>2, <2>3, SaveBlocksFacts
    <2>5. \A e \in Epochs : epochs[e] = "finalized" => epochs'[e] = "finalized"
      BY <1>1, <2>2, <2>3
    <2> QED
      BY <2>4, <2>5 DEF Kept
  <1>7. ASSUME NEW g \in Savers, NEW p \in Placeholders, UNCHANGED epochs,
               blocks' = DeleteDuplicates(blocks, savers[g].epoch - CleanupBack, p)
        PROVE  Kept
    BY <1>1, <1>7, DeleteDuplicatesFacts DEF Kept
  <1>8. \/ UNCHANGED <<blocks, epochs>>
        \/ SaveBlock
        \/ \E c \in Checkers : MarkOrphanedBlocks(c) \/ UpdateEpochFinalization(c)
        \/ \E g \in Savers : SaveEpoch(g) \/ DeleteScheduled(g) \/ DeleteMissed(g)
    <2>1. NodeStep \/ Crash => UNCHANGED <<blocks, epochs>>
      BY DEF NodeStep, Tick, Reorg, Finalize, Crash
    <2>2. LoopStep => SaveBlock \/ UNCHANGED <<blocks, epochs>>
      BY DEF LoopStep, PushHead, DropHead, ReceiveBlock, SaveBlockFails
    <2>3. ASSUME NEW c \in Checkers, CheckStep(c) \/ CheckFault(c)
          PROVE  \/ MarkOrphanedBlocks(c) \/ UpdateEpochFinalization(c)
                 \/ UNCHANGED <<blocks, epochs>>
      BY <2>3 DEF CheckStep, CheckFault, LoadRunning, StoreRunning, ReadHead,
                  ReadDb, ReadNode, Plan, ExportEpoch, SkipBlacklisted,
                  RequestFails, ExportFails, MarkFails
    <2>4. ASSUME NEW g \in Savers, SaverStep(g) \/ SaverFails(g)
          PROVE  \/ SaveEpoch(g) \/ DeleteScheduled(g) \/ DeleteMissed(g)
                 \/ UNCHANGED <<blocks, epochs>>
      BY <2>4 DEF SaverStep, SaverFails, SkipUnchanged, CleanupRefused
    <2>5. UNCHANGED vars => UNCHANGED <<blocks, epochs>>
      OBVIOUS
    <2> QED
      BY <2>1, <2>2, <2>3, <2>4, <2>5 DEF Next
  <1>9. ASSUME NEW g \in Savers, DeleteScheduled(g) \/ DeleteMissed(g) PROVE Kept
    BY <1>7, <1>9 DEF DeleteScheduled, DeleteMissed, Placeholders
  <1> QED
    BY <1>2, <1>3, <1>4, <1>5, <1>6, <1>8, <1>9

\* No step deletes a block or takes a finalized flag back.
THEOREM BlocksAndFlagsAreKept == Spec => KeepsBlocksAndFlags
  <1>1. IInv /\ [Next]_vars => [Kept]_vars
    BY StepKeeps
  <1>2. Spec => [][Kept]_vars
    BY <1>1, Invariance, PTL DEF Spec
  <1> QED
    BY <1>2, PTL DEF KeepsBlocksAndFlags, Kept
=============================================================================
