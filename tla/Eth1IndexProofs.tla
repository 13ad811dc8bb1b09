-------------------------- MODULE Eth1IndexProofs --------------------------
(***************************************************************************)
(* Proofs about Eth1Index for every set of branches, every depth, offset   *)
(* and concurrency and every bound, whenever the node moves.               *)
(***************************************************************************)
EXTENDS Eth1Index, NumberLemmas

Indexing == pc \in {"blocks", "data"}

\* Only an errgroup has goroutines, and a goroutine that ended holds no block.
WorkInErrgroup ==
    /\ ~Indexing => pending = {}
    /\ \A h \in Heights : got[h] # None => h \in pending

\* The loops of HandleChainReorgs stay at or below the last block they read.
CursorInRange ==
    pc \in {"compare", "delete", "unlink"} => cursor \in 1 .. latest

\* A goroutine of IndexFromBigtable that holds a block has saved its keys.
GotHasKeys ==
    pc = "data" => \A h \in Heights : got[h] # None => got[h] \in keyRows

(***************************************************************************)
(* The inductive invariant: RowsHaveKeys is kept by a write of data rows   *)
(* because of GotHasKeys, and GotHasKeys holds when IndexFromBigtable      *)
(* starts because no goroutine of IndexFromNode is left.                   *)
(***************************************************************************)
IInv ==
    /\ TypeOK
    /\ WorkInErrgroup
    /\ CursorInRange
    /\ GotHasKeys
    /\ RowsHaveKeys

USE DEF node, tables, work, vars

-----------------------------------------------------------------------------
(* Heights *)

Top == Max({Len(p) : p \in Branches})

\* The longest branch bounds the heights, and a height of a branch is a height.
LEMMA HeightsType ==
    /\ Top \in Nat
    /\ Heights = 1 .. Top
    /\ \A p \in Branches : Len(p) \in Nat /\ Len(p) <= Top /\ DOMAIN p = 1 .. Len(p)
    /\ \E p \in Branches : Len(p) = Top
  <1> DEFINE lens == {Len(p) : p \in Branches}
             f == [p \in Branches |-> Len(p)]
  <1>1. \A p \in Branches : Len(p) \in Nat /\ DOMAIN p = 1 .. Len(p)
    BY Eth1Assumption
  <1>2. IsFiniteSet(lens)
    <2>1. f \in Surjection(Branches, lens)
      BY DEF Surjection
    <2> QED
      BY <2>1, FS_Surjection, Eth1Assumption
  <1>3. lens \subseteq Int /\ lens # {}
    BY <1>1, Eth1Assumption
  <1>4. \E x \in lens : \A y \in lens : x >= y
    <2> HIDE DEF lens
    <2> QED
      BY <1>2, <1>3, GreatestElement
  <1>5. Max(lens) \in lens /\ \A y \in lens : Max(lens) >= y
    <2> HIDE DEF lens
    <2> QED
      BY <1>4 DEF Max
  <1>6. Top = Max(lens)
    BY DEF Top
  <1>7. Top \in Nat
    BY <1>1, <1>5, <1>6
  <1>8. \A p \in Branches : Len(p) <= Top
    <2> TAKE p \in Branches
    <2>1. Max(lens) >= Len(p)
      BY <1>5
    <2> QED
      BY <2>1, <1>1, <1>6, <1>7
  <1>9. \E p \in Branches : Len(p) = Top
    BY <1>5, <1>6
  <1> QED
    BY <1>1, <1>7, <1>8, <1>9 DEF Heights, Top

\* The head is a height, and the chain has a block at every height below it.
LEMMA HeadType ==
    ASSUME TypeOK
    PROVE  /\ head \in Heights
           /\ \A h \in Heights : h <= head => branch[h] \in Blocks
  <1>1. head \in 1 .. Len(branch) /\ Len(branch) \in Nat /\ Len(branch) <= Top
    BY HeightsType DEF TypeOK
  <1>2. \A h \in 1 .. Len(branch) : branch[h] \in Blocks
    BY Eth1Assumption DEF TypeOK
  <1> QED
    BY <1>1, <1>2, HeightsType

\* The last block of a table is a height or zero.
LEMMA LastBlocksType ==
    /\ LastBlockInBlocksTable \in Heights \cup {0}
    /\ LastBlockInDataTable \in Heights \cup {0}
  <1> DEFINE full == {0} \cup {h \in Heights : blocks[h] # None}
             keyed == {0} \cup {h \in Heights : data[HeightKey(h)] # None}
  <1>1. Top \in Nat /\ full \subseteq 0 .. Top /\ keyed \subseteq 0 .. Top
    BY HeightsType
  <1>2. Max(full) \in full /\ Max(keyed) \in keyed
    <2>1. full # {} /\ keyed # {}
      OBVIOUS
    <2> HIDE DEF full, keyed
    <2> QED
      BY <1>1, <2>1, MaxOfInterval
  <1> QED
    BY <1>2 DEF LastBlockInBlocksTable, LastBlockInDataTable

-----------------------------------------------------------------------------
(* The initial state *)

\* The table starts with the first block of the chain, whose keys are saved.
THEOREM InitInvariant == Init => IInv
  <1> SUFFICES ASSUME Init PROVE IInv
    OBVIOUS
  <1>1. branch \in Branches /\ branch \in Seq(Blocks) /\ branch # <<>>
    BY Eth1Assumption DEF Init
  <1>2. branch[1] \in Blocks /\ 1 \in DOMAIN branch
    BY <1>1
  <1>3. branch[1] # None
    BY <1>2, Eth1Assumption
  <1>4. TypeOK
    BY <1>1, <1>2 DEF Init, TypeOK, NothingGot
  <1>5. WorkInErrgroup /\ CursorInRange /\ GotHasKeys /\ RowsHaveKeys
    BY DEF Init, WorkInErrgroup, CursorInRange, GotHasKeys, RowsHaveKeys,
           Indexing, NothingGot
  <1> QED
    BY <1>4, <1>5 DEF IInv

-----------------------------------------------------------------------------
(* The steps *)

\* The process that starts again has no goroutine and no loop.
LEMMA RestartInvariant ==
    ASSUME IInv, Restart, UNCHANGED tables,
           branch' \in Branches, head' \in DOMAIN branch',
           used' \in [reorgs : Nat, lowered : Nat, faults : Nat, crashes : Nat]
    PROVE  IInv'
  <1>1. TypeOK'
    BY DEF IInv, TypeOK, Restart, NothingGot
  <1>2. WorkInErrgroup' /\ CursorInRange' /\ GotHasKeys'
    BY DEF Restart, WorkInErrgroup, CursorInRange, GotHasKeys, Indexing, NothingGot
  <1>3. RowsHaveKeys'
    BY DEF IInv, RowsHaveKeys
  <1> QED
    BY <1>1, <1>2, <1>3 DEF IInv

\* What is spent of the bounds stays a number.
LEMMA UsedType ==
    ASSUME TypeOK
    PROVE  LET Used == [reorgs : Nat, lowered : Nat, faults : Nat, crashes : Nat]
           IN  /\ \A n \in Nat :
                    [used EXCEPT !.reorgs = @ + 1, !.lowered = n] \in Used
               /\ [used EXCEPT !.faults = @ + 1] \in Used
               /\ [used EXCEPT !.crashes = @ + 1] \in Used
  <1> DEFINE Used == [reorgs : Nat, lowered : Nat, faults : Nat, crashes : Nat]
  <1>1. used \in Used
    BY DEF TypeOK
  <1>2. ASSUME NEW n \in Nat
        PROVE  [used EXCEPT !.reorgs = @ + 1, !.lowered = n] \in Used
    <2> DEFINE once == [used EXCEPT !.reorgs = @ + 1]
    <2>1. once \in Used
      BY <1>1
    <2>2. [once EXCEPT !.lowered = n] \in Used
      BY <1>2, <2>1
    <2>3. [used EXCEPT !.reorgs = @ + 1, !.lowered = n] = [once EXCEPT !.lowered = n]
      BY <1>1
    <2> QED
      BY <2>2, <2>3
  <1>3. [used EXCEPT !.faults = @ + 1] \in Used /\ [used EXCEPT !.crashes = @ + 1] \in Used
    BY <1>1
  <1> QED
    BY <1>2, <1>3

\* A move of the node changes nothing of the indexer.
LEMMA NodeInvariant ==
    ASSUME IInv, NewBlock \/ Reorg
    PROVE  IInv'
  <1>1. branch' \in Branches /\ head' \in DOMAIN branch'
    <2>1. CASE NewBlock
      <3>1. branch \in Branches /\ head \in 1 .. Len(branch) /\ Len(branch) \in Nat
        BY HeightsType DEF IInv, TypeOK
      <3>2. head' = head + 1 /\ head < Len(branch) /\ branch' = branch
        BY <2>1 DEF NewBlock
      <3>3. head' \in 1 .. Len(branch)
        BY <3>1, <3>2
      <3> QED
        BY <3>1, <3>2, <3>3, HeightsType
    <2>2. CASE Reorg
      BY <2>2 DEF Reorg
    <2> QED
      BY <2>1, <2>2
  <1>2. used' \in [reorgs : Nat, lowered : Nat, faults : Nat, crashes : Nat]
    <2>1. CASE NewBlock
      BY <2>1 DEF NewBlock, IInv, TypeOK
    <2>2. CASE Reorg
      <3> DEFINE n == IF head' < head THEN used.lowered + 1 ELSE used.lowered
      <3>1. n \in Nat
        BY DEF IInv, TypeOK
      <3>2. used' = [used EXCEPT !.reorgs = @ + 1, !.lowered = n]
        BY <2>2 DEF Reorg
      <3> QED
        BY <3>1, <3>2, UsedType DEF IInv
    <2> QED
      BY <2>1, <2>2
  <1>3. UNCHANGED <<tables, pc, latest, last, cursor, work>>
    BY DEF NewBlock, Reorg
  <1>4. TypeOK'
    BY <1>1, <1>2, <1>3 DEF IInv, TypeOK
  <1>5. WorkInErrgroup' /\ CursorInRange' /\ GotHasKeys' /\ RowsHaveKeys'
    BY <1>3 DEF IInv, WorkInErrgroup, CursorInRange, GotHasKeys, RowsHaveKeys, Indexing
  <1> QED
    BY <1>4, <1>5 DEF IInv

\* A step of HandleChainReorgs: it only takes rows away, and its loops end at
\* the last block the node had.
LEMMA ReorgsInvariant ==
    ASSUME IInv,
           UNCHANGED <<node, keyRows, work>>,
           ~Indexing, ~Indexing',
           pc' \in {"compare", "delete", "unlink", "sizes"},
           latest' \in Heights \cup {0}, last' = last,
           cursor' \in Heights \cup {0}, CursorInRange',
           blocks' \in [Heights -> Blocks \cup {None}],
           \E gone \in SUBSET Keys :
              data' = [k \in Keys |-> IF k \in gone THEN None ELSE data[k]],
           used' \in [reorgs : Nat, lowered : Nat, faults : Nat, crashes : Nat]
    PROVE  IInv'
  <1>1. TypeOK'
    BY DEF IInv, TypeOK
  <1>2. WorkInErrgroup' /\ GotHasKeys'
    BY DEF IInv, WorkInErrgroup, GotHasKeys, Indexing
  <1>3. RowsHaveKeys'
    BY DEF IInv, RowsHaveKeys
  <1> QED
    BY <1>1, <1>2, <1>3 DEF IInv

\* The next height of a loop is in range, or the loop ends.
LEMMA NextHeightType ==
    ASSUME TypeOK, CursorInRange, NEW loop \in {"compare", "delete"}, latest' = latest,
           pc \in {"compare", "delete", "unlink"}, NextHeight(loop)
    PROVE  /\ pc' \in {"compare", "delete", "sizes"}
           /\ cursor' \in Heights \cup {0}
           /\ CursorInRange'
  <1>1. Top \in Nat /\ Heights = 1 .. Top
    BY HeightsType
  <1>2. cursor \in 1 .. latest /\ latest \in 0 .. Top
    BY <1>1 DEF TypeOK, CursorInRange
  <1>3. CASE cursor = latest
    BY <1>3 DEF NextHeight, CursorInRange
  <1>4. CASE cursor # latest
    <2>1. cursor + 1 \in 1 .. latest /\ cursor + 1 \in 1 .. Top
      BY <1>2, <1>4, <1>1
    <2> QED
      BY <2>1, <1>1, <1>4 DEF NextHeight, CursorInRange
  <1> QED
    BY <1>3, <1>4

\* HandleChainReorgs, action by action.
LEMMA HandleChainReorgsInvariant ==
    ASSUME IInv,
           StartPass \/ Compare \/ DeleteDataRows \/ DeleteBlockRow \/ ReorgsFail
    PROVE  IInv'
  <1> USE DEF IInv
  <1>0. data' = data => \E gone \in SUBSET Keys :
             data' = [k \in Keys |-> IF k \in gone THEN None ELSE data[k]]
    <2> HAVE data' = data
    <2> WITNESS {} \in SUBSET Keys
    <2> QED
      BY DEF TypeOK
  <1>1. CASE StartPass
    <2>1. Top \in Nat /\ head \in 1 .. Top /\ Heights = 1 .. Top
      BY HeightsType, HeadType
    <2>2. ReorgDepth \in Nat
      BY Eth1Assumption
    <2>3. Max({1, head - ReorgDepth}) \in 1 .. head
      <3> DEFINE both == {1, head - ReorgDepth}
      <3>1. \E x \in both : \A y \in both : x >= y
        BY <2>1, <2>2
      <3>2. Max(both) \in both /\ \A y \in both : Max(both) >= y
        <4> HIDE DEF both
        <4> QED
          BY <3>1 DEF Max
      <3> QED
        BY <2>1, <2>2, <3>2
    <2>4. cursor' \in Heights /\ latest' \in Heights /\ CursorInRange'
      BY <1>1, <2>1, <2>3 DEF StartPass, CursorInRange
    <2> QED
      BY <1>0, <1>1, <2>4, ReorgsInvariant DEF StartPass, TypeOK, Indexing
  <1>2. CASE Compare
    <2>1. pc' \in {"compare", "delete", "sizes"} /\ cursor' \in Heights \cup {0}
          /\ CursorInRange'
      <3>1. CASE NextHeight("compare")
        BY <1>2, <3>1, NextHeightType DEF Compare
      <3>2. CASE ~NextHeight("compare")
        BY <1>2, <3>2 DEF Compare, ReorgsEnd, CursorInRange, TypeOK
      <3> QED
        BY <3>1, <3>2
    <2> QED
      BY <1>0, <1>2, <2>1, ReorgsInvariant DEF Compare, TypeOK, Indexing
  <1>3. CASE DeleteDataRows
    <2>1. pc' \in {"unlink", "sizes"} /\ cursor' \in Heights \cup {0} /\ CursorInRange'
      BY <1>3 DEF DeleteDataRows, ReorgsEnd, CursorInRange, TypeOK
    <2>2. \E gone \in SUBSET Keys :
             data' = [k \in Keys |-> IF k \in gone THEN None ELSE data[k]]
      <3>1. CASE blocks[cursor] = None \/ blocks[cursor] \notin keyRows
        BY <1>0, <1>3, <3>1 DEF DeleteDataRows
      <3>2. CASE ~(blocks[cursor] = None \/ blocks[cursor] \notin keyRows)
        <4> DEFINE gone == Keys \cap KeysOf(blocks[cursor])
        <4>1. data' = [k \in Keys |-> IF k \in gone THEN None ELSE data[k]]
          BY <1>3, <3>2 DEF DeleteDataRows
        <4> QED
          BY <4>1
      <3> QED
        BY <3>1, <3>2
    <2> QED
      BY <1>3, <2>1, <2>2, ReorgsInvariant DEF DeleteDataRows, TypeOK, Indexing
  <1>4. CASE DeleteBlockRow
    <2>1. pc' \in {"compare", "delete", "sizes"} /\ cursor' \in Heights \cup {0}
          /\ CursorInRange'
      BY <1>4, NextHeightType DEF DeleteBlockRow
    <2> QED
      BY <1>0, <1>4, <2>1, ReorgsInvariant DEF DeleteBlockRow, TypeOK, Indexing
  <1>5. CASE ReorgsFail
    <2>1. \E gone \in SUBSET Keys :
             data' = [k \in Keys |-> IF k \in gone THEN None ELSE data[k]]
      <3>1. CASE pc = "delete" /\ blocks[cursor] \in keyRows
        <4>1. PICK some \in SUBSET KeysOf(blocks[cursor]) :
                 data' = [k \in Keys |-> IF k \in some THEN None ELSE data[k]]
          BY <1>5, <3>1 DEF ReorgsFail
        <4> DEFINE gone == Keys \cap some
        <4>2. data' = [k \in Keys |-> IF k \in gone THEN None ELSE data[k]]
          BY <4>1
        <4> QED
          BY <4>2
      <3>2. CASE ~(pc = "delete" /\ blocks[cursor] \in keyRows)
        BY <1>0, <1>5, <3>2 DEF ReorgsFail
      <3> QED
        BY <3>1, <3>2
    <2>2. used' \in [reorgs : Nat, lowered : Nat, faults : Nat, crashes : Nat]
      BY <1>5, UsedType DEF ReorgsFail
    <2> QED
      BY <1>5, <2>1, <2>2, ReorgsInvariant
         DEF ReorgsFail, ReorgsEnd, TypeOK, Indexing, CursorInRange
  <1> QED
    BY <1>1, <1>2, <1>3, <1>4, <1>5

\* A step of an errgroup at one height, as the lemma of the two phases sees it:
\* goroutines end, get a block, or fail, and no other variable of the loop moves.
LEMMA GoroutineInvariant ==
    ASSUME IInv, Indexing,
           UNCHANGED <<node, pc, latest, last, cursor>>,
           pending' \subseteq Heights, failed' \in BOOLEAN,
           got' \in [Heights -> Blocks \cup {None}],
           \A h \in Heights : got'[h] # None => h \in pending',
           blocks' \in [Heights -> Blocks \cup {None}],
           data' \in [Keys -> Blocks \cup {None}],
           keyRows' \subseteq Blocks,
           GotHasKeys', RowsHaveKeys',
           used' \in [reorgs : Nat, lowered : Nat, faults : Nat, crashes : Nat]
    PROVE  IInv'
  <1>1. TypeOK'
    BY DEF IInv, TypeOK
  <1>2. WorkInErrgroup' /\ CursorInRange'
    BY DEF IInv, WorkInErrgroup, CursorInRange, Indexing
  <1> QED
    BY <1>1, <1>2 DEF IInv

\* A goroutine that ends takes its height and its block with it.
LEMMA EndsType ==
    ASSUME IInv, NEW h \in Heights, Ends(h)
    PROVE  /\ pending' \subseteq Heights
           /\ got' \in [Heights -> Blocks \cup {None}]
           /\ \A g \in Heights : got'[g] # None => g \in pending' /\ got'[g] = got[g]
  BY DEF IInv, TypeOK, WorkInErrgroup, Ends

\* Writing rows of a block whose keys are saved keeps every row within reach.
LEMMA WrittenType ==
    ASSUME TypeOK, RowsHaveKeys, NEW keys, NEW b \in Blocks \cap keyRows,
           keyRows' = keyRows, Written(keys, b)
    PROVE  data' \in [Keys -> Blocks \cup {None}] /\ RowsHaveKeys'
  BY DEF TypeOK, RowsHaveKeys, Written

\* The goroutines of IndexFromNode and IndexFromBigtable, action by action.
LEMMA ErrgroupInvariant ==
    ASSUME IInv, NEW h \in Heights,
           \/ FetchBlock(h) \/ SaveBlock(h)
           \/ SaveBlockKeys(h) \/ WriteData(h) \/ IndexFails(h)
    PROVE  IInv'
  <1>0. TypeOK /\ WorkInErrgroup /\ GotHasKeys /\ RowsHaveKeys
    BY DEF IInv
  <1>1. CASE FetchBlock(h)
    <2>1. Indexing /\ pc = "blocks" /\ h \in pending
      BY <1>1 DEF FetchBlock, Indexing, Started
    <2>2. CASE h <= head
      <3>1. got' = [got EXCEPT ![h] = branch[h]] /\ branch[h] \in Blocks
        BY <1>0, <1>1, <2>2, HeadType DEF FetchBlock
      <3>2. /\ got' \in [Heights -> Blocks \cup {None}]
            /\ pending' = pending
            /\ \A g \in Heights : got'[g] # None => g \in pending'
        BY <1>0, <1>1, <2>1, <2>2, <3>1 DEF FetchBlock, TypeOK, WorkInErrgroup
      <3>3. GotHasKeys' /\ RowsHaveKeys'
        BY <1>0, <1>1, <2>1 DEF FetchBlock, GotHasKeys, RowsHaveKeys
      <3> QED
        BY <1>0, <1>1, <2>1, <2>2, <3>2, <3>3, GoroutineInvariant DEF FetchBlock, TypeOK
    <2>3. CASE ~(h <= head)
      <3>1. Ends(h) /\ failed' = TRUE
        BY <1>1, <2>3 DEF FetchBlock, EndsWithError
      <3>2. GotHasKeys' /\ RowsHaveKeys'
        BY <1>0, <1>1, <2>1 DEF FetchBlock, GotHasKeys, RowsHaveKeys
      <3> QED
        BY <1>0, <1>1, <2>1, <3>1, <3>2, EndsType, GoroutineInvariant
           DEF FetchBlock, TypeOK
    <2> QED
      BY <2>2, <2>3
  <1>2. CASE SaveBlock(h)
    <2>1. Indexing /\ pc = "blocks" /\ Ends(h)
      BY <1>2 DEF SaveBlock, Indexing
    <2>2. blocks' \in [Heights -> Blocks \cup {None}]
      BY <1>0, <1>2 DEF SaveBlock, TypeOK
    <2>3. GotHasKeys' /\ RowsHaveKeys'
      BY <1>0, <1>2, <2>1 DEF SaveBlock, GotHasKeys, RowsHaveKeys
    <2> QED
      BY <1>0, <1>2, <2>1, <2>2, <2>3, EndsType, GoroutineInvariant DEF SaveBlock, TypeOK
  <1>3. CASE SaveBlockKeys(h)
    <2>1. Indexing /\ pc = "data" /\ h \in pending
      BY <1>3 DEF SaveBlockKeys, Indexing, Started
    <2>2. CASE blocks[h] = None
      <3>1. Ends(h) /\ failed' = TRUE /\ keyRows' = keyRows
        BY <1>3, <2>2 DEF SaveBlockKeys, EndsWithError
      <3>2. GotHasKeys' /\ RowsHaveKeys'
        BY <1>0, <1>3, <2>1, <3>1, EndsType DEF SaveBlockKeys, GotHasKeys, RowsHaveKeys
      <3> QED
        BY <1>0, <1>3, <2>1, <3>1, <3>2, EndsType, GoroutineInvariant
           DEF SaveBlockKeys, TypeOK
    <2>3. CASE blocks[h] # None
      <3>1. /\ got' = [got EXCEPT ![h] = blocks[h]]
            /\ keyRows' = keyRows \cup {blocks[h]}
            /\ pending' = pending /\ failed' = failed
        BY <1>3, <2>3 DEF SaveBlockKeys
      <3>2. blocks[h] \in Blocks
        BY <1>0, <2>3 DEF TypeOK
      <3>3. /\ got' \in [Heights -> Blocks \cup {None}]
            /\ keyRows' \subseteq Blocks
            /\ \A g \in Heights : got'[g] # None => g \in pending'
        BY <1>0, <2>1, <3>1, <3>2 DEF TypeOK, WorkInErrgroup
      <3>4. GotHasKeys'
        BY <1>0, <2>1, <3>1 DEF GotHasKeys, TypeOK
      <3>5. RowsHaveKeys'
        BY <1>0, <1>3, <3>1 DEF SaveBlockKeys, RowsHaveKeys
      <3> QED
        BY <1>0, <1>3, <2>1, <3>1, <3>3, <3>4, <3>5, GoroutineInvariant
           DEF SaveBlockKeys, TypeOK
    <2> QED
      BY <2>2, <2>3
  <1>4. CASE WriteData(h)
    <2>1. Indexing /\ pc = "data" /\ Ends(h) /\ keyRows' = keyRows
      BY <1>4 DEF WriteData, Indexing
    <2>2. got[h] \in Blocks \cap keyRows
      BY <1>0, <1>4, <2>1 DEF WriteData, TypeOK, GotHasKeys
    <2>3. data' \in [Keys -> Blocks \cup {None}] /\ RowsHaveKeys'
      BY <1>0, <1>4, <2>1, <2>2, WrittenType DEF WriteData
    <2>4. GotHasKeys'
      BY <1>0, <2>1, EndsType DEF GotHasKeys
    <2> QED
      BY <1>0, <1>4, <2>1, <2>3, <2>4, EndsType, GoroutineInvariant DEF WriteData, TypeOK
  <1>5. CASE IndexFails(h)
    <2>1. Ends(h) /\ failed' = TRUE /\ keyRows' = keyRows /\ Indexing
      BY <1>0, <1>5 DEF IndexFails, EndsWithError, Started, WorkInErrgroup
    <2>2. data' \in [Keys -> Blocks \cup {None}] /\ RowsHaveKeys'
      <3>1. CASE pc = "data" /\ got[h] # None
        <4>1. got[h] \in Blocks \cap keyRows
          BY <1>0, <3>1 DEF TypeOK, GotHasKeys
        <4>2. PICK some : Written(some, got[h])
          BY <1>5, <3>1 DEF IndexFails
        <4> QED
          BY <1>0, <2>1, <4>1, <4>2, WrittenType
      <3>2. CASE ~(pc = "data" /\ got[h] # None)
        BY <1>0, <1>5, <2>1, <3>2 DEF IndexFails, RowsHaveKeys, TypeOK
      <3> QED
        BY <3>1, <3>2
    <2>3. GotHasKeys'
      BY <1>0, <1>5, <2>1, EndsType DEF GotHasKeys, IndexFails
    <2>4. used' \in [reorgs : Nat, lowered : Nat, faults : Nat, crashes : Nat]
      BY <1>0, <1>5, UsedType DEF IndexFails
    <2> QED
      BY <1>0, <1>5, <2>1, <2>2, <2>3, <2>4, EndsType, GoroutineInvariant
         DEF IndexFails, TypeOK
  <1> QED
    BY <1>1, <1>2, <1>3, <1>4, <1>5

\* The steps between the phases of a pass.
LEMMA PhaseInvariant ==
    ASSUME IInv, ReadSizes \/ BlocksDone
    PROVE  IInv'
  <1>0. TypeOK /\ WorkInErrgroup /\ RowsHaveKeys
    BY DEF IInv
  <1>1. CASE ReadSizes
    <2>1. pending' \subseteq Heights
      BY <1>1 DEF ReadSizes, Window
    <2>2. TypeOK'
      BY <1>0, <1>1, <2>1, HeadType, LastBlocksType DEF ReadSizes, TypeOK
    <2>3. WorkInErrgroup' /\ CursorInRange' /\ GotHasKeys' /\ RowsHaveKeys'
      BY <1>0, <1>1 DEF ReadSizes, WorkInErrgroup, CursorInRange, GotHasKeys,
                        RowsHaveKeys, Indexing
    <2> QED
      BY <2>2, <2>3 DEF IInv
  <1>2. CASE BlocksDone
    <2>1. CASE failed
      BY <1>0, <1>2, <2>1, RestartInvariant DEF BlocksDone, TypeOK
    <2>2. CASE ~failed
      <3>1. pending' \subseteq Heights
        BY <1>2, <2>2 DEF BlocksDone, Window
      <3>2. \A h \in Heights : got[h] = None
        BY <1>0, <1>2 DEF BlocksDone, WorkInErrgroup
      <3>3. TypeOK'
        BY <1>0, <1>2, <2>2, <3>1 DEF BlocksDone, TypeOK
      <3>4. WorkInErrgroup' /\ CursorInRange' /\ GotHasKeys' /\ RowsHaveKeys'
        BY <1>0, <1>2, <2>2, <3>2 DEF BlocksDone, WorkInErrgroup, CursorInRange,
                                      GotHasKeys, RowsHaveKeys, Indexing
      <3> QED
        BY <3>3, <3>4 DEF IInv
    <2> QED
      BY <2>1, <2>2
  <1> QED
    BY <1>1, <1>2

\* The steps that leave the process to start again.
LEMMA EndInvariant ==
    ASSUME IInv, DataDone \/ Crash
    PROVE  IInv'
  <1>0. TypeOK
    BY DEF IInv
  <1> QED
    BY <1>0, RestartInvariant, UsedType DEF DataDone, Crash, TypeOK

-----------------------------------------------------------------------------
(* Theorems *)

\* IInv is inductive.
THEOREM StepInvariant == IInv /\ [Next]_vars => IInv'
  <1> SUFFICES ASSUME IInv, [Next]_vars PROVE IInv'
    OBVIOUS
  <1>1. CASE NewBlock \/ Reorg
    BY <1>1, NodeInvariant
  <1>2. CASE StartPass \/ Compare \/ DeleteDataRows \/ DeleteBlockRow \/ ReorgsFail
    BY <1>2, HandleChainReorgsInvariant
  <1>3. CASE \E h \in Heights : \/ FetchBlock(h) \/ SaveBlock(h)
                                \/ SaveBlockKeys(h) \/ WriteData(h) \/ IndexFails(h)
    BY <1>3, ErrgroupInvariant
  <1>4. CASE ReadSizes \/ BlocksDone
    BY <1>4, PhaseInvariant
  <1>5. CASE DataDone \/ Crash
    BY <1>5, EndInvariant
  <1>6. CASE UNCHANGED vars
    BY <1>6 DEF IInv, TypeOK, WorkInErrgroup, CursorInRange, GotHasKeys,
                RowsHaveKeys, Indexing
  <1> QED
    BY <1>1, <1>2, <1>3, <1>4, <1>5, <1>6 DEF Next, PassStep

\* The inductive invariant holds in every behaviour of the indexer.
THEOREM Invariance == Spec => []IInv
  BY InitInvariant, StepInvariant, PTL DEF Spec

\* Every variable keeps its type; the loops of HandleChainReorgs stay within the
\* heights they were given.
THEOREM TypeCorrect == Spec => []TypeOK
  <1>1. IInv => TypeOK
    BY DEF IInv
  <1> QED
    BY <1>1, Invariance, PTL

\* Wherever a pass is interrupted and however the goroutines interleave, the
\* keys of the block that wrote a data row are saved, so that DeleteBlock can
\* find the row.
THEOREM RowsStayDeletable == Spec => []RowsHaveKeys
  <1>1. IInv => RowsHaveKeys
    BY DEF IInv
  <1> QED
    BY <1>1, Invariance, PTL

-----------------------------------------------------------------------------
(* The block of a row *)

\* Nothing failed, nobody died and the node moved between passes, never back.
Undisturbed == Calm /\ used.lowered + used.faults + used.crashes = 0

Stored(h) == blocks[h] # None

(***************************************************************************)
(* What reorg.depth asks of the node: a block of the table that the node   *)
(* has replaced lies at most ReorgDepth below the node's head.             *)
(***************************************************************************)
WithinReach ==
    \A h \in Heights :
        Stored(h) /\ h <= head /\ blocks[h] # branch[h] => h >= head - ReorgDepth

\* A row is a row of the block that wrote it, and a block is at its height.
RowsOwned == \A k \in Keys : data[k] # None => k \in KeysOf(data[k])
BlocksInPlace ==
    \A h \in Heights : /\ Stored(h) => HeightOf(blocks[h]) = h
                       /\ got[h] # None => HeightOf(got[h]) = h

RowsThere == \A k \in Keys : data[k] # None => blocks[HeightOf(data[k])] = data[k]
FromNode(h) == Stored(h) => blocks[h] = branch[h]
Stacked(heights) == \A g, h \in heights : g < h /\ Stored(h) => Stored(g)
BelowHead == \A h \in Heights : Stored(h) => h <= head
Keyed == \A h \in Heights : Stored(h) => blocks[h] \in keyRows

Below == {h \in Heights : h < cursor}
Above == Heights \ Below

(***************************************************************************)
(* Between passes the stored blocks have no gap and their keys are saved.  *)
(* The loops of HandleChainReorgs leave below the cursor only blocks of    *)
(* the node, and a second gapless stretch above it while they delete; when *)
(* they end nothing of another branch is left, so that IndexFromNode never *)
(* replaces a block that has rows.                                         *)
(***************************************************************************)
Comparing == pc = "compare" => \A h \in Below : FromNode(h)
Deleting ==
    pc \in {"delete", "unlink"} =>
        /\ \A h \in Below : FromNode(h)
        /\ Stacked(Below) /\ Stacked(Above) /\ Keyed
Unlinking ==
    pc = "unlink" => \A k \in Keys : data[k] # None => data[k] # blocks[cursor]
Copying ==
    pc = "blocks" =>
        /\ \A h \in Heights : got[h] # None => got[h] = branch[h]
        /\ \A h \in Heights : h <= latest => Stored(h) \/ h \in pending
        /\ \A h \in Heights : h <= last.data => Stored(h) /\ blocks[h] \in keyRows
        /\ \A h \in pending : h <= latest
Deriving ==
    pc = "data" =>
        /\ \A h \in Heights : h <= latest => Stored(h)
        /\ \A h \in Heights : h <= latest => blocks[h] \in keyRows \/ h \in pending
        /\ \A h \in Heights : got[h] # None => got[h] = blocks[h]
        /\ \A h \in pending : h <= latest

Tidy ==
    /\ RowsThere /\ BelowHead /\ ~failed
    /\ pc # "asleep" => latest = head
    /\ pc \in {"asleep", "compare", "sizes"} => Stacked(Heights) /\ Keyed
    /\ pc \in {"sizes", "blocks", "data"} => \A h \in Heights : FromNode(h)
    /\ Comparing /\ Deleting /\ Unlinking /\ Copying /\ Deriving

RowInv == RowsOwned /\ BlocksInPlace /\ (Undisturbed => Tidy)

\* The height of a block of a branch is its place in it.
LEMMA HeightOfBlock ==
    ASSUME NEW p \in Branches, NEW h \in DOMAIN p
    PROVE  h \in Heights /\ HeightOf(p[h]) = h /\ p[h] \in Blocks /\ p[h] # None
  <1>1. h \in Heights
    BY HeightsType
  <1>2. \A g \in Heights : (\E q \in Branches : g \in DOMAIN q /\ q[g] = p[h]) => g = h
    BY Eth1Assumption
  <1>3. \E q \in Branches : h \in DOMAIN q /\ q[h] = p[h]
    OBVIOUS
  <1>4. HeightOf(p[h]) = h
    BY <1>1, <1>2, <1>3 DEF HeightOf
  <1> QED
    BY <1>1, <1>4, Eth1Assumption

\* The block of the node at a height up to its head.
LEMMA NodeBlock ==
    ASSUME TypeOK, NEW h \in Heights, h <= head
    PROVE  HeightOf(branch[h]) = h /\ branch[h] \in Blocks /\ branch[h] # None
  <1>1. branch \in Branches /\ h \in DOMAIN branch
    BY HeightsType DEF TypeOK
  <1> QED
    BY <1>1, HeightOfBlock

\* Nothing lies above the last block of the blocks table.
LEMMA LastBlockFacts ==
    LET last_ == LastBlockInBlocksTable
    IN  /\ last_ \in 0 .. Top
        /\ last_ # 0 => Stored(last_)
        /\ \A h \in Heights : Stored(h) => h <= last_
  <1> DEFINE full == {0} \cup {h \in Heights : blocks[h] # None}
  <1>1. Top \in Nat /\ Heights = 1 .. Top
    BY HeightsType
  <1>2. full \subseteq 0 .. Top /\ full # {}
    BY <1>1
  <1>3. Max(full) \in full /\ \A y \in full : Max(full) >= y
    <2> HIDE DEF full
    <2> QED
      BY <1>1, <1>2, MaxOfInterval
  <1>4. LastBlockInBlocksTable = Max(full)
    BY DEF LastBlockInBlocksTable
  <1>5. \A h \in Heights : Stored(h) => h <= Max(full)
    BY <1>1, <1>2, <1>3 DEF Stored
  <1> QED
    BY <1>1, <1>2, <1>3, <1>4, <1>5 DEF Stored

\* The height of the last row B:<height> is the height of a block with rows.
LEMMA LastRowFacts ==
    ASSUME RowsOwned
    PROVE  /\ LastBlockInDataTable \in 0 .. Top
           /\ LastBlockInDataTable # 0 =>
                \E k \in Keys : data[k] # None /\ HeightOf(data[k]) = LastBlockInDataTable
  <1> DEFINE keyed == {0} \cup {h \in Heights : data[HeightKey(h)] # None}
             m == LastBlockInDataTable
  <1>1. Top \in Nat /\ Heights = 1 .. Top
    BY HeightsType
  <1>2. keyed \subseteq 0 .. Top /\ keyed # {}
    BY <1>1
  <1>3. Max(keyed) \in keyed
    <2> HIDE DEF keyed
    <2> QED
      BY <1>1, <1>2, MaxOfInterval
  <1>4. m \in keyed
    BY <1>3 DEF LastBlockInDataTable
  <1>5. ASSUME m # 0
        PROVE  \E k \in Keys : data[k] # None /\ HeightOf(data[k]) = m
    <2>1. m \in Heights /\ data[HeightKey(m)] # None
      BY <1>4, <1>5
    <2>2. PICK p \in Branches : Len(p) = Top
      BY HeightsType
    <2>3. m \in DOMAIN p
      BY <1>1, <2>1, <2>2, HeightsType
    <2>4. HeightOf(p[m]) = m /\ p[m] \in Blocks
      BY <2>3, HeightOfBlock
    <2>5. HeightKey(m) \in Keys
      BY <2>4 DEF Keys, KeysOf
    <2>6. HeightKey(m) \in KeysOf(data[HeightKey(m)])
      BY <2>1, <2>5 DEF RowsOwned
    <2>7. \A b : HeightKey(m) \in KeysOf(b) => HeightOf(b) = m
      BY DEF KeysOf, HeightKey
    <2> QED
      BY <2>1, <2>5, <2>6, <2>7
  <1> QED
    BY <1>2, <1>4, <1>5

\* The initial table has one block, with its rows and its keys.
LEMMA InitRows == Init => RowInv
  <1> SUFFICES ASSUME Init PROVE RowInv
    OBVIOUS
  <1>1. branch \in Branches /\ 1 \in DOMAIN branch
    BY Eth1Assumption DEF Init
  <1>2. HeightOf(branch[1]) = 1 /\ branch[1] # None /\ 1 \in Heights
    BY <1>1, HeightOfBlock
  <1>3. \A h \in Heights : h \in Int /\ h >= 1
    BY HeightsType
  <1>4. \A h \in Heights : Stored(h) <=> h = 1
    BY <1>2 DEF Init, Stored
  <1>5. RowsOwned /\ BlocksInPlace /\ RowsThere
    BY <1>2, <1>4 DEF Init, RowsOwned, BlocksInPlace, RowsThere, NothingGot, Stored
  <1>6. Tidy
    BY <1>2, <1>3, <1>4, <1>5
    DEF Init, Tidy, BelowHead, Stacked, Keyed, Comparing, Deleting, Unlinking,
        Copying, Deriving
  <1> QED
    BY <1>5, <1>6 DEF RowInv

\* Every step keeps rows with their owners and blocks at their heights.
LEMMA OwnersStay ==
    ASSUME IInv, RowsOwned, BlocksInPlace, [Next]_vars
    PROVE  RowsOwned' /\ BlocksInPlace'
  <1>0. TypeOK
    BY DEF IInv
  <1>1. ASSUME \A h \in Heights : /\ blocks'[h] \in {None, blocks[h], got[h]}
                                  /\ \/ got'[h] \in {None, got[h], blocks[h]}
                                     \/ got'[h] = branch[h] /\ h <= head
        PROVE  BlocksInPlace'
    BY <1>0, <1>1, NodeBlock DEF BlocksInPlace, Stored
  <1>2. ASSUME \A k \in Keys : data'[k] \in {None, data[k]} PROVE RowsOwned'
    BY <1>2 DEF RowsOwned
  <1>3. ASSUME NEW b, NEW keys \in SUBSET KeysOf(b), Written(keys, b) PROVE RowsOwned'
    BY <1>3 DEF RowsOwned, Written
  <1>4. CASE NewBlock \/ Reorg \/ UNCHANGED vars
    BY <1>1, <1>2, <1>4 DEF NewBlock, Reorg
  <1>5. CASE StartPass \/ Compare \/ DataDone \/ Crash \/ ReadSizes \/ BlocksDone
    BY <1>1, <1>2, <1>5 DEF StartPass, Compare, DataDone, Crash, ReadSizes, BlocksDone,
                            Restart, NothingGot
  <1>6. CASE DeleteDataRows \/ DeleteBlockRow \/ ReorgsFail
    <2>1. got' = got /\ \A h \in Heights : blocks'[h] \in {None, blocks[h]}
      BY <1>0, <1>6 DEF DeleteDataRows, DeleteBlockRow, ReorgsFail, TypeOK
    <2>2. \A k \in Keys : data'[k] \in {None, data[k]}
      BY <1>6 DEF DeleteDataRows, DeleteBlockRow, ReorgsFail
    <2> QED
      BY <1>1, <1>2, <2>1, <2>2
  <1>7. ASSUME NEW h \in Heights, FetchBlock(h) \/ SaveBlock(h) \/ SaveBlockKeys(h)
        PROVE  RowsOwned' /\ BlocksInPlace'
    <2>1. data' = data
      BY <1>7 DEF FetchBlock, SaveBlock, SaveBlockKeys
    <2>2. \A g \in Heights : /\ blocks'[g] \in {None, blocks[g], got[g]}
                             /\ \/ got'[g] \in {None, got[g], blocks[g]}
                                \/ got'[g] = branch[g] /\ g <= head
      BY <1>0, <1>7 DEF FetchBlock, SaveBlock, SaveBlockKeys, EndsWithError, Ends, TypeOK
    <2> QED
      BY <1>1, <1>2, <2>1, <2>2
  <1>8. ASSUME NEW h \in Heights, WriteData(h) \/ IndexFails(h)
        PROVE  RowsOwned' /\ BlocksInPlace'
    <2>1. blocks' = blocks /\ \A g \in Heights : got'[g] \in {None, got[g]}
      BY <1>0, <1>8 DEF WriteData, IndexFails, EndsWithError, Ends, TypeOK
    <2>2. RowsOwned'
      <3>1. \/ UNCHANGED data
            \/ \E keys \in SUBSET KeysOf(got[h]) : Written(keys, got[h])
        BY <1>8 DEF WriteData, IndexFails
      <3> QED
        BY <1>2, <1>3, <3>1
    <2> QED
      BY <1>1, <2>1, <2>2
  <1> QED
    BY <1>4, <1>5, <1>6, <1>7, <1>8 DEF Next, PassStep

\* Nothing that went wrong is forgotten, and until then the head never sinks.
LEMMA UndisturbedBefore ==
    ASSUME TypeOK, [Next]_vars, Undisturbed'
    PROVE  /\ Undisturbed
           /\ head' \in Int /\ head' >= head
           /\ ~ReorgsFail /\ ~Crash /\ \A h \in Heights : ~IndexFails(h)
  <1>1. /\ used \in [reorgs : Nat, lowered : Nat, faults : Nat, crashes : Nat]
        /\ head \in Int /\ \A p \in Branches : DOMAIN p \subseteq Int
    BY HeightsType, HeadType DEF TypeOK
  <1>2. Calm /\ used'.lowered + used'.faults + used'.crashes = 0
    BY DEF Undisturbed
  <1>3. ASSUME used' = [used EXCEPT !.faults = @ + 1] PROVE FALSE
    <2>1. /\ used'.faults = used.faults + 1
          /\ used'.lowered = used.lowered /\ used'.crashes = used.crashes
      BY <1>1, <1>3
    <2> QED
      BY <1>1, <1>2, <2>1
  <1>4. ASSUME used' = [used EXCEPT !.crashes = @ + 1] PROVE FALSE
    <2>1. /\ used'.crashes = used.crashes + 1
          /\ used'.lowered = used.lowered /\ used'.faults = used.faults
      BY <1>1, <1>4
    <2> QED
      BY <1>1, <1>2, <2>1
  <1>5. ~ReorgsFail /\ ~Crash /\ \A h \in Heights : ~IndexFails(h)
    BY <1>3, <1>4 DEF ReorgsFail, Crash, IndexFails
  <1>6. CASE Reorg
    <2>1. head' \in Int
      BY <1>1, <1>6 DEF Reorg
    <2>2. /\ used'.lowered = IF head' < head THEN used.lowered + 1 ELSE used.lowered
          /\ used'.faults = used.faults /\ used'.crashes = used.crashes
      BY <1>1, <1>6 DEF Reorg
    <2>3. ~(head' < head)
      BY <1>1, <1>2, <2>2
    <2> QED
      BY <1>1, <1>2, <1>5, <2>1, <2>2, <2>3 DEF Undisturbed
  <1>7. CASE NewBlock
    BY <1>1, <1>2, <1>5, <1>7 DEF NewBlock, Undisturbed
  <1>8. CASE ~Reorg /\ ~NewBlock
    <2>1. used' = used /\ head' = head
      BY <1>5, <1>8
      DEF Next, PassStep, StartPass, Compare, DeleteDataRows, DeleteBlockRow, ReadSizes,
          BlocksDone, DataDone, FetchBlock, SaveBlock, SaveBlockKeys, WriteData
    <2> QED
      BY <1>1, <1>2, <1>5, <2>1 DEF Undisturbed
  <1> QED
    BY <1>6, <1>7, <1>8

\* The node moves while the indexer sleeps, and the head does not sink.
LEMMA NodeTidy ==
    ASSUME IInv, Undisturbed, Tidy, head' \in Int, head' >= head,
           NewBlock \/ Reorg \/ UNCHANGED vars
    PROVE  Tidy'
  <1>1. CASE UNCHANGED vars
    BY <1>1 DEF Tidy, RowsThere, BelowHead, Stored, Stacked, Keyed, FromNode, Comparing,
                Deleting, Unlinking, Copying, Deriving, Below, Above
  <1>2. CASE NewBlock \/ Reorg
    <2>1. pc = "asleep" /\ UNCHANGED <<tables, pc, latest, last, cursor, work>>
      BY <1>2 DEF NewBlock, Reorg, NodeMayMove, Undisturbed
    <2>2. RowsThere' /\ ~failed' /\ Stacked(Heights)' /\ Keyed'
      BY <2>1 DEF Tidy, RowsThere, Stacked, Stored, Keyed
    <2>3. BelowHead'
      <3>1. head \in Int /\ Heights \subseteq Int
        BY HeadType, HeightsType DEF IInv
      <3> QED
        BY <2>1, <3>1 DEF Tidy, BelowHead, Stored
    <2> QED
      BY <2>1, <2>2, <2>3 DEF Tidy, Comparing, Deleting, Unlinking, Copying, Deriving
  <1> QED
    BY <1>1, <1>2

\* HandleChainReorgs starts at a height below which the table is the node's.
LEMMA StartTidy ==
    ASSUME IInv, WithinReach, Tidy, StartPass
    PROVE  Tidy'
  <1>1. Top \in Nat /\ Heights = 1 .. Top /\ head \in 1 .. Top /\ ReorgDepth \in Nat
    BY HeightsType, HeadType, Eth1Assumption DEF IInv
  <1>2. pc = "asleep" /\ pc' = "compare" /\ UNCHANGED <<node, tables, work>>
    BY DEF StartPass
  <1>3. latest' = head /\ cursor' = Max({1, head - ReorgDepth})
    BY DEF StartPass
  <1>4. cursor' \in {1, head - ReorgDepth}
    <2> DEFINE both == {1, head - ReorgDepth}
    <2>1. \E x \in both : \A y \in both : x >= y
      BY <1>1
    <2>2. Max(both) \in both
      <3> HIDE DEF both
      <3> QED
        BY <2>1 DEF Max
    <2> QED
      BY <1>3, <2>2
  <1>5. ASSUME NEW h \in Heights, h < cursor', Stored(h)
        PROVE  blocks[h] = branch[h]
    <2>1. h < head - ReorgDepth
      BY <1>1, <1>4, <1>5
    <2>2. h <= head
      BY <1>5 DEF Tidy, BelowHead
    <2> QED
      BY <1>1, <1>5, <2>1, <2>2 DEF WithinReach
  <1>6. Comparing'
    BY <1>2, <1>5 DEF Comparing, Below, FromNode, Stored
  <1>7. RowsThere' /\ BelowHead' /\ ~failed' /\ Stacked(Heights)' /\ Keyed'
    BY <1>2 DEF Tidy, RowsThere, BelowHead, Stacked, Stored, Keyed
  <1> QED
    BY <1>2, <1>3, <1>6, <1>7 DEF Tidy, Deleting, Unlinking, Copying, Deriving

\* The comparison ends, moves on, or finds the fork.
LEMMA CompareTidy ==
    ASSUME IInv, Tidy, Compare
    PROVE  Tidy'
  <1>1. Top \in Nat /\ Heights = 1 .. Top /\ head \in 1 .. Top
    BY HeightsType, HeadType DEF IInv
  <1>2. /\ pc = "compare" /\ UNCHANGED <<node, tables, latest, work>>
        /\ cursor \in 1 .. head /\ latest = head
    BY DEF Compare, IInv, CursorInRange, Tidy
  <1>3. /\ \A h \in Heights : h < cursor => FromNode(h)
        /\ Stacked(Heights) /\ Keyed /\ BelowHead
    BY <1>2 DEF Tidy, Comparing, Below
  <1>4. RowsThere' /\ BelowHead' /\ ~failed' /\ Stacked(Heights)' /\ Keyed'
    BY <1>2 DEF Tidy, RowsThere, BelowHead, Stacked, Stored, Keyed
  <1>5. CASE ~Stored(cursor)
    <2>1. pc' = "sizes"
      BY <1>2, <1>5 DEF Compare, ReorgsEnd, Stored
    <2>2. \A h \in Heights : FromNode(h)
      <3> TAKE h \in Heights
      <3>1. CASE h < cursor
        BY <1>3, <3>1
      <3>2. CASE h = cursor
        BY <1>5, <3>2 DEF FromNode
      <3>3. CASE h > cursor
        BY <1>1, <1>2, <1>3, <1>5, <3>3 DEF Stacked, FromNode
      <3> QED
        BY <1>1, <1>2, <3>1, <3>2, <3>3
    <2>3. \A h \in Heights : FromNode(h)'
      BY <1>2, <2>2 DEF FromNode, Stored
    <2> QED
      BY <1>2, <1>4, <2>1, <2>3 DEF Tidy, Comparing, Deleting, Unlinking, Copying, Deriving
  <1>6. CASE Stored(cursor) /\ blocks[cursor] = branch[cursor]
    <2>1. NextHeight("compare")
      BY <1>1, <1>2, <1>6 DEF Compare, Stored
    <2>2. CASE cursor = latest
      <3>1. pc' = "sizes"
        BY <2>1, <2>2 DEF NextHeight
      <3>2. \A h \in Heights : FromNode(h)
        <4> TAKE h \in Heights
        <4>1. h > cursor => ~Stored(h)
          BY <1>1, <1>2, <1>3, <2>2 DEF BelowHead
        <4>2. h = cursor => FromNode(h)
          BY <1>6 DEF FromNode
        <4> QED
          BY <1>1, <1>2, <1>3, <4>1, <4>2 DEF FromNode
      <3>3. \A h \in Heights : FromNode(h)'
        BY <1>2, <3>2 DEF FromNode, Stored
      <3> QED
        BY <1>2, <1>4, <3>1, <3>3 DEF Tidy, Comparing, Deleting, Unlinking, Copying, Deriving
    <2>3. CASE cursor # latest
      <3>1. pc' = "compare" /\ cursor' = cursor + 1
        BY <2>1, <2>3 DEF NextHeight
      <3>2. \A h \in Heights : h < cursor + 1 => FromNode(h)
        BY <1>1, <1>2, <1>3, <1>6 DEF FromNode
      <3>3. Comparing'
        BY <1>2, <3>1, <3>2 DEF Comparing, Below, FromNode, Stored
      <3> QED
        BY <1>2, <1>4, <3>1, <3>3 DEF Tidy, Deleting, Unlinking, Copying, Deriving
    <2> QED
      BY <2>2, <2>3
  <1>7. CASE Stored(cursor) /\ blocks[cursor] # branch[cursor]
    <2>1. pc' = "delete" /\ cursor' = cursor
      BY <1>1, <1>2, <1>7 DEF Compare, Stored
    <2>2. Deleting'
      BY <1>2, <1>3, <1>4, <2>1 DEF Deleting, Below, Above, FromNode, Stored, Stacked
    <2> QED
      BY <1>2, <1>4, <2>1, <2>2 DEF Tidy, Comparing, Unlinking, Copying, Deriving
  <1> QED
    BY <1>5, <1>6, <1>7

\* The data rows of a block to be deleted go, or the deletion is over: in a
\* gapless stretch nothing is stored above a height that has no block.
LEMMA DeleteRowsTidy ==
    ASSUME IInv, RowsOwned, Tidy, DeleteDataRows
    PROVE  Tidy'
  <1>1. Top \in Nat /\ Heights = 1 .. Top /\ head \in 1 .. Top
    BY HeightsType, HeadType DEF IInv
  <1>2. /\ pc = "delete" /\ UNCHANGED <<node, blocks, keyRows, latest, work>>
        /\ cursor \in 1 .. head /\ latest = head
    BY DEF DeleteDataRows, IInv, CursorInRange, Tidy
  <1>3. /\ \A h \in Heights : h < cursor => FromNode(h)
        /\ Stacked(Below) /\ Stacked(Above) /\ Keyed /\ BelowHead
    BY <1>2 DEF Tidy, Deleting, Below
  <1>4. BelowHead' /\ ~failed' /\ Keyed'
    BY <1>2 DEF Tidy, Deleting, BelowHead, Stored, Keyed
  <1>5. CASE ~Stored(cursor)
    <2>1. pc' = "sizes" /\ data' = data
      BY <1>2, <1>5 DEF DeleteDataRows, ReorgsEnd, Stored
    <2>2. \A h \in Heights : h >= cursor => ~Stored(h)
      BY <1>1, <1>2, <1>3, <1>5 DEF Stacked, Above, Below
    <2>3. \A h \in Heights : FromNode(h)
      BY <1>1, <1>2, <1>3, <2>2 DEF FromNode
    <2>4. Stacked(Heights)
      <3>1. \A g, h \in Heights : g < h /\ Stored(h) => h < cursor /\ g < cursor
        BY <1>1, <1>2, <2>2
      <3> QED
        BY <1>3, <3>1 DEF Stacked, Below
    <2>5. Stacked(Heights)' /\ (\A h \in Heights : FromNode(h)') /\ RowsThere'
      BY <1>2, <2>1, <2>3, <2>4 DEF Stacked, FromNode, Stored, Tidy, RowsThere
    <2> QED
      BY <1>2, <1>4, <2>1, <2>5 DEF Tidy, Comparing, Deleting, Unlinking, Copying, Deriving
  <1>6. CASE Stored(cursor)
    <2> DEFINE b == blocks[cursor]
    <2>1. b # None /\ b \in keyRows
      BY <1>1, <1>2, <1>3, <1>6 DEF Keyed, Stored
    <2>2. /\ data' = [k \in Keys |-> IF k \in KeysOf(b) THEN None ELSE data[k]]
          /\ pc' = "unlink" /\ cursor' = cursor
      BY <2>1 DEF DeleteDataRows
    <2>3. \A k \in Keys : data'[k] # None => data'[k] = data[k] /\ k \notin KeysOf(b)
      BY <2>2
    <2>4. RowsThere'
      BY <1>2, <2>3 DEF Tidy, RowsThere
    <2>5. Unlinking'
      BY <1>2, <2>2, <2>3 DEF Unlinking, RowsOwned
    <2>6. Deleting'
      BY <1>2, <1>3, <1>4, <2>2 DEF Deleting, Below, Above, FromNode, Stored, Stacked
    <2> QED
      BY <1>2, <1>4, <2>2, <2>4, <2>5, <2>6 DEF Tidy, Comparing, Copying, Deriving
  <1> QED
    BY <1>5, <1>6

\* A block whose data rows are gone leaves the blocks table.
LEMMA DeleteBlockTidy ==
    ASSUME IInv, Tidy, DeleteBlockRow
    PROVE  Tidy'
  <1>1. Top \in Nat /\ Heights = 1 .. Top /\ head \in 1 .. Top
    BY HeightsType, HeadType DEF IInv
  <1>2. /\ pc = "unlink" /\ UNCHANGED <<node, data, keyRows, latest, work>>
        /\ cursor \in 1 .. head /\ latest = head
    BY DEF DeleteBlockRow, IInv, CursorInRange, Tidy
  <1>3. /\ \A h \in Heights : h < cursor => FromNode(h)
        /\ Stacked(Below) /\ Stacked(Above) /\ Keyed /\ BelowHead
    BY <1>2 DEF Tidy, Deleting, Below
  <1>4. \A h \in Heights : /\ Stored(h)' <=> Stored(h) /\ h # cursor
                           /\ h # cursor => blocks'[h] = blocks[h]
    BY <1>1, <1>2 DEF DeleteBlockRow, Stored, IInv, TypeOK
  <1>5. BelowHead' /\ ~failed' /\ Keyed'
    BY <1>2, <1>3, <1>4 DEF Tidy, BelowHead, Keyed
  <1>6. RowsThere'
    <2> SUFFICES ASSUME NEW k \in Keys, data[k] # None
                 PROVE  blocks'[HeightOf(data[k])] = data[k]
      BY <1>2 DEF RowsThere
    <2>1. blocks[HeightOf(data[k])] = data[k] /\ data[k] # blocks[cursor]
      BY <1>2 DEF Tidy, RowsThere, Unlinking
    <2>2. blocks' = [blocks EXCEPT ![cursor] = None]
      BY DEF DeleteBlockRow
    <2>3. HeightOf(data[k]) # cursor
      BY <2>1
    <2> QED
      BY <2>1, <2>2, <2>3 DEF IInv, TypeOK
  <1>7. \A h \in Heights : h < cursor + 1 => FromNode(h)'
    <2> TAKE h \in Heights
    <2>1. h < cursor => FromNode(h)'
      BY <1>1, <1>2, <1>3, <1>4 DEF FromNode
    <2>2. h = cursor => FromNode(h)'
      BY <1>1, <1>2, <1>4 DEF FromNode
    <2> QED
      BY <1>1, <1>2, <2>1, <2>2
  <1>8. CASE cursor = latest
    <2>1. pc' = "sizes"
      BY <1>8 DEF DeleteBlockRow, NextHeight
    <2>2. \A h \in Heights : Stored(h)' => h < cursor
      BY <1>1, <1>2, <1>3, <1>4, <1>8 DEF BelowHead
    <2>3. \A h \in Heights : FromNode(h)'
      BY <1>1, <1>2, <1>7, <2>2 DEF FromNode
    <2>4. \A g, h \in Heights : g < h /\ Stored(h)' => Stored(g)'
      <3> TAKE g, h \in Heights
      <3> HAVE g < h /\ Stored(h)'
      <3>1. Stored(h) /\ h < cursor /\ g < cursor
        BY <1>1, <1>2, <1>4, <2>2
      <3>2. Stored(g)
        BY <1>3, <3>1 DEF Stacked, Below
      <3> QED
        BY <1>1, <1>2, <1>4, <3>1, <3>2
    <2>5. Stacked(Heights)'
      BY <2>4 DEF Stacked
    <2> QED
      BY <1>2, <1>5, <1>6, <2>1, <2>3, <2>5
      DEF Tidy, Comparing, Deleting, Unlinking, Copying, Deriving
  <1>9. CASE cursor # latest
    <2>1. pc' = "delete" /\ cursor' = cursor + 1
      BY <1>9 DEF DeleteBlockRow, NextHeight
    <2>2. ASSUME NEW g \in Heights, NEW h \in Heights, g < h, Stored(h)',
                 h < cursor + 1 \/ ~(g < cursor + 1)
          PROVE  Stored(g)'
      <3>1. Stored(h) /\ h # cursor
        BY <1>4, <2>2
      <3>2. CASE h < cursor + 1
        <4>1. h < cursor /\ g < cursor
          BY <1>1, <1>2, <2>2, <3>1, <3>2
        <4>2. Stored(g)
          BY <1>3, <2>2, <3>1, <4>1 DEF Stacked, Below
        <4> QED
          BY <1>1, <1>2, <1>4, <4>1, <4>2
      <3>3. CASE ~(g < cursor + 1)
        <4>1. g > cursor /\ h > cursor
          BY <1>1, <1>2, <2>2, <3>3
        <4>2. Stored(g)
          BY <1>1, <1>2, <1>3, <2>2, <3>1, <4>1 DEF Stacked, Above, Below
        <4> QED
          BY <1>1, <1>2, <1>4, <4>1, <4>2
      <3> QED
        BY <2>2, <3>2, <3>3
    <2>3. Stacked(Below)' /\ Stacked(Above)'
      BY <2>1, <2>2 DEF Stacked, Below, Above
    <2>4. \A h \in Below' : FromNode(h)'
      BY <1>7, <2>1 DEF Below
    <2>5. Deleting'
      BY <1>5, <2>3, <2>4 DEF Deleting
    <2> QED
      BY <1>2, <1>5, <1>6, <2>1, <2>5 DEF Tidy, Comparing, Unlinking, Copying, Deriving
  <1> QED
    BY <1>8, <1>9

\* What one step of a pass finds: the three last blocks cover both tables.
LEMMA SizesTidy ==
    ASSUME IInv, RowsOwned, Tidy, ReadSizes
    PROVE  Tidy'
  <1> DEFINE L == LastBlockInBlocksTable
             D == LastBlockInDataTable
  <1>1. Top \in Nat /\ Heights = 1 .. Top /\ head \in 1 .. Top
    BY HeightsType, HeadType DEF IInv
  <1>2. /\ pc = "sizes" /\ pc' = "blocks" /\ UNCHANGED <<node, tables, got, failed>>
        /\ latest' = head /\ last' = [blocks |-> L, data |-> D]
        /\ pending' = IF L < head THEN Window(L, OffsetBlocks, head) ELSE {}
    BY DEF ReadSizes
  <1>3. /\ \A h \in Heights : FromNode(h)
        /\ Stacked(Heights) /\ Keyed /\ RowsThere
    BY <1>2 DEF Tidy
  <1>4. \A h \in Heights : got[h] = None
    BY <1>2 DEF IInv, WorkInErrgroup, Indexing
  <1>5. L \in 0 .. Top /\ (L # 0 => Stored(L))
    BY LastBlockFacts
  <1>6. \A h \in Heights : h <= L => Stored(h)
    BY <1>1, <1>3, <1>5 DEF Stacked
  <1>7. \A h \in Heights : h <= head => Stored(h) \/ h \in pending'
    <2> TAKE h \in Heights
    <2> HAVE h <= head
    <2>1. CASE h <= L
      BY <1>6, <2>1
    <2>2. CASE h > L
      <3>1. OffsetBlocks \in Nat
        BY Eth1Assumption
      <3>2. L < head /\ L - OffsetBlocks <= h
        BY <1>1, <1>5, <2>2, <3>1
      <3> QED
        BY <1>2, <3>2 DEF Window
    <2> QED
      BY <1>1, <1>5, <2>1, <2>2
  <1>8. \A h \in pending' : h <= head
    BY <1>2 DEF Window
  <1>9. D \in 0 .. Top /\ (D # 0 => Stored(D))
    <2>1. D \in 0 .. Top
      BY LastRowFacts
    <2>2. ASSUME D # 0 PROVE Stored(D)
      <3>1. PICK k \in Keys : data[k] # None /\ HeightOf(data[k]) = D
        BY <2>2, LastRowFacts
      <3> QED
        BY <1>3, <3>1 DEF RowsThere, Stored
    <2> QED
      BY <2>1, <2>2
  <1>10. \A h \in Heights : h <= D => Stored(h) /\ blocks[h] \in keyRows
    BY <1>1, <1>3, <1>9 DEF Stacked, Keyed
  <1>11. Copying'
    <2>1. last'.data = D
      BY <1>2
    <2> QED
      BY <1>2, <1>4, <1>7, <1>8, <1>10, <2>1 DEF Copying, Stored
  <1>12. RowsThere' /\ BelowHead' /\ ~failed' /\ \A h \in Heights : FromNode(h)'
    BY <1>2, <1>3 DEF Tidy, RowsThere, BelowHead, FromNode, Stored
  <1> QED
    BY <1>2, <1>11, <1>12 DEF Tidy, Comparing, Deleting, Unlinking, Deriving

\* A goroutine of IndexFromNode gets the node's block, for the node has it.
LEMMA FetchTidy ==
    ASSUME IInv, Tidy, NEW h \in Heights, FetchBlock(h)
    PROVE  Tidy'
  <1>1. /\ pc = "blocks" /\ UNCHANGED <<node, tables, pc, latest, last>>
        /\ h \in pending /\ latest = head
    BY DEF FetchBlock, Started, Tidy
  <1>2. h <= head
    BY <1>1 DEF Tidy, Copying
  <1>3. got' = [got EXCEPT ![h] = branch[h]] /\ UNCHANGED <<pending, failed>>
    BY <1>2 DEF FetchBlock
  <1>4. Copying'
    BY <1>1, <1>3 DEF Tidy, Copying, Stored, IInv, TypeOK
  <1>5. RowsThere' /\ BelowHead' /\ ~failed' /\ \A g \in Heights : FromNode(g)'
    BY <1>1, <1>3 DEF Tidy, RowsThere, BelowHead, FromNode, Stored
  <1> QED
    BY <1>1, <1>4, <1>5 DEF Tidy, Comparing, Deleting, Unlinking, Deriving

\* It overwrites no block but with itself, so that no row loses its block.
LEMMA SaveTidy ==
    ASSUME IInv, Tidy, NEW h \in Heights, SaveBlock(h)
    PROVE  Tidy'
  <1>1. /\ pc = "blocks" /\ UNCHANGED <<node, data, keyRows, pc, latest, last, failed>>
        /\ got[h] # None /\ Ends(h) /\ latest = head
        /\ blocks' = [blocks EXCEPT ![h] = got[h]]
    BY DEF SaveBlock, Tidy
  <1>2. h \in pending /\ h <= head /\ got[h] = branch[h] /\ FromNode(h)
    BY <1>1 DEF IInv, WorkInErrgroup, Tidy, Copying
  <1>3. \A g \in Heights : /\ Stored(g)' <=> Stored(g) \/ g = h
                           /\ Stored(g) => blocks'[g] = blocks[g]
                           /\ FromNode(g)'
    <2> TAKE g \in Heights
    <2>1. CASE g = h
      BY <1>1, <1>2, <2>1 DEF FromNode, Stored, IInv, TypeOK
    <2>2. CASE g # h
      <3>1. blocks'[g] = blocks[g] /\ FromNode(g)
        BY <1>1, <2>2 DEF IInv, TypeOK, Tidy
      <3> QED
        BY <1>1, <2>2, <3>1 DEF FromNode, Stored
    <2> QED
      BY <2>1, <2>2
  <1>4. BelowHead' /\ ~failed'
    BY <1>1, <1>2, <1>3 DEF Tidy, BelowHead
  <1>5. RowsThere'
    <2> SUFFICES ASSUME NEW k \in Keys, data[k] # None
                 PROVE  blocks'[HeightOf(data[k])] = data[k]
      BY <1>1 DEF RowsThere
    <2>1. blocks[HeightOf(data[k])] = data[k]
      BY DEF Tidy, RowsThere
    <2>2. CASE HeightOf(data[k]) = h
      BY <1>3, <2>1, <2>2 DEF Stored
    <2>3. CASE HeightOf(data[k]) # h
      BY <1>1, <2>1, <2>3 DEF IInv, TypeOK
    <2> QED
      BY <2>2, <2>3
  <1>6. Copying'
    <2>1. pending' = pending \ {h}
      BY <1>1 DEF Ends
    <2>2. \A g \in Heights : got'[g] # None => got'[g] = got[g]
      BY <1>1, EndsType
    <2>3. \A g \in Heights : got'[g] # None => got'[g] = branch'[g]
      BY <1>1, <2>2 DEF Tidy, Copying
    <2>4. \A g \in Heights : g <= latest => Stored(g)' \/ g \in pending'
      BY <1>1, <1>3, <2>1 DEF Tidy, Copying
    <2>5. \A g \in Heights : g <= last.data => Stored(g)' /\ blocks'[g] \in keyRows
      BY <1>1, <1>3 DEF Tidy, Copying
    <2> QED
      BY <1>1, <2>1, <2>3, <2>4, <2>5 DEF Tidy, Copying
  <1> QED
    BY <1>1, <1>3, <1>4, <1>5, <1>6 DEF Tidy, Comparing, Deleting, Unlinking, Deriving

\* No height of the pass is left out of the blocks table, and those of the data
\* table that are not read again have their keys.
LEMMA BlocksDoneTidy ==
    ASSUME IInv, Tidy, BlocksDone
    PROVE  Tidy'
  <1>1. Top \in Nat /\ Heights = 1 .. Top /\ latest \in 0 .. Top /\ last.data \in 0 .. Top
    BY HeightsType DEF IInv, TypeOK
  <1>2. /\ pc = "blocks" /\ pending = {} /\ ~failed /\ pc' = "data"
        /\ UNCHANGED <<node, tables, latest, last, got, failed>> /\ latest = head
        /\ pending' = IF last.data < latest
                      THEN Window(last.data, OffsetData, latest) ELSE {}
    BY DEF BlocksDone, Tidy
  <1>3. \A h \in Heights : got[h] = None
    BY <1>2 DEF IInv, WorkInErrgroup
  <1>4. \A h \in Heights : h <= latest => Stored(h)
    BY <1>2 DEF Tidy, Copying
  <1>5. \A h \in Heights : h <= latest => blocks[h] \in keyRows \/ h \in pending'
    <2> TAKE h \in Heights
    <2> HAVE h <= latest
    <2>1. CASE h <= last.data
      BY <1>2, <2>1 DEF Tidy, Copying
    <2>2. CASE h > last.data
      <3>1. OffsetData \in Nat
        BY Eth1Assumption
      <3>2. last.data < latest /\ last.data - OffsetData <= h
        BY <1>1, <2>2, <3>1
      <3> QED
        BY <1>2, <3>2 DEF Window
    <2> QED
      BY <1>1, <2>1, <2>2
  <1>6. \A h \in pending' : h <= latest
    BY <1>2 DEF Window
  <1>7. Deriving'
    BY <1>2, <1>3, <1>4, <1>5, <1>6 DEF Deriving, Stored
  <1>8. RowsThere' /\ BelowHead' /\ ~failed' /\ \A h \in Heights : FromNode(h)'
    BY <1>2 DEF Tidy, RowsThere, BelowHead, FromNode, Stored
  <1> QED
    BY <1>2, <1>7, <1>8 DEF Tidy, Comparing, Deleting, Unlinking, Copying

\* A goroutine of IndexFromBigtable finds the block and saves its keys.
LEMMA SaveKeysTidy ==
    ASSUME IInv, Tidy, NEW h \in Heights, SaveBlockKeys(h)
    PROVE  Tidy'
  <1>1. /\ pc = "data" /\ UNCHANGED <<node, blocks, data, pc, latest, last>>
        /\ h \in pending /\ latest = head
    BY DEF SaveBlockKeys, Started, Tidy
  <1>2. Stored(h)
    BY <1>1 DEF Tidy, Deriving
  <1>3. /\ got' = [got EXCEPT ![h] = blocks[h]] /\ UNCHANGED <<pending, failed>>
        /\ keyRows' = keyRows \cup {blocks[h]}
    BY <1>2 DEF SaveBlockKeys, Stored
  <1>4. Deriving'
    BY <1>1, <1>3 DEF Tidy, Deriving, Stored, IInv, TypeOK
  <1>5. RowsThere' /\ BelowHead' /\ ~failed' /\ \A g \in Heights : FromNode(g)'
    BY <1>1, <1>3 DEF Tidy, RowsThere, BelowHead, FromNode, Stored
  <1> QED
    BY <1>1, <1>4, <1>5 DEF Tidy, Comparing, Deleting, Unlinking, Copying

\* The rows it writes are those of the block of its height.
LEMMA WriteTidy ==
    ASSUME IInv, BlocksInPlace, Tidy, NEW h \in Heights, WriteData(h)
    PROVE  Tidy'
  <1>1. /\ pc = "data" /\ UNCHANGED <<node, blocks, keyRows, pc, latest, last, failed>>
        /\ got[h] # None /\ Ends(h) /\ latest = head
        /\ Written(KeysOf(got[h]), got[h])
    BY DEF WriteData, Tidy
  <1>2. /\ got[h] = blocks[h] /\ got[h] \in keyRows /\ HeightOf(got[h]) = h
        /\ h \in pending
    BY <1>1 DEF Tidy, Deriving, IInv, GotHasKeys, BlocksInPlace, WorkInErrgroup
  <1>3. RowsThere'
    <2> SUFFICES ASSUME NEW k \in Keys, data'[k] # None
                 PROVE  blocks[HeightOf(data'[k])] = data'[k]
      BY <1>1 DEF RowsThere
    <2>1. CASE data'[k] = got[h]
      BY <1>2, <2>1
    <2>2. CASE data'[k] # got[h]
      <3>1. data'[k] = data[k]
        BY <1>1, <2>2 DEF Written
      <3> QED
        BY <3>1 DEF Tidy, RowsThere
    <2> QED
      BY <2>1, <2>2
  <1>4. Deriving'
    <2>1. pending' = pending \ {h}
      BY <1>1 DEF Ends
    <2>2. \A g \in Heights : got'[g] # None => got'[g] = got[g]
      BY <1>1, EndsType
    <2>3. \A g \in Heights : g <= latest => blocks[g] \in keyRows \/ g \in pending'
      BY <1>1, <1>2, <2>1 DEF Tidy, Deriving
    <2> QED
      BY <1>1, <2>1, <2>2, <2>3 DEF Tidy, Deriving, Stored
  <1>5. BelowHead' /\ ~failed' /\ \A g \in Heights : FromNode(g)'
    BY <1>1 DEF Tidy, BelowHead, FromNode, Stored
  <1> QED
    BY <1>1, <1>3, <1>4, <1>5 DEF Tidy, Comparing, Deleting, Unlinking, Copying

\* A pass that ends leaves no gap up to the head and no block without keys.
LEMMA DataDoneTidy ==
    ASSUME IInv, Tidy, DataDone
    PROVE  Tidy'
  <1>1. Top \in Nat /\ Heights = 1 .. Top
    BY HeightsType
  <1>2. /\ pc = "data" /\ pending = {} /\ UNCHANGED <<node, tables>>
        /\ pc' = "asleep" /\ ~failed' /\ latest = head
    BY DEF DataDone, Restart, Tidy
  <1>3. Stacked(Heights)
    BY <1>1, <1>2, HeadType DEF Tidy, Deriving, BelowHead, Stacked, IInv
  <1>4. Keyed
    BY <1>2 DEF Tidy, Deriving, BelowHead, Keyed
  <1>5. RowsThere' /\ BelowHead' /\ Stacked(Heights)' /\ Keyed'
    BY <1>2, <1>3, <1>4 DEF Tidy, RowsThere, BelowHead, Stacked, Stored, Keyed
  <1> QED
    BY <1>2, <1>5 DEF Tidy, Comparing, Deleting, Unlinking, Copying, Deriving

\* RowInv is inductive while the replaced blocks are within reach.
THEOREM RowsStep == IInv /\ RowInv /\ WithinReach /\ [Next]_vars => RowInv'
  <1> SUFFICES ASSUME IInv, RowInv, WithinReach, [Next]_vars PROVE RowInv'
    OBVIOUS
  <1>1. RowsOwned /\ BlocksInPlace /\ RowsOwned' /\ BlocksInPlace'
    BY OwnersStay DEF RowInv
  <1>2. ASSUME Undisturbed' PROVE Tidy'
    <2>1. /\ Undisturbed /\ head' \in Int /\ head' >= head
          /\ ~ReorgsFail /\ ~Crash /\ \A h \in Heights : ~IndexFails(h)
      BY <1>2, UndisturbedBefore DEF IInv
    <2>2. Tidy
      BY <2>1 DEF RowInv
    <2>3. CASE NewBlock \/ Reorg \/ UNCHANGED vars
      BY <2>1, <2>2, <2>3, NodeTidy
    <2>4. CASE StartPass \/ Compare \/ DeleteDataRows \/ DeleteBlockRow
      BY <1>1, <2>2, <2>4, StartTidy, CompareTidy, DeleteRowsTidy, DeleteBlockTidy
    <2>5. CASE ReadSizes \/ BlocksDone \/ DataDone
      BY <1>1, <2>2, <2>5, SizesTidy, BlocksDoneTidy, DataDoneTidy
    <2>6. CASE \E h \in Heights : \/ FetchBlock(h) \/ SaveBlock(h)
                                  \/ SaveBlockKeys(h) \/ WriteData(h)
      BY <1>1, <2>2, <2>6, FetchTidy, SaveTidy, SaveKeysTidy, WriteTidy
    <2> QED
      BY <2>1, <2>3, <2>4, <2>5, <2>6 DEF Next, PassStep
  <1> QED
    BY <1>1, <1>2 DEF RowInv

\* RowInv says more than RowsHaveTheirBlock.
LEMMA RowInvImplies == RowInv => RowsHaveTheirBlock
  BY DEF RowInv, Undisturbed, Tidy, RowsThere, RowsHaveTheirBlock

\* While every block the node replaced is within reorg.depth of its head, the
\* block of each data row is in the blocks table: HandleChainReorgs has deleted
\* the rows of every block before IndexFromNode writes another at its height.
THEOREM RowsKeepTheirBlock == Spec /\ []WithinReach => []RowsHaveTheirBlock
  BY InitRows, Invariance, RowsStep, RowInvImplies, PTL DEF Spec

\* So it is without a condition when no chain is longer than the depth.
THEOREM RowsKeepTheirBlockOnShortChains ==
    (\A p \in Branches : Len(p) <= ReorgDepth + 1) => (Spec => []RowsHaveTheirBlock)
  <1> SUFFICES ASSUME \A p \in Branches : Len(p) <= ReorgDepth + 1
               PROVE  Spec => []RowsHaveTheirBlock
    OBVIOUS
  <1>1. IInv => WithinReach
    <2> SUFFICES ASSUME IInv PROVE WithinReach
      OBVIOUS
    <2>1. head \in 1 .. Len(branch) /\ Len(branch) <= ReorgDepth + 1
          /\ Len(branch) \in Nat /\ ReorgDepth \in Nat /\ Top \in Nat /\ Heights = 1 .. Top
      BY HeightsType, Eth1Assumption DEF IInv, TypeOK
    <2> QED
      BY <2>1 DEF WithinReach
  <1> QED
    BY <1>1, Invariance, RowsKeepTheirBlock, PTL

-----------------------------------------------------------------------------
(* What a pass leaves in the tables *)

RowsAgree(h) == \A k \in KeysOf(branch[h]) : data[k] = branch[h]

(***************************************************************************)
(* What blocks.offset and data.offset ask of the tables: what a pass does  *)
(* not read again, because it is further below the last block of its table *)
(* than the offset, is already the node's.                                 *)
(***************************************************************************)
OldAgrees ==
    pc = "sizes" /\ LastBlockInBlocksTable < head /\ LastBlockInDataTable < head =>
        \A h \in 1 .. head :
            /\ h < LastBlockInBlocksTable - OffsetBlocks => blocks[h] = branch[h]
            /\ h < LastBlockInDataTable - OffsetData => RowsAgree(h)

\* A pass during which the node does not move, with something to copy, and in
\* which nothing has failed so far.
Passing ==
    /\ Calm /\ Indexing /\ ~failed
    /\ last.blocks < latest /\ last.data < latest

\* Each height is still to be done or right, in the table that is written.
HalfWay ==
    /\ latest = head
    /\ \A h \in pending : h <= latest
    /\ \A h \in Heights : got[h] # None => got[h] = branch[h]
    /\ pc = "blocks" => \A h \in 1 .. latest :
           /\ h \in pending \/ blocks[h] = branch[h]
           /\ h < last.data - OffsetData => RowsAgree(h)
    /\ pc = "data" => \A h \in 1 .. latest :
           /\ blocks[h] = branch[h]
           /\ h \in pending \/ RowsAgree(h)

PassInv == Passing => HalfWay

\* Two blocks of one chain have no row in common.
LEMMA KeysDisjoint ==
    ASSUME NEW p \in Branches, NEW g \in DOMAIN p, NEW h \in DOMAIN p, g # h
    PROVE  KeysOf(p[g]) \cap KeysOf(p[h]) = {}
  <1>1. PICK b, c : b = p[g] /\ c = p[h]
    OBVIOUS
  <1>2. HeightOf(b) = g /\ HeightOf(c) = h
    BY <1>1, HeightOfBlock
  <1>3. TxsOf[b] \cap TxsOf[c] = {}
    BY <1>1, Eth1Assumption
  <1>4. HeightOf(b) # HeightOf(c) /\ b # c
    BY <1>2
  <1>5. KeysOf(b) \cap KeysOf(c) = {}
    BY <1>3, <1>4 DEF KeysOf, HeightKey
  <1> QED
    BY <1>1, <1>5

\* The rows of a block of the chain are rows of the table.
LEMMA KeysAreKeys ==
    ASSUME TypeOK, NEW h \in 1 .. head
    PROVE  KeysOf(branch[h]) \subseteq Keys
  <1>1. branch[h] \in Blocks
    BY HeadType, HeightsType DEF TypeOK
  <1> QED
    BY <1>1 DEF Keys

\* Before the first pass nothing is half done.
LEMMA PassInvInit == Init => PassInv
  BY DEF Init, PassInv, Passing, Indexing

\* What IndexFromNode does not copy again is the node's.
LEMMA SizesPass ==
    ASSUME IInv, OldAgrees, ReadSizes, Passing'
    PROVE  HalfWay'
  <1> DEFINE L == LastBlockInBlocksTable
             D == LastBlockInDataTable
  <1>1. Top \in Nat /\ Heights = 1 .. Top /\ head \in 1 .. Top
    BY HeightsType, HeadType DEF IInv
  <1>2. L \in 0 .. Top /\ D \in 0 .. Top /\ OffsetBlocks \in Nat
    BY <1>1, LastBlocksType, Eth1Assumption
  <1>3. /\ pc = "sizes" /\ pc' = "blocks" /\ UNCHANGED <<branch, head, blocks, data, got>>
        /\ latest' = head /\ last' = [blocks |-> L, data |-> D]
        /\ pending' = IF L < head THEN Window(L, OffsetBlocks, head) ELSE {}
    BY DEF ReadSizes
  <1>4. L < head /\ D < head
    BY <1>3 DEF Passing
  <1>5. pending' = Window(L, OffsetBlocks, head)
    BY <1>3, <1>4
  <1>6. \A h \in pending' : h <= head
    BY <1>5 DEF Window
  <1>7. \A h \in Heights : got[h] = None
    BY <1>3 DEF IInv, WorkInErrgroup, Indexing
  <1>8. ASSUME NEW h \in 1 .. head
        PROVE  /\ h \in pending' \/ blocks[h] = branch[h]
               /\ h < D - OffsetData => RowsAgree(h)
    <2>1. /\ h < L - OffsetBlocks => blocks[h] = branch[h]
          /\ h < D - OffsetData => RowsAgree(h)
      BY <1>3, <1>4 DEF OldAgrees
    <2>2. h \in Heights /\ h <= head
      BY <1>1
    <2>3. ~ (h < L - OffsetBlocks) => h \in pending'
      BY <1>1, <1>2, <1>5, <2>2 DEF Window
    <2> QED
      BY <2>1, <2>3
  <1>9. \A h : RowsAgree(h)' = RowsAgree(h)
    BY <1>3 DEF RowsAgree
  <1>10. last'.data = D
    BY <1>3
  <1> HIDE DEF L, D
  <1> QED
    BY <1>3, <1>6, <1>7, <1>8, <1>9, <1>10 DEF HalfWay

\* A goroutine of IndexFromNode gets and saves the node's block.
LEMMA CopyPass ==
    ASSUME IInv, NEW h \in Heights, FetchBlock(h) \/ SaveBlock(h), Passing, HalfWay, Passing'
    PROVE  HalfWay'
  <1>1. /\ pc = "blocks" /\ h \in pending /\ h <= head /\ latest = head
        /\ UNCHANGED <<branch, head, data, pc, latest, last>>
    BY DEF FetchBlock, SaveBlock, Started, IInv, WorkInErrgroup, HalfWay
  <1>2. /\ \A g \in pending : g <= latest
        /\ \A g \in Heights : got[g] # None => got[g] = branch[g]
        /\ \A g \in 1 .. latest : /\ g \in pending \/ blocks[g] = branch[g]
                                  /\ g < last.data - OffsetData => RowsAgree(g)
    BY <1>1 DEF HalfWay
  <1>3. \A g : RowsAgree(g)' = RowsAgree(g)
    BY <1>1 DEF RowsAgree
  <1>4. CASE FetchBlock(h)
    <2>1. got' = [got EXCEPT ![h] = branch[h]] /\ UNCHANGED <<pending, blocks>>
      BY <1>1, <1>4 DEF FetchBlock
    <2>2. \A g \in Heights : got'[g] # None => got'[g] = branch[g]
      BY <1>2, <2>1 DEF IInv, TypeOK
    <2> QED
      BY <1>1, <1>2, <1>3, <2>1, <2>2 DEF HalfWay
  <1>5. CASE SaveBlock(h)
    <2>1. got[h] # None /\ Ends(h) /\ pending' = pending \ {h}
          /\ blocks' = [blocks EXCEPT ![h] = got[h]]
      BY <1>5 DEF SaveBlock, Ends
    <2>2. \A g \in Heights : got'[g] # None => got'[g] = branch[g]
      BY <1>2, <2>1, EndsType
    <2>3. ASSUME NEW g \in 1 .. latest
          PROVE  g \in pending' \/ blocks'[g] = branch[g]
      <3>1. CASE g = h
        BY <1>2, <2>1, <3>1 DEF IInv, TypeOK
      <3>2. CASE g # h
        BY <1>2, <2>1, <3>2 DEF IInv, TypeOK
      <3> QED
        BY <3>1, <3>2
    <2> QED
      BY <1>1, <1>2, <1>3, <2>1, <2>2, <2>3 DEF HalfWay
  <1> QED
    BY <1>4, <1>5

\* The blocks table is right, and so are the rows that are not written again.
LEMMA BlocksDonePass ==
    ASSUME IInv, BlocksDone, Passing, HalfWay, Passing'
    PROVE  HalfWay'
  <1>1. Top \in Nat /\ Heights = 1 .. Top /\ latest \in 0 .. Top /\ last.data \in 0 .. Top
        /\ OffsetData \in Nat
    BY HeightsType, Eth1Assumption DEF IInv, TypeOK
  <1>2. /\ pc = "blocks" /\ pending = {} /\ pc' = "data"
        /\ UNCHANGED <<branch, head, blocks, data, latest, last, got>>
        /\ pending' = Window(last.data, OffsetData, latest)
    BY DEF BlocksDone, Passing
  <1>3. latest = head /\ \A h \in Heights : got[h] = None
    BY <1>2 DEF HalfWay, IInv, WorkInErrgroup
  <1>4. \A h \in pending' : h <= latest
    BY <1>2 DEF Window
  <1>5. ASSUME NEW h \in 1 .. latest
        PROVE  blocks[h] = branch[h] /\ (h \in pending' \/ RowsAgree(h))
    <2>1. blocks[h] = branch[h] /\ (h < last.data - OffsetData => RowsAgree(h))
      BY <1>2 DEF HalfWay
    <2>2. ~ (h < last.data - OffsetData) => h \in pending'
      BY <1>1, <1>2 DEF Window
    <2> QED
      BY <2>1, <2>2
  <1>6. \A h : RowsAgree(h)' = RowsAgree(h)
    BY <1>2 DEF RowsAgree
  <1> QED
    BY <1>2, <1>3, <1>4, <1>5, <1>6 DEF HalfWay

\* A goroutine of IndexFromBigtable writes the rows of the node's block, and no
\* row of another block of the chain.
LEMMA DerivePass ==
    ASSUME IInv, NEW h \in Heights, SaveBlockKeys(h) \/ WriteData(h), Passing, HalfWay, Passing'
    PROVE  HalfWay'
  <1>1. /\ pc = "data" /\ h \in pending /\ latest = head /\ h \in 1 .. latest
        /\ UNCHANGED <<branch, head, blocks, pc, latest, last>>
    <2>1. pc = "data" /\ h \in pending /\ UNCHANGED <<branch, head, blocks, pc, latest, last>>
      BY DEF SaveBlockKeys, WriteData, Started, IInv, WorkInErrgroup
    <2>2. latest = head /\ h <= latest
      BY <2>1 DEF HalfWay
    <2>3. h \in 1 .. Top /\ Top \in Nat /\ latest \in 0 .. Top
      BY HeightsType DEF IInv, TypeOK
    <2> QED
      BY <2>1, <2>2, <2>3
  <1>2. /\ \A g \in pending : g <= latest
        /\ \A g \in Heights : got[g] # None => got[g] = branch[g]
        /\ \A g \in 1 .. latest : blocks[g] = branch[g] /\ (g \in pending \/ RowsAgree(g))
    BY <1>1 DEF HalfWay
  <1>3. CASE SaveBlockKeys(h)
    <2>1. blocks[h] = branch[h] /\ branch[h] # None
      BY <1>1, <1>2, NodeBlock DEF IInv
    <2>2. got' = [got EXCEPT ![h] = branch[h]] /\ UNCHANGED <<pending, data>>
      BY <1>3, <2>1 DEF SaveBlockKeys
    <2>3. \A g \in Heights : got'[g] # None => got'[g] = branch[g]
      BY <1>2, <2>2 DEF IInv, TypeOK
    <2>4. \A g : RowsAgree(g)' = RowsAgree(g)
      BY <1>1, <2>2 DEF RowsAgree
    <2> QED
      BY <1>1, <1>2, <2>2, <2>3, <2>4 DEF HalfWay
  <1>4. CASE WriteData(h)
    <2>1. Ends(h) /\ pending' = pending \ {h} /\ got[h] = branch[h]
          /\ Written(KeysOf(branch[h]), branch[h])
      BY <1>2, <1>4 DEF WriteData, Ends
    <2>2. \A g \in Heights : got'[g] # None => got'[g] = branch[g]
      BY <1>2, <2>1, EndsType
    <2>3. ASSUME NEW g \in 1 .. latest
          PROVE  g \in pending' \/ RowsAgree(g)'
      <3>1. KeysOf(branch[g]) \subseteq Keys
        BY <1>1, KeysAreKeys DEF IInv
      <3>2. CASE g = h
        <4>1. \A k \in KeysOf(branch[g]) : data'[k] = branch[g]
          BY <2>1, <3>1, <3>2 DEF Written
        <4> QED
          BY <1>1, <4>1 DEF RowsAgree
      <3>3. CASE g # h /\ RowsAgree(g)
        <4>1. branch \in Branches /\ g \in DOMAIN branch /\ h \in DOMAIN branch
          <5>1. branch \in Branches /\ head \in 1 .. Len(branch) /\ Len(branch) \in Nat
                /\ DOMAIN branch = 1 .. Len(branch)
            BY HeightsType DEF IInv, TypeOK
          <5> QED
            BY <1>1, <5>1
        <4>2. KeysOf(branch[g]) \cap KeysOf(branch[h]) = {}
          BY <3>3, <4>1, KeysDisjoint
        <4>3. \A k \in KeysOf(branch[g]) : data'[k] = data[k]
          BY <2>1, <3>1, <4>2 DEF Written
        <4> QED
          BY <1>1, <3>3, <4>3 DEF RowsAgree
      <3>4. g # h /\ ~RowsAgree(g) => g \in pending'
        BY <1>2, <2>1
      <3> QED
        BY <3>2, <3>3, <3>4
    <2> QED
      BY <1>1, <1>2, <2>1, <2>2, <2>3 DEF HalfWay
  <1> QED
    BY <1>3, <1>4

\* PassInv is inductive when what lies before the windows is right.
THEOREM PassStepAgrees == IInv /\ PassInv /\ OldAgrees /\ [Next]_vars => PassInv'
  <1> SUFFICES ASSUME IInv, PassInv, OldAgrees, [Next]_vars, Passing' PROVE HalfWay'
    BY DEF PassInv
  <1>1. pc' \in {"blocks", "data"} /\ ~failed' /\ Calm
    BY DEF Passing, Indexing
  <1>2. CASE UNCHANGED vars
    <2>1. Passing /\ HalfWay
      BY <1>2 DEF Passing, Indexing, PassInv
    <2> QED
      BY <1>2, <2>1 DEF HalfWay, RowsAgree
  <1>3. CASE ReadSizes
    BY <1>3, SizesPass
  <1>4. ASSUME NEW h \in Heights, FetchBlock(h) \/ SaveBlock(h) PROVE HalfWay'
    <2>1. Passing
      BY <1>1, <1>4 DEF Passing, Indexing, FetchBlock, SaveBlock, EndsWithError
    <2> QED
      BY <1>4, <2>1, CopyPass DEF PassInv
  <1>5. CASE BlocksDone
    <2>1. pc = "blocks" /\ ~failed /\ UNCHANGED <<latest, last>>
      BY <1>1, <1>5 DEF BlocksDone, Restart
    <2>2. Passing
      BY <1>1, <2>1 DEF Passing, Indexing
    <2> QED
      BY <1>5, <2>2, BlocksDonePass DEF PassInv
  <1>6. ASSUME NEW h \in Heights, SaveBlockKeys(h) \/ WriteData(h) PROVE HalfWay'
    <2>1. Passing
      BY <1>1, <1>6 DEF Passing, Indexing, SaveBlockKeys, WriteData, EndsWithError
    <2> QED
      BY <1>6, <2>1, DerivePass DEF PassInv
  <1>7. \A h \in Heights : ~IndexFails(h)
    BY <1>1 DEF IndexFails, EndsWithError
  <1>8. ~Crash /\ ~DataDone /\ ~ReorgsFail
    BY <1>1 DEF Crash, DataDone, Restart, ReorgsFail, ReorgsEnd
  <1>9. ~NewBlock /\ ~Reorg
    BY <1>1 DEF NewBlock, Reorg, NodeMayMove
  <1>10. ~StartPass /\ ~Compare /\ ~DeleteDataRows /\ ~DeleteBlockRow
    BY <1>1 DEF StartPass, Compare, DeleteDataRows, DeleteBlockRow, NextHeight, ReorgsEnd
  <1> QED
    BY <1>2, <1>3, <1>4, <1>5, <1>6, <1>7, <1>8, <1>9, <1>10 DEF Next, PassStep

\* A pass that ends has nothing left to do.
LEMMA PassInvImplies ==
    PassInv => [Calm /\ DataDone /\ ~failed /\ last.blocks < latest /\ last.data < latest
                  => BlocksAgree(latest) /\ DataAgrees(latest)]_vars
  BY DEF PassInv, Passing, HalfWay, Indexing, DataDone, BlocksAgree, DataAgrees, RowsAgree

\* When the node stands still during a pass that copies blocks (main.go:194-250) and
\* comes to its end, both tables hold the node's chain up to its head, whatever
\* earlier passes that failed have left there, if only what lies further below
\* the last blocks than blocks.offset and data.offset was right before.
THEOREM PassesLeaveTheChain == Spec /\ []OldAgrees => PassAgrees
  <1>1. PassInv /\ [Next]_vars =>
          [Calm /\ DataDone /\ ~failed /\ last.blocks < latest /\ last.data < latest
             => BlocksAgree(latest) /\ DataAgrees(latest)]_vars
    BY PassInvImplies
  <1> QED
    BY <1>1, PassInvInit, Invariance, PassStepAgrees, PTL DEF Spec, PassAgrees

\* So it is without a condition when the offsets reach back over every chain.
THEOREM PassesLeaveShortChains ==
    (\A p \in Branches : Len(p) <= OffsetBlocks + 1 /\ Len(p) <= OffsetData + 1)
      => (Spec => PassAgrees)
  <1> SUFFICES ASSUME \A p \in Branches : Len(p) <= OffsetBlocks + 1 /\ Len(p) <= OffsetData + 1
               PROVE  Spec => PassAgrees
    OBVIOUS
  <1>1. OldAgrees
    <2>1. Top \in Nat /\ Heights = 1 .. Top /\ OffsetBlocks \in Nat /\ OffsetData \in Nat
          /\ Top <= OffsetBlocks + 1 /\ Top <= OffsetData + 1
      BY HeightsType, Eth1Assumption
    <2>2. LastBlockInBlocksTable \in 0 .. Top /\ LastBlockInDataTable \in 0 .. Top
      BY <2>1, LastBlocksType
    <2>3. \A h \in 1 .. head : ~ (h < LastBlockInBlocksTable - OffsetBlocks)
                               /\ ~ (h < LastBlockInDataTable - OffsetData)
      BY <2>1, <2>2
    <2> QED
      BY <2>3 DEF OldAgrees
  <1> QED
    BY <1>1, PassesLeaveTheChain, PTL

-----------------------------------------------------------------------------
(* Nothing is left out *)

\* The stored blocks are of one chain, not always of the node's.
OneChain == \E p \in Branches : \A h \in Heights : Stored(h) => h \in DOMAIN p /\ p[h] = blocks[h]

\* The block of a height has all of its rows, if there is one.
Complete(h) == Stored(h) => \A k \in KeysOf(blocks[h]) : data[k] = blocks[h]

(***************************************************************************)
(* Between passes every stored block has its rows.  The block whose rows   *)
(* are deleted loses them alone; a block that is copied lies above the     *)
(* last row of a height, from where IndexFromBigtable goes on.             *)
(***************************************************************************)
Whole ==
    /\ OneChain
    /\ pc \in {"asleep", "compare", "delete", "sizes"} => \A h \in Heights : Complete(h)
    /\ pc = "unlink" => \A h \in Heights : h # cursor => Complete(h)
    /\ pc = "blocks" => \A h \in Heights : h <= last.data => Complete(h)
    /\ pc = "data" => \A h \in Heights : h \in pending \/ Complete(h)

\* A pass that ends while nothing has gone wrong leaves the node's chain in both
\* tables, whether it had something to copy or not.
QuietPassesAgree ==
    [][Undisturbed /\ DataDone => BlocksAgree(latest) /\ DataAgrees(latest)]_vars

WholeInv == Undisturbed => Whole

\* Two blocks of the table have no row in common.
LEMMA StoredDisjoint ==
    ASSUME OneChain, NEW g \in Heights, NEW h \in Heights, g # h, Stored(g), Stored(h)
    PROVE  KeysOf(blocks[g]) \cap KeysOf(blocks[h]) = {}
  <1>1. PICK p \in Branches : \A i \in Heights : Stored(i) => i \in DOMAIN p /\ p[i] = blocks[i]
    BY DEF OneChain
  <1>2. g \in DOMAIN p /\ h \in DOMAIN p /\ p[g] = blocks[g] /\ p[h] = blocks[h]
    BY <1>1
  <1> QED
    BY <1>2, KeysDisjoint

\* The rows of a block of the table are rows of the data table.
LEMMA StoredKeys ==
    ASSUME TypeOK, NEW h \in Heights, Stored(h)
    PROVE  blocks[h] \in Blocks /\ KeysOf(blocks[h]) \subseteq Keys
  <1>1. blocks[h] \in Blocks
    BY DEF TypeOK, Stored
  <1> QED
    BY <1>1 DEF Keys

\* At the start the first block has its rows.
LEMMA WholeInit == Init => WholeInv
  <1> SUFFICES ASSUME Init PROVE Whole
    BY DEF WholeInv
  <1>1. branch \in Branches /\ 1 \in DOMAIN branch
    BY Eth1Assumption DEF Init
  <1>2. branch[1] \in Blocks /\ branch[1] # None /\ 1 \in Heights
    BY <1>1, HeightOfBlock
  <1>3. \A h \in Heights : Stored(h) => h = 1 /\ blocks[h] = branch[1]
    BY <1>2 DEF Init, Stored
  <1>4. OneChain
    BY <1>1, <1>3 DEF OneChain
  <1>5. KeysOf(branch[1]) \subseteq Keys
    BY <1>2 DEF Keys
  <1>6. \A k \in KeysOf(branch[1]) : data[k] = branch[1]
    BY <1>5 DEF Init
  <1>7. \A h \in Heights : Complete(h)
    BY <1>3, <1>6 DEF Complete
  <1> QED
    BY <1>4, <1>7 DEF Init, Whole

\* A step that leaves both tables alone leaves every block with its rows.
LEMMA TablesStay ==
    ASSUME UNCHANGED <<blocks, data>>
    PROVE  OneChain' = OneChain /\ \A h : Complete(h)' = Complete(h)
  BY DEF OneChain, Complete, Stored

\* The node, HandleChainReorgs and the steps between the phases.
LEMMA QuietWhole ==
    ASSUME IInv, Undisturbed, Tidy, Whole,
           \/ NewBlock \/ Reorg \/ UNCHANGED vars
           \/ StartPass \/ Compare \/ ReadSizes \/ BlocksDone \/ DataDone
    PROVE  Whole'
  <1>1. UNCHANGED <<blocks, data>>
    BY DEF NewBlock, Reorg, StartPass, Compare, ReadSizes, BlocksDone, DataDone
  <1>2. OneChain' /\ \A h : Complete(h)' = Complete(h)
    BY <1>1, TablesStay DEF Whole
  <1>3. CASE NewBlock \/ Reorg \/ UNCHANGED vars
    <2>1. UNCHANGED <<pc, cursor, last, pending>>
      BY <1>3 DEF NewBlock, Reorg
    <2> QED
      BY <1>2, <2>1 DEF Whole
  <1>4. CASE StartPass \/ Compare
    <2>1. pc \in {"asleep", "compare"} /\ pc' \in {"compare", "delete", "sizes"}
      BY <1>4 DEF StartPass, Compare, NextHeight, ReorgsEnd
    <2> QED
      BY <1>2, <2>1 DEF Whole
  <1>5. CASE ReadSizes
    <2>1. pc = "sizes" /\ pc' = "blocks"
      BY <1>5 DEF ReadSizes
    <2> QED
      BY <1>2, <2>1 DEF Whole
  <1>6. CASE BlocksDone
    <2>1. /\ pc = "blocks" /\ pc' = "data" /\ latest = head
          /\ pending' = IF last.data < latest THEN Window(last.data, OffsetData, latest) ELSE {}
      BY <1>6 DEF BlocksDone, Tidy
    <2>2. Top \in Nat /\ Heights = 1 .. Top /\ latest \in 0 .. Top /\ last.data \in 0 .. Top
          /\ OffsetData \in Nat
      <3>1. Top \in Nat /\ Heights = 1 .. Top
        BY ONLY HeightsType
      <3>2. latest \in Heights \cup {0} /\ last.data \in Heights \cup {0}
        BY DEF IInv, TypeOK
      <3>3. latest \in 0 .. Top /\ last.data \in 0 .. Top
        BY ONLY <3>1, <3>2
      <3> QED
        BY <3>1, <3>3, Eth1Assumption
    <2>3. ASSUME NEW h \in Heights
          PROVE  h \in pending' \/ Complete(h)
      <3>1. CASE h <= last.data
        BY <2>1, <3>1 DEF Whole
      <3>2. CASE h > last.data /\ h <= latest
        BY <2>1, <2>2, <3>2 DEF Window
      <3>3. CASE h > latest
        <4>1. ~Stored(h)
          BY <2>1, <2>2, <3>3 DEF Tidy, BelowHead
        <4> QED
          BY <4>1 DEF Complete
      <3> QED
        BY <2>2, <3>1, <3>2, <3>3
    <2> QED
      BY <1>2, <2>1, <2>3 DEF Whole
  <1>7. CASE DataDone
    <2>1. pc = "data" /\ pending = {} /\ pc' = "asleep"
      BY <1>7 DEF DataDone, Restart
    <2> QED
      BY <1>2, <2>1 DEF Whole
  <1> QED
    BY <1>3, <1>4, <1>5, <1>6, <1>7

\* Only the block that is going to leave the table loses rows.
LEMMA DeleteWhole ==
    ASSUME IInv, Whole, DeleteDataRows \/ DeleteBlockRow
    PROVE  Whole'
  <1>1. cursor \in Heights
    <2>1. cursor \in 1 .. latest /\ latest \in Heights \cup {0}
      BY DEF DeleteDataRows, DeleteBlockRow, IInv, CursorInRange, TypeOK
    <2> QED
      BY <2>1, HeightsType
  <1>2. CASE DeleteDataRows /\ data' = data
    <2>1. UNCHANGED <<blocks, data>> /\ pc = "delete" /\ pc' \in {"sizes", "unlink"}
      BY <1>2 DEF DeleteDataRows, ReorgsEnd
    <2> QED
      BY <2>1, TablesStay DEF Whole
  <1>3. CASE DeleteDataRows /\ data' # data
    <2> DEFINE b == blocks[cursor]
    <2>1. /\ pc = "delete" /\ pc' = "unlink" /\ cursor' = cursor /\ blocks' = blocks
          /\ Stored(cursor)
          /\ data' = [k \in Keys |-> IF k \in KeysOf(b) THEN None ELSE data[k]]
      BY <1>3 DEF DeleteDataRows, ReorgsEnd, Stored
    <2>2. OneChain' /\ OneChain
      BY <2>1 DEF Whole, OneChain, Stored
    <2>3. ASSUME NEW h \in Heights, h # cursor, Stored(h)
          PROVE  \A k \in KeysOf(blocks[h]) : data'[k] = blocks[h]
      <3>1. KeysOf(blocks[h]) \cap KeysOf(b) = {}
        BY <1>1, <2>1, <2>2, <2>3, StoredDisjoint
      <3>2. KeysOf(blocks[h]) \subseteq Keys
        BY <2>3, StoredKeys DEF IInv
      <3>3. \A k \in KeysOf(blocks[h]) : data[k] = blocks[h]
        BY <2>1, <2>3 DEF Whole, Complete
      <3> HIDE DEF b
      <3> QED
        BY <2>1, <3>1, <3>2, <3>3
    <2>4. \A h \in Heights : h # cursor => Complete(h)'
      BY <2>1, <2>3 DEF Complete, Stored
    <2> QED
      BY <2>1, <2>2, <2>4 DEF Whole
  <1>4. CASE DeleteBlockRow
    <2>1. /\ pc = "unlink" /\ pc' \in {"sizes", "delete"} /\ data' = data
          /\ blocks' = [blocks EXCEPT ![cursor] = None]
      BY <1>4 DEF DeleteBlockRow, NextHeight
    <2>2. \A h \in Heights : Stored(h)' => h # cursor /\ Stored(h) /\ blocks'[h] = blocks[h]
      BY <1>1, <2>1 DEF Stored, IInv, TypeOK
    <2>3. OneChain'
      <3>1. PICK p \in Branches :
              \A h \in Heights : Stored(h) => h \in DOMAIN p /\ p[h] = blocks[h]
        BY DEF Whole, OneChain
      <3>2. \A h \in Heights : Stored(h)' => h \in DOMAIN p /\ p[h] = blocks'[h]
        BY <2>2, <3>1
      <3> QED
        BY <3>2 DEF OneChain
    <2>4. \A h \in Heights : Complete(h)'
      BY <2>1, <2>2 DEF Whole, Complete
    <2> QED
      BY <2>1, <2>3, <2>4 DEF Whole
  <1> QED
    BY <1>2, <1>3, <1>4

\* A copy of a block that has rows already is the same block.
LEMMA CopyWhole ==
    ASSUME IInv, Tidy, Whole, NEW h \in Heights, FetchBlock(h) \/ SaveBlock(h)
    PROVE  Whole'
  <1>1. pc = "blocks" /\ UNCHANGED <<node, data, pc, last>> /\ latest = head
    BY DEF FetchBlock, SaveBlock, Tidy
  <1>2. CASE FetchBlock(h)
    <2>1. UNCHANGED <<blocks, data>>
      BY <1>2 DEF FetchBlock
    <2> QED
      BY <1>1, <2>1, TablesStay DEF Whole
  <1>3. CASE SaveBlock(h)
    <2>1. got[h] # None /\ blocks' = [blocks EXCEPT ![h] = got[h]]
      BY <1>3 DEF SaveBlock
    <2>2. h \in pending /\ got[h] = branch[h] /\ h <= head
      BY <1>1, <2>1 DEF IInv, WorkInErrgroup, Tidy, Copying
    <2>3. \A g \in Heights : /\ g # h => blocks'[g] = blocks[g]
                             /\ blocks'[h] = branch[h]
      BY <2>1, <2>2 DEF IInv, TypeOK
    <2>4. \A g \in Heights : Stored(g) => blocks[g] = branch[g] /\ g <= head
      BY <1>1 DEF Tidy, FromNode, BelowHead
    <2>5. \A g \in Heights : Stored(g)' => blocks'[g] = branch[g] /\ g <= head
      BY <2>2, <2>3, <2>4 DEF Stored
    <2>6. branch \in Branches /\ \A g \in Heights : g <= head => g \in DOMAIN branch
      <3>1. branch \in Branches /\ head \in 1 .. Len(branch) /\ Len(branch) \in Nat
            /\ DOMAIN branch = 1 .. Len(branch) /\ Heights = 1 .. Top /\ Top \in Nat
        BY HeightsType DEF IInv, TypeOK
      <3> QED
        BY <3>1
    <2>7. OneChain'
      BY <2>5, <2>6 DEF OneChain
    <2>8. ASSUME NEW g \in Heights, g <= last.data
          PROVE  Complete(g)'
      <3>1. Stored(g) /\ Complete(g)
        BY <1>1, <2>8 DEF Tidy, Copying, Whole
      <3>2. blocks'[g] = blocks[g]
        BY <2>2, <2>3, <2>4, <3>1
      <3> QED
        BY <1>1, <3>1, <3>2 DEF Complete, Stored
    <2> QED
      BY <1>1, <2>7, <2>8 DEF Whole
  <1> QED
    BY <1>2, <1>3

\* A block gets its rows, and no other block of the table loses one.
LEMMA DeriveWhole ==
    ASSUME IInv, Tidy, Whole, NEW h \in Heights, SaveBlockKeys(h) \/ WriteData(h)
    PROVE  Whole'
  <1>1. pc = "data" /\ UNCHANGED <<blocks, pc>>
    BY DEF SaveBlockKeys, WriteData
  <1>2. OneChain /\ OneChain' /\ \A g \in Heights : g \in pending \/ Complete(g)
    BY <1>1 DEF Whole, OneChain, Stored
  <1>3. CASE SaveBlockKeys(h)
    <2>1. h \in pending
      BY <1>3 DEF SaveBlockKeys, Started
    <2>2. Stored(h)
      BY <1>1, <2>1 DEF Tidy, Deriving
    <2>3. UNCHANGED <<blocks, data, pending>>
      BY <1>3, <2>2 DEF SaveBlockKeys, Stored
    <2> QED
      BY <1>1, <1>2, <2>3, TablesStay DEF Whole
  <1>4. CASE WriteData(h)
    <2>1. got[h] # None /\ pending' = pending \ {h} /\ Written(KeysOf(got[h]), got[h])
      BY <1>4 DEF WriteData, Ends
    <2>2. got[h] = blocks[h] /\ Stored(h)
      BY <1>1, <2>1 DEF Tidy, Deriving, Stored
    <2>3. \A k \in Keys : data'[k] = IF k \in KeysOf(blocks[h]) THEN blocks[h] ELSE data[k]
      BY <2>1, <2>2 DEF Written
    <2>4. ASSUME NEW g \in Heights
          PROVE  g \in pending' \/ Complete(g)'
      <3>1. CASE ~Stored(g)
        BY <1>1, <3>1 DEF Complete, Stored
      <3>2. CASE g = h
        <4>1. KeysOf(blocks[h]) \subseteq Keys
          BY <2>2, StoredKeys DEF IInv
        <4>2. \A k \in KeysOf(blocks[h]) : data'[k] = blocks[h]
          BY <2>3, <4>1
        <4> QED
          BY <1>1, <3>2, <4>2 DEF Complete
      <3>3. CASE g # h /\ Stored(g) /\ Complete(g)
        <4>1. KeysOf(blocks[g]) \cap KeysOf(blocks[h]) = {}
          BY <1>2, <2>2, <3>3, StoredDisjoint
        <4>2. KeysOf(blocks[g]) \subseteq Keys
          BY <3>3, StoredKeys DEF IInv
        <4>3. \A k \in KeysOf(blocks[g]) : data[k] = blocks[g]
          BY <3>3 DEF Complete
        <4>4. \A k \in KeysOf(blocks[g]) : data'[k] = blocks[g]
          BY <2>3, <4>1, <4>2, <4>3
        <4> QED
          BY <1>1, <4>4 DEF Complete
      <3>4. CASE g # h /\ ~Complete(g)
        BY <1>2, <2>1, <3>4
      <3> QED
        BY <3>1, <3>2, <3>3, <3>4
    <2> QED
      BY <1>1, <1>2, <2>4 DEF Whole
  <1> QED
    BY <1>3, <1>4

\* Whole is inductive together with the invariant about the block of a row.
THEOREM WholeStep == IInv /\ RowInv /\ WholeInv /\ [Next]_vars => WholeInv'
  <1> SUFFICES ASSUME IInv, RowInv, WholeInv, [Next]_vars, Undisturbed' PROVE Whole'
    BY DEF WholeInv
  <1>1. Undisturbed /\ ~ReorgsFail /\ ~Crash /\ \A h \in Heights : ~IndexFails(h)
    BY UndisturbedBefore DEF IInv
  <1>2. Tidy /\ Whole
    BY <1>1 DEF RowInv, WholeInv
  <1>3. CASE \/ NewBlock \/ Reorg \/ UNCHANGED vars
             \/ StartPass \/ Compare \/ ReadSizes \/ BlocksDone \/ DataDone
    BY <1>1, <1>2, <1>3, QuietWhole
  <1>4. CASE DeleteDataRows \/ DeleteBlockRow
    BY <1>2, <1>4, DeleteWhole
  <1>5. CASE \E h \in Heights : \/ FetchBlock(h) \/ SaveBlock(h)
                                \/ SaveBlockKeys(h) \/ WriteData(h)
    BY <1>2, <1>5, CopyWhole, DeriveWhole
  <1> QED
    BY <1>1, <1>3, <1>4, <1>5 DEF Next, PassStep

\* At the end of a pass every height has its block and every block its rows.
LEMMA WholeImplies ==
    IInv /\ RowInv /\ WholeInv =>
      [Undisturbed /\ DataDone => BlocksAgree(latest) /\ DataAgrees(latest)]_vars
  <1> SUFFICES ASSUME IInv, RowInv, WholeInv, Undisturbed, DataDone,
                      NEW h \in 1 .. latest
               PROVE  blocks[h] = branch[h] /\ \A k \in KeysOf(branch[h]) : data[k] = branch[h]
    BY DEF BlocksAgree, DataAgrees
  <1>1. Tidy /\ Whole /\ pc = "data" /\ pending = {}
    BY DEF RowInv, WholeInv, DataDone
  <1>2. h \in Heights /\ h <= latest
    BY HeightsType DEF IInv, TypeOK
  <1>3. Stored(h) /\ FromNode(h)
    BY <1>1, <1>2 DEF Tidy, Deriving
  <1>4. Complete(h)
    BY <1>1, <1>2 DEF Whole
  <1> QED
    BY <1>3, <1>4 DEF FromNode, Complete

\* Below the last block of a table nothing is missing.
LEMMA WholeOld ==
    ASSUME IInv, RowInv, WholeInv, Undisturbed
    PROVE  OldAgrees
  <1> DEFINE L == LastBlockInBlocksTable
             D == LastBlockInDataTable
  <1> SUFFICES ASSUME pc = "sizes", NEW h \in 1 .. head
               PROVE  /\ h < L - OffsetBlocks => blocks[h] = branch[h]
                      /\ h < D - OffsetData => RowsAgree(h)
    BY DEF OldAgrees
  <1>1. Tidy /\ Whole /\ RowsOwned
    BY DEF RowInv, WholeInv
  <1>2. Top \in Nat /\ Heights = 1 .. Top /\ head \in 1 .. Top /\ h \in Heights
        /\ OffsetBlocks \in Nat /\ OffsetData \in Nat
    BY HeightsType, HeadType, Eth1Assumption DEF IInv
  <1>3. Stacked(Heights) /\ FromNode(h) /\ Complete(h) /\ RowsThere
    BY <1>1, <1>2 DEF Tidy, Whole
  <1>4. L \in 0 .. Top /\ (L # 0 => Stored(L))
    BY LastBlockFacts
  <1>5. D \in 0 .. Top /\ (D # 0 => Stored(D))
    <2>1. D \in 0 .. Top
      BY <1>1, LastRowFacts
    <2>2. ASSUME D # 0 PROVE Stored(D)
      <3>1. PICK k \in Keys : data[k] # None /\ HeightOf(data[k]) = D
        BY <1>1, <2>2, LastRowFacts
      <3> QED
        BY <1>3, <3>1 DEF RowsThere, Stored
    <2> QED
      BY <2>1, <2>2
  <1> HIDE DEF L, D
  <1>6. h < L \/ h < D => Stored(h)
    BY <1>2, <1>3, <1>4, <1>5 DEF Stacked
  <1>7. h < L - OffsetBlocks => h < L
    BY <1>2, <1>4
  <1>8. h < D - OffsetData => h < D
    BY <1>2, <1>5
  <1>9. Stored(h) => blocks[h] = branch[h] /\ RowsAgree(h)
    BY <1>3 DEF FromNode, Complete, RowsAgree
  <1> QED
    BY <1>6, <1>7, <1>8, <1>9

\* While nothing has gone wrong and every block the node replaced was within
\* reorg.depth of its head, the condition of PassesLeaveTheChain holds at the
\* start of every pass, whatever the offsets are.
THEOREM NothingOldIsMissed == Spec /\ []WithinReach => [](Undisturbed => OldAgrees)
  <1>1. IInv /\ RowInv /\ WholeInv => (Undisturbed => OldAgrees)
    BY WholeOld
  <1> QED
    BY <1>1, InitRows, WholeInit, Invariance, RowsStep, WholeStep, PTL DEF Spec

\* Then every pass leaves the node's chain in both tables up to its head, also
\* one that only had blocks to delete or nothing to do: HandleChainReorgs takes
\* exactly the blocks with rows out, and IndexFromNode and IndexFromBigtable
\* fill in all that is missing (main.go:194-250, bigtable_eth1.go:3070).
THEOREM QuietPassesFollow == Spec /\ []WithinReach => QuietPassesAgree
  <1>1. IInv /\ RowInv /\ WholeInv =>
          [Undisturbed /\ DataDone => BlocksAgree(latest) /\ DataAgrees(latest)]_vars
    BY WholeImplies
  <1> QED
    BY <1>1, InitRows, WholeInit, Invariance, RowsStep, WholeStep, PTL
       DEF Spec, QuietPassesAgree
=============================================================================
