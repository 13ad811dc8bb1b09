--------------------------- MODULE ExportsProofs ---------------------------
(***************************************************************************)
(* Proofs about the components behind the export of an epoch, in the       *)
(* composition the runs check: whatever component moves, for every value   *)
(* of the constants.                                                       *)
(***************************************************************************)
EXTENDS MCExports, Sequences, NumberLemmas

-----------------------------------------------------------------------------
(* The composition *)

\* A step of the composition is a step of one component, and the variables of
\* the others stay.
LEMMA ComponentSteps ==
    ASSUME [Next]_vars
    PROVE  /\ W!Next \/ UNCHANGED ofWrites
           /\ S!Next \/ UNCHANGED ofStatistics
           /\ C!Next \/ UNCHANGED ofCaches
           /\ H!Next \/ UNCHANGED ofHistory
           /\ U!Next \/ UNCHANGED ofStartup
           /\ N!Next \/ UNCHANGED ofClient
           /\ active' = active
  BY DEF Next, Writing, Counting, Caching, Keeping, Repairing, Asking, vars, ofWrites,
         ofStatistics, ofCaches, ofHistory, ofStartup, ofClient

-----------------------------------------------------------------------------
(* The caches of the frontend *)

(***************************************************************************)
(* A number in the local tier is not ahead of the table it was read from,  *)
(* and the tables keep the order of finality: the finalized epoch that     *)
(* epochUpdater has cached in its turn is not above the latest one it      *)
(* reads in the next.                                                      *)
(***************************************************************************)
CachesOrder ==
    /\ clock \in 0 .. MaxClock /\ turn \in {1, 2}
    /\ table \in [epoch : 0 .. MaxClock, finalized : 0 .. MaxClock]
    /\ table.finalized <= table.epoch /\ table.epoch <= clock
    /\ local["finalized"] <= table.finalized
    /\ \A k \in {"epoch", "slot", "eth1"} : local[k] <= table.epoch

CachesInv == C!TypeOK /\ CachesOrder /\ C!DelayIsReal

\* The caches start empty.
LEMMA CachesInit == C!Init => CachesInv
  <1>1. MaxClock \in Nat
    BY ExportsAssumption DEF C!FrontendCachesAssumption
  <1> QED
    BY <1>1 DEF CachesInv, CachesOrder, C!TypeOK, C!DelayIsReal, C!Init, C!Nothing,
                C!Numbers, C!Read, C!Miss, C!Updaters

\* What LatestEpoch and LatestSlot return is an epoch, and 0 for no value.
LEMMA ReadingsType ==
    ASSUME C!TypeOK, NEW k \in C!Read
    PROVE  C!Readings(k) \subseteq 0 .. MaxClock
  <1>1. MaxClock \in Nat
    BY ExportsAssumption DEF C!FrontendCachesAssumption
  <1> QED
    BY <1>1 DEF C!TypeOK, C!Readings, C!Read, C!Numbers, C!Miss

\* SetUint64 writes the local tier and perhaps the remote one.
LEMMA SetNumberType ==
    ASSUME C!TypeOK, NEW k \in C!Numbers, NEW n \in 0 .. MaxClock, C!SetNumber(k, n)
    PROVE  /\ local' \in [C!Numbers -> C!Miss .. MaxClock]
           /\ local' = [local EXCEPT ![k] = n]
           /\ remote' \in [C!Read -> C!Miss .. MaxClock]
  <1>1. MaxClock \in Nat
    BY ExportsAssumption DEF C!FrontendCachesAssumption
  <1>2. local' = [local EXCEPT ![k] = n]
    BY DEF C!SetNumber
  <1>3. remote' = remote \/ remote' = [j \in C!Read |-> IF j = k THEN n ELSE remote[j]]
    BY DEF C!SetNumber
  <1>4. remote' \in [C!Read -> C!Miss .. MaxClock]
    BY <1>1, <1>3 DEF C!TypeOK, C!Miss
  <1> QED
    BY <1>1, <1>2, <1>4 DEF C!TypeOK, C!Miss

\* The clock and the tables only move on.
LEMMA WorldStep ==
    ASSUME CachesInv, C!World
    PROVE  CachesInv' /\ UNCHANGED <<local, lost>>
  <1>1. MaxClock \in Nat
    BY ExportsAssumption DEF C!FrontendCachesAssumption
  <1>2. UNCHANGED <<local, remote, charts, turn, started, lost>>
    BY DEF C!World, C!Tick, C!Indexed, C!StoreDay
  <1>3. C!TypeOK' /\ C!DelayIsReal'
    BY <1>2 DEF CachesInv, C!TypeOK, C!DelayIsReal
  <1>4. /\ clock' \in 0 .. MaxClock
        /\ table' \in [epoch : 0 .. MaxClock, finalized : 0 .. MaxClock]
        /\ table'.finalized <= table'.epoch /\ table'.epoch <= clock'
        /\ table.finalized <= table'.finalized /\ table.epoch <= table'.epoch
    <2>0. CachesOrder
      BY DEF CachesInv
    <2>1. CASE C!Tick
      BY <1>1, <2>0, <2>1 DEF C!Tick, CachesOrder
    <2>2. CASE C!Indexed /\ table.epoch < clock /\ table' = [table EXCEPT !.epoch = @ + 1]
      BY <1>1, <2>0, <2>2 DEF C!Indexed, CachesOrder
    <2>3. CASE C!Indexed /\ table.finalized < table.epoch
               /\ table' = [table EXCEPT !.finalized = @ + 1]
      BY <1>1, <2>0, <2>3 DEF C!Indexed, CachesOrder
    <2>4. CASE C!StoreDay
      BY <1>1, <2>0, <2>4 DEF C!StoreDay, CachesOrder
    <2> QED
      BY <2>1, <2>2, <2>3, <2>4 DEF C!World, C!Indexed
  <1>5. CachesOrder'
    <2>1. \A k \in {"epoch", "slot", "eth1", "finalized"} : local[k] \in Int
      BY DEF CachesInv, C!TypeOK, C!Numbers, C!Miss
    <2> QED
      BY <1>2, <1>4, <2>1 DEF CachesInv, CachesOrder
  <1> QED
    BY <1>2, <1>3, <1>5 DEF CachesInv

\* The charts take the latest epoch, a reading that is an epoch.
LEMMA ChartsStep ==
    ASSUME CachesInv, C!UpdateCharts
    PROVE  CachesInv' /\ UNCHANGED local
  <1>1. MaxClock \in Nat
    BY ExportsAssumption DEF C!FrontendCachesAssumption
  <1>2. PICK latest \in C!Readings("epoch") : C!ChartsOf(latest)
    BY DEF C!UpdateCharts
  <1>3. latest \in 0 .. MaxClock
    BY <1>2, ReadingsType DEF CachesInv, C!Read
  <1>4. UNCHANGED <<clock, table, storeDays, local, remote, turn>>
    BY DEF C!UpdateCharts, C!world
  <1>5. charts' \in [page : C!Miss .. MaxClock, prev : 0 .. MaxClock]
    BY <1>1, <1>2, <1>3 DEF C!ChartsOf, CachesInv, C!TypeOK, C!Miss
  <1>6. /\ started' = started \cup {"charts"}
        /\ lost' \in {lost \ {"charts"}, lost \cup {"charts"}}
    BY <1>2 DEF C!ChartsOf, C!Done
  <1>7. C!TypeOK'
    BY <1>4, <1>5, <1>6 DEF CachesInv, C!TypeOK, C!Updaters, C!Numbers
  <1>8. CachesOrder' /\ C!DelayIsReal'
    BY <1>4, <1>6 DEF CachesInv, CachesOrder, C!DelayIsReal
  <1> QED
    BY <1>4, <1>7, <1>8 DEF CachesInv

\* Updaters that only make a page.
LEMMA PageStep ==
    ASSUME CachesInv, C!UpdateSlotViz \/ C!UpdatePools \/ C!UpdateRelays
    PROVE  CachesInv' /\ UNCHANGED local
  <1>1. /\ UNCHANGED <<clock, table, storeDays, local, remote, charts, turn, lost>>
        /\ \E u \in {"slotViz", "pools", "relays"} : started' = started \cup {u}
    BY DEF C!UpdateSlotViz, C!UpdatePools, C!UpdateRelays, C!Done, C!world
  <1> QED
    BY <1>1 DEF CachesInv, CachesOrder, C!TypeOK, C!DelayIsReal, C!Updaters, C!Numbers

\* epochUpdater caches the finalized epoch, then the latest one.
LEMMA EpochStep ==
    ASSUME CachesInv, C!UpdateEpoch
    PROVE  CachesInv' /\ \A k \in C!Numbers : local'[k] >= local[k]
  <1> DEFINE k == C!Turn(turn)
  <1>1. /\ CachesOrder /\ C!TypeOK /\ C!DelayIsReal /\ MaxClock \in Nat
        /\ \A n \in C!Numbers : local[n] \in Int
    BY ExportsAssumption DEF CachesInv, C!FrontendCachesAssumption, C!TypeOK, C!Miss
  <1>2. UNCHANGED <<clock, table, storeDays, charts>> /\ turn' = 3 - turn
    BY DEF C!UpdateEpoch, C!world
  <1>3. k = IF turn = 1 THEN "finalized" ELSE "epoch"
    BY <1>1 DEF C!Turn, CachesOrder
  <1>4. table[k] \in 0 .. MaxClock /\ k \in C!Numbers
    BY <1>1, <1>3 DEF CachesOrder, C!Numbers
  <1>5. CASE /\ C!SetNumber(k, table[k]) /\ lost' = lost \ {k}
             /\ IF k = "epoch" THEN C!Done("epoch") ELSE UNCHANGED started
    <2>1. /\ local' \in [C!Numbers -> C!Miss .. MaxClock]
          /\ local' = [local EXCEPT ![k] = table[k]]
          /\ remote' \in [C!Read -> C!Miss .. MaxClock]
      BY <1>1, <1>4, <1>5, SetNumberType
    <2>2. \A n \in C!Numbers : local'[n] = IF n = k THEN table[k] ELSE local[n]
      BY <1>1, <2>1 DEF C!TypeOK
    <2>3. \A n \in C!Numbers : local'[n] >= local[n]
      BY <1>1, <1>3, <1>4, <2>2 DEF CachesOrder
    <2>4. started' \subseteq C!Updaters
          /\ \A n \in started' \cap C!Numbers : n \in started \/ n = k
      BY <1>1, <1>5 DEF C!TypeOK, C!Done, C!Updaters
    <2>5. \A n \in started' \cap C!Numbers : local'[n] # C!Miss
      BY <1>1, <1>4, <2>2, <2>4 DEF C!TypeOK, C!Miss
    <2>6. C!TypeOK'
      BY <1>1, <1>2, <2>1, <2>4, <2>5 DEF C!TypeOK
    <2>7. CASE turn = 1
      <3>1. local'["finalized"] = table.finalized /\ turn' = 2
            /\ \A n \in {"epoch", "slot", "eth1"} : local'[n] = local[n]
        BY <1>1, <1>2, <1>3, <2>2, <2>7 DEF C!Numbers
      <3>2. CachesOrder' /\ C!DelayIsReal'
        BY <1>1, <1>2, <3>1 DEF CachesOrder, C!DelayIsReal
      <3> QED
        BY <2>3, <2>6, <3>2 DEF CachesInv
    <2>8. CASE turn = 2
      <3>1. local'["epoch"] = table.epoch /\ turn' = 1
            /\ \A n \in {"finalized", "slot", "eth1"} : local'[n] = local[n]
        BY <1>1, <1>2, <1>3, <2>2, <2>8 DEF C!Numbers
      <3>2. local'["finalized"] <= local'["epoch"]
        BY <1>1, <3>1 DEF CachesOrder, C!Numbers
      <3>3. CachesOrder' /\ C!DelayIsReal'
        BY <1>1, <1>2, <3>1, <3>2 DEF CachesOrder, C!DelayIsReal
      <3> QED
        BY <2>3, <2>6, <3>3 DEF CachesInv
    <2> QED
      BY <1>1, <2>7, <2>8 DEF CachesOrder
  <1>6. CASE lost' = lost \cup {k} /\ UNCHANGED <<local, remote, started>>
    <2>1. C!TypeOK' /\ CachesOrder'
      BY <1>1, <1>2, <1>6 DEF C!TypeOK, CachesOrder
    <2>2. C!DelayIsReal'
      BY <1>1, <1>2, <1>3, <1>6 DEF C!DelayIsReal, CachesOrder
    <2>3. \A n \in C!Numbers : local'[n] >= local[n]
      BY <1>1, <1>6
    <2> QED
      BY <2>1, <2>2, <2>3 DEF CachesInv
  <1> QED
    BY <1>5, <1>6 DEF C!UpdateEpoch

\* slotUpdater and the updater of the latest execution block, which caches the
\* number 0 when its query fails.
LEMMA NumberStep ==
    ASSUME CachesInv, C!UpdateSlot \/ C!UpdateBlock
    PROVE  /\ CachesInv'
           /\ \A n \in C!Numbers : local'[n] >= local[n] \/ (n = "eth1" /\ n \in lost')
  <1>1. /\ CachesOrder /\ C!TypeOK /\ C!DelayIsReal /\ MaxClock \in Nat
        /\ \A n \in C!Numbers : local[n] \in Int
    BY ExportsAssumption DEF CachesInv, C!FrontendCachesAssumption, C!TypeOK, C!Miss
  <1>2. UNCHANGED <<clock, table, storeDays, charts, turn>>
    BY DEF C!UpdateSlot, C!UpdateBlock, C!world
  <1>3. PICK k \in {"slot", "eth1"} :
           /\ \/ /\ C!SetNumber(k, table.epoch) /\ C!Done(k)
                 /\ lost' = lost \/ lost' = lost \ {"eth1"}
              \/ /\ k = "eth1" /\ lost' = lost \cup {"eth1"} /\ C!Done(k)
                 /\ local' = [local EXCEPT !["eth1"] = 0] /\ UNCHANGED remote
              \/ UNCHANGED <<local, remote, started, lost>>
    <2>1. CASE C!UpdateSlot
      BY <2>1 DEF C!UpdateSlot
    <2>2. CASE C!UpdateBlock
      BY <2>2 DEF C!UpdateBlock
    <2> QED
      BY <2>1, <2>2
  <1>4. table.epoch \in 0 .. MaxClock /\ k \in C!Numbers
    BY <1>1 DEF CachesOrder, C!Numbers
  <1>5. ASSUME NEW n \in 0 .. table.epoch, local' = [local EXCEPT ![k] = n], C!Done(k),
               remote' \in [C!Read -> C!Miss .. MaxClock],
               lost' \in {lost, lost \ {"eth1"}, lost \cup {"eth1"}},
               n = table.epoch \/ (k = "eth1" /\ k \in lost')
        PROVE  /\ CachesInv'
               /\ \A m \in C!Numbers : local'[m] >= local[m] \/ (m = "eth1" /\ m \in lost')
    <2>1. n \in 0 .. MaxClock
      BY <1>1, <1>4
    <2>2. local' \in [C!Numbers -> C!Miss .. MaxClock]
          /\ \A m \in C!Numbers : local'[m] = IF m = k THEN n ELSE local[m]
      BY <1>1, <1>4, <1>5, <2>1 DEF C!TypeOK, C!Miss
    <2>3. started' \subseteq C!Updaters
          /\ \A m \in started' \cap C!Numbers : local'[m] # C!Miss
      BY <1>1, <1>5, <2>1, <2>2 DEF C!TypeOK, C!Done, C!Updaters, C!Miss
    <2>4. C!TypeOK'
      BY <1>1, <1>2, <1>5, <2>2, <2>3 DEF C!TypeOK
    <2>5. local'["finalized"] = local["finalized"] /\ local'["epoch"] = local["epoch"]
      BY <2>2 DEF C!Numbers
    <2>6. \A m \in {"epoch", "slot", "eth1"} : local'[m] <= table.epoch
      BY <1>1, <1>4, <1>5, <2>2 DEF CachesOrder, C!Numbers
    <2>7. CachesOrder' /\ C!DelayIsReal'
      BY <1>1, <1>2, <1>5, <2>5, <2>6 DEF CachesOrder, C!DelayIsReal
    <2>8. \A m \in C!Numbers : local'[m] >= local[m] \/ (m = "eth1" /\ m \in lost')
      BY <1>1, <1>4, <1>5, <2>2 DEF CachesOrder
    <2> QED
      BY <2>4, <2>7, <2>8 DEF CachesInv
  <1>6. CASE C!SetNumber(k, table.epoch) /\ C!Done(k)
             /\ (lost' = lost \/ lost' = lost \ {"eth1"})
    <2>1. local' = [local EXCEPT ![k] = table.epoch]
          /\ remote' \in [C!Read -> C!Miss .. MaxClock]
      BY <1>1, <1>4, <1>6, SetNumberType
    <2>2. table.epoch \in 0 .. table.epoch
      BY <1>1, <1>4
    <2> QED
      BY <1>5, <1>6, <2>1, <2>2
  <1>7. CASE /\ k = "eth1" /\ lost' = lost \cup {"eth1"} /\ C!Done(k)
             /\ local' = [local EXCEPT !["eth1"] = 0] /\ UNCHANGED remote
    <2>1. 0 \in 0 .. table.epoch
      BY <1>1, <1>4
    <2>2. local' = [local EXCEPT ![k] = 0] /\ remote' \in [C!Read -> C!Miss .. MaxClock]
      BY <1>1, <1>7 DEF C!TypeOK
    <2> QED
      BY <1>5, <1>7, <2>1, <2>2
  <1>8. CASE UNCHANGED <<local, remote, started, lost>>
    <2>1. CachesInv'
      BY <1>1, <1>2, <1>8 DEF CachesInv, CachesOrder, C!TypeOK, C!DelayIsReal
    <2> QED
      BY <1>1, <1>8, <2>1
  <1> QED
    BY <1>3, <1>6, <1>7, <1>8

\* A process that starts again has an empty local tier.
LEMMA RestartStep ==
    ASSUME CachesInv, C!Restart
    PROVE  CachesInv'
  <1>1. MaxClock \in Nat
    BY ExportsAssumption DEF C!FrontendCachesAssumption
  <1>2. /\ local' = [k \in C!Numbers |-> -1] /\ turn' = 1 /\ started' = {}
        /\ charts' = [charts EXCEPT !.prev = 0]
        /\ UNCHANGED <<clock, table, storeDays, remote, lost>>
    BY DEF C!Restart, C!Nothing, C!Miss, C!world
  <1>3. C!TypeOK'
    BY <1>1, <1>2 DEF CachesInv, C!TypeOK, C!Miss
  <1>4. CachesOrder' /\ C!DelayIsReal'
    BY <1>1, <1>2 DEF CachesInv, CachesOrder, C!DelayIsReal, C!Numbers
  <1> QED
    BY <1>3, <1>4 DEF CachesInv

\* CachesInv is inductive, and a step that takes a number back is a restart or
\* the failed query of the latest execution block.
LEMMA CachesStep ==
    ASSUME CachesInv, C!Next \/ UNCHANGED ofCaches
    PROVE  /\ CachesInv'
           /\ \A k \in C!Numbers :
                local'[k] < local[k] => C!Restart \/ (k = "eth1" /\ k \in lost')
  <1>0. \A k \in C!Numbers : local[k] \in Int
    BY DEF CachesInv, C!TypeOK, C!Miss
  <1>1. CASE UNCHANGED ofCaches
    BY <1>0, <1>1 DEF ofCaches, CachesInv, CachesOrder, C!TypeOK, C!DelayIsReal
  <1>2. CASE C!World
    BY <1>0, <1>2, WorldStep
  <1>3. CASE C!UpdateEpoch
    <2>1. CachesInv' /\ \A k \in C!Numbers : local'[k] >= local[k]
      BY <1>3, EpochStep
    <2>2. \A k \in C!Numbers : local'[k] \in Int
      BY <2>1 DEF CachesInv, C!TypeOK, C!Miss
    <2> QED
      BY <1>0, <2>1, <2>2
  <1>4. CASE C!UpdateSlot \/ C!UpdateBlock
    <2>1. CachesInv' /\ \A k \in C!Numbers :
            local'[k] >= local[k] \/ (k = "eth1" /\ k \in lost')
      BY <1>4, NumberStep
    <2>2. \A k \in C!Numbers : local'[k] \in Int
      BY <2>1 DEF CachesInv, C!TypeOK, C!Miss
    <2> QED
      BY <1>0, <2>1, <2>2
  <1>5. CASE C!UpdateSlotViz \/ C!UpdatePools \/ C!UpdateRelays
    BY <1>0, <1>5, PageStep
  <1>6. CASE C!UpdateCharts
    BY <1>0, <1>6, ChartsStep
  <1>7. CASE C!Restart
    BY <1>7, RestartStep
  <1> QED
    BY <1>1, <1>2, <1>3, <1>4, <1>5, <1>6, <1>7 DEF C!Next, C!Update

\* The delay of finality the pages show does not wrap once epochUpdater has been
\* round, whenever the tables move, calls fail and the process starts again.
THEOREM DelayStaysReal == Spec => []DelayIsReal
  <1>1. Init => CachesInv
    BY CachesInit DEF Init
  <1>2. CachesInv /\ [Next]_vars => CachesInv'
    BY ComponentSteps, CachesStep
  <1>3. CachesInv => DelayIsReal
    BY DEF CachesInv, DelayIsReal
  <1> QED
    BY <1>1, <1>2, <1>3, PTL DEF Spec

-----------------------------------------------------------------------------
(* The writes of an epoch *)

ExportData ==
    [epoch : 0 .. MaxEpoch, version : Versions \cup {W!None}, attested : 0 .. MaxEpoch]

WritesTyped ==
    /\ data \in [Exports -> ExportData]
    /\ \A j \in Exports :
         pc[j] # "idle" => data[j].epoch \in W!Epochs /\ data[j].version \in Versions
    /\ saved \in [W!Epochs -> SUBSET Versions]
    /\ savers \subseteq [epoch : W!Epochs, last : 0 .. MaxEpoch, latest : -1 .. MaxEpoch]
    /\ validator \in [last : 0 .. MaxEpoch, offline : BOOLEAN]

\* Between the transaction and the clean up the version is in the tables.
CommittedIsSaved ==
    \A j \in Exports : pc[j] = "committed" => data[j].version \in saved[data[j].epoch]

\* A write that tested the shared variable and found no error was done, or its
\* error was covered by a later assignment; so are all of them after the wait.
DoneIsWritten ==
    \A j \in Exports :
        LET e == data[j].epoch
            Sure(k) == k \in bigtable[e] \/ e \in hidden
        IN  /\ pc[j] \notin W!Holding => \A k \in Writes : write[j][k] = "todo"
            /\ \A k \in Writes : write[j][k] = "done" => Sure(k)
            /\ \A k \in Writes : write[j][k] = "assigned" => Sure(k) \/ err[j]
            /\ pc[j] \in {"saving", "committed"} => \A k \in Writes : Sure(k)

\* The latest block a goroutine has read is not above the one there is now.
SaversBehind == \A s \in savers : s.latest <= W!Latest

WritesInv ==
    /\ W!TypeOK /\ WritesTyped
    /\ CommittedIsSaved /\ W!SkippedIsSaved
    /\ DoneIsWritten /\ W!SavedIsExported
    /\ SaversBehind /\ W!OfflineIsOffline

\* Nothing is saved and nothing under way.
LEMMA WritesInit == W!Init => WritesInv
  <1>1. MaxEpoch \in Nat
    BY ExportsAssumption DEF W!EpochWritesAssumption
  <1>2. ASSUME W!Init PROVE W!TypeOK /\ WritesTyped
    BY <1>1, <1>2 DEF W!Init, W!TypeOK, WritesTyped, ExportData, W!Unused, W!NoData,
                      W!Holding
  <1>3. ASSUME W!Init
        PROVE  /\ CommittedIsSaved /\ W!SkippedIsSaved
               /\ DoneIsWritten /\ W!SavedIsExported
               /\ SaversBehind /\ W!OfflineIsOffline
    BY <1>3 DEF W!Init, CommittedIsSaved, W!SkippedIsSaved, DoneIsWritten,
                W!SavedIsExported, SaversBehind, W!OfflineIsOffline, W!Holding, W!Unused
  <1> QED
    BY <1>2, <1>3 DEF WritesInv

LatestIsLast ==
    /\ W!Latest \in 0 .. MaxEpoch
    /\ \A e \in W!Epochs : saved[e] # {} => e <= W!Latest
    /\ W!Latest # 0 => saved[W!Latest] # {} /\ W!Latest \in W!Epochs

\* W!Latest is the greatest saved epoch, or zero.
LEMMA LatestType == WritesTyped => LatestIsLast
  <1> SUFFICES ASSUME WritesTyped PROVE LatestIsLast
    OBVIOUS
  <1> DEFINE full == {e \in W!Epochs : saved[e] # {}}
  <1>1. MaxEpoch \in Nat
    BY ExportsAssumption DEF W!EpochWritesAssumption
  <1>2. full \subseteq 0 .. MaxEpoch /\ full \subseteq W!Epochs /\ 0 \notin full
    BY <1>1 DEF W!Epochs
  <1>3. CASE full = {}
    BY <1>1, <1>3 DEF W!Latest, LatestIsLast
  <1>4. CASE full # {}
    <2>1. Max(full) \in full /\ \A y \in full : Max(full) >= y
      <3> HIDE DEF full
      <3> QED
        BY <1>1, <1>2, <1>4, MaxOfInterval
    <2>2. W!Max(full) = Max(full)
      BY Zenon DEF W!Max, Max
    <2>3. W!Latest = Max(full)
      BY <1>4, <2>2 DEF W!Latest
    <2> QED
      BY <1>1, <1>2, <2>1, <2>3 DEF LatestIsLast
  <1> QED
    BY <1>3, <1>4

\* A commit adds to what is saved, so that the latest block does not go back.
LEMMA LatestGrows ==
    ASSUME WritesTyped, WritesTyped', \A e \in W!Epochs : saved[e] \subseteq saved'[e]
    PROVE  W!Latest <= W!Latest'
  <1>1. /\ W!Latest \in 0 .. MaxEpoch
        /\ W!Latest # 0 => saved[W!Latest] # {} /\ W!Latest \in W!Epochs
    BY LatestType DEF LatestIsLast
  <1>2. /\ W!Latest' \in 0 .. MaxEpoch
        /\ \A e \in W!Epochs : saved'[e] # {} => e <= W!Latest'
    <2>1. LatestIsLast'
      BY LatestType, PTL
    <2> QED
      BY <2>1 DEF LatestIsLast
  <1>3. MaxEpoch \in Nat
    BY ExportsAssumption DEF W!EpochWritesAssumption
  <1>4. CASE W!Latest = 0
    BY <1>2, <1>3, <1>4
  <1>5. CASE W!Latest # 0
    <2> DEFINE l == W!Latest
    <2>1. l \in W!Epochs /\ saved'[l] # {}
      BY <1>1, <1>5
    <2>2. \A e \in W!Epochs : saved'[e] # {} => e <= W!Latest'
      BY <1>2
    <2> HIDE DEF l
    <2>3. l <= W!Latest'
      BY <2>1, <2>2
    <2> QED
      BY <2>3 DEF l
  <1> QED
    BY <1>4, <1>5

WritesTypes == W!TypeOK /\ WritesTyped

\* Fetch and Lock: one export holds the mutex.
LEMMA LockTypes ==
    ASSUME WritesTypes, NEW j \in Exports, NEW e \in W!Epochs, NEW v \in Versions,
           W!Fetch(j, e, v) \/ W!Lock(j)
    PROVE  WritesTypes'
  <1>1. CASE W!Fetch(j, e, v)
    <2>1. PICK a \in {0, e} :
            data' = [data EXCEPT ![j] = [epoch |-> e, version |-> v, attested |-> a]]
      BY <1>1 DEF W!Fetch
    <2>2. MaxEpoch \in Nat /\ e \in 1 .. MaxEpoch
      BY ExportsAssumption DEF W!EpochWritesAssumption, W!Epochs
    <2>3. [epoch |-> e, version |-> v, attested |-> a] \in ExportData
      BY <2>2 DEF ExportData
    <2>4. WritesTyped'
      BY <1>1, <2>1, <2>3 DEF W!Fetch, WritesTypes, WritesTyped, W!TypeOK, W!tables
    <2>5. W!TypeOK'
      BY <1>1 DEF W!Fetch, WritesTypes, W!TypeOK, W!tables, W!Holding
    <2> QED
      BY <2>4, <2>5 DEF WritesTypes
  <1>2. CASE W!Lock(j)
    <2>1. WritesTyped'
      BY <1>2 DEF W!Lock, WritesTypes, WritesTyped, W!TypeOK, W!tables
    <2>2. W!TypeOK'
      BY <1>2 DEF W!Lock, WritesTypes, W!TypeOK, W!tables, W!Holding
    <2> QED
      BY <2>1, <2>2 DEF WritesTypes
  <1> QED
    BY <1>1, <1>2

\* The writes of an errgroup, and the wait for them.
LEMMA GroupTypes ==
    ASSUME WritesTypes, NEW j \in Exports, NEW k \in Writes,
           W!Assign(j, k) \/ W!Test(j, k)
    PROVE  WritesTypes' /\ seen' >= seen
  <1>0. /\ MaxEpoch \in Nat /\ seen \in 0 .. MaxEpoch
        /\ data[j].attested \in 0 .. MaxEpoch
        /\ pc[j] = "writing"
        /\ data[j].epoch \in W!Epochs
    BY ExportsAssumption
    DEF W!EpochWritesAssumption, WritesTypes, W!TypeOK, WritesTyped, ExportData,
        W!Assign, W!Test
  <1>1. /\ UNCHANGED <<pc, data, saved, cached, savers, validator>>
        /\ write' \in [Exports -> [Writes -> {"todo", "assigned", "failed", "done"}]]
    <2>1. UNCHANGED <<pc, data, saved, cached, savers, validator>>
      BY DEF W!Assign, W!Test, W!tables
    <2>2. \E w \in {"assigned", "failed", "done"} :
             write' = [write EXCEPT ![j][k] = w]
      BY DEF W!Assign, W!Test
    <2> QED
      BY <2>1, <2>2 DEF WritesTypes, W!TypeOK
  <1>2. err' \in [Exports -> BOOLEAN]
    BY DEF W!Assign, W!Test, WritesTypes, W!TypeOK, W!tables
  <1>3. bigtable' \in [W!Epochs -> SUBSET Writes]
    BY <1>0 DEF W!Assign, W!Test, WritesTypes, W!TypeOK, W!tables
  <1>4. seen' \in 0 .. MaxEpoch /\ seen' >= seen
    BY <1>0 DEF W!Assign, W!Test, W!SeenNext, W!tables
  <1>5. WritesTyped'
    BY <1>1 DEF WritesTypes, WritesTyped
  <1>6. W!TypeOK'
    BY <1>1, <1>2, <1>3, <1>4 DEF WritesTypes, W!TypeOK
  <1> QED
    BY <1>4, <1>5, <1>6 DEF WritesTypes

\* An export that ends is idle again.
LEMMA EndsTypes ==
    ASSUME WritesTypes, NEW j \in Exports, W!Ends(j),
           UNCHANGED <<bigtable, seen, validator>>,
           saved' \in [W!Epochs -> SUBSET Versions],
           cached' \in [W!Epochs -> Versions \cup {W!None}],
           savers' \subseteq [epoch : W!Epochs, last : 0 .. MaxEpoch, latest : -1 .. MaxEpoch],
           \A s \in savers' : s \in savers \/ s.latest = -1
    PROVE  WritesTypes'
  <1>1. MaxEpoch \in Nat
    BY ExportsAssumption DEF W!EpochWritesAssumption
  <1>2. data' = [data EXCEPT ![j] = W!NoData] /\ W!NoData \in ExportData
    BY <1>1 DEF W!Ends, W!NoData, ExportData
  <1>3. pc' = [pc EXCEPT ![j] = "idle"]
    BY DEF W!Ends
  <1>4. WritesTyped'
    BY <1>2, <1>3 DEF WritesTypes, WritesTyped, W!TypeOK
  <1>5. err' \in [Exports -> BOOLEAN]
        /\ write' \in [Exports -> [Writes -> {"todo", "assigned", "failed", "done"}]]
    BY DEF W!Ends, W!Unused, WritesTypes, W!TypeOK
  <1>6. W!TypeOK'
    BY <1>3, <1>5 DEF WritesTypes, W!TypeOK, W!Holding
  <1> QED
    BY <1>4, <1>6 DEF WritesTypes

\* The end of the errgroup and SaveEpoch.
LEMMA SaveEpochTypes ==
    ASSUME WritesTypes, NEW j \in Exports,
           W!Wait(j) \/ W!Skip(j) \/ W!Commit(j) \/ W!CleanUp(j)
    PROVE  WritesTypes'
  <1> DEFINE e == data[j].epoch
  <1>0. /\ MaxEpoch \in Nat /\ pc[j] \in W!Holding
        /\ e \in W!Epochs /\ data[j].version \in Versions
        /\ data[j].attested \in 0 .. MaxEpoch
    BY ExportsAssumption
    DEF W!EpochWritesAssumption, WritesTypes, WritesTyped, ExportData, W!Holding,
        W!Wait, W!Skip, W!Commit, W!CleanUp
  <1>1. UNCHANGED <<bigtable, seen, validator, hidden>>
    BY DEF W!Wait, W!Skip, W!Commit, W!CleanUp, W!tables
  <1>2. saved' \in [W!Epochs -> SUBSET Versions]
    BY <1>0 DEF W!Wait, W!Skip, W!Commit, W!CleanUp, W!tables, WritesTypes, WritesTyped
  <1>3. cached' \in [W!Epochs -> Versions \cup {W!None}]
    BY <1>0 DEF W!Wait, W!Skip, W!Commit, W!CleanUp, W!tables, WritesTypes, W!TypeOK
  <1>4. savers' = savers \/ savers' = savers \cup {W!Saver(j)}
    BY DEF W!Wait, W!Skip, W!Commit, W!CleanUp
  <1>5. W!Saver(j) \in [epoch : W!Epochs, last : 0 .. MaxEpoch, latest : -1 .. MaxEpoch]
        /\ W!Saver(j).latest = -1
    BY <1>0 DEF W!Saver
  <1>6. savers' \subseteq [epoch : W!Epochs, last : 0 .. MaxEpoch, latest : -1 .. MaxEpoch]
        /\ \A s \in savers' : s \in savers \/ s.latest = -1
    BY <1>4, <1>5 DEF WritesTypes, WritesTyped
  <1>7. CASE W!Ends(j)
    BY <1>1, <1>2, <1>3, <1>6, <1>7, EndsTypes
  <1>8. CASE ~W!Ends(j)
    <2>1. UNCHANGED <<data, err, write>>
          /\ \E next \in {"saving", "committed"} : pc' = [pc EXCEPT ![j] = next]
      BY <1>8 DEF W!Wait, W!Skip, W!Commit, W!CleanUp
    <2>2. WritesTyped'
      BY <1>0, <1>1, <1>2, <1>6, <2>1 DEF WritesTypes, WritesTyped, W!TypeOK, W!Holding
    <2>3. pc' \in [Exports -> W!Holding \cup {"idle", "waiting"}]
          /\ \A i, l \in Exports : pc'[i] \in W!Holding /\ pc'[l] \in W!Holding => i = l
      BY <1>0, <2>1 DEF WritesTypes, W!TypeOK, W!Holding
    <2>4. W!TypeOK'
      BY <1>1, <1>3, <1>6, <2>1, <2>3 DEF WritesTypes, W!TypeOK
    <2> QED
      BY <2>2, <2>4 DEF WritesTypes
  <1> QED
    BY <1>7, <1>8

\* saveValidators: the last attestation is the greatest of the row's and the
\* epoch's.
LEMMA SaversTypes ==
    ASSUME WritesTypes, NEW s \in savers, W!ReadLatest(s) \/ W!SaveValidators(s)
    PROVE  WritesTypes' /\ validator'.last >= validator.last
  <1>0. /\ MaxEpoch \in Nat /\ validator \in [last : 0 .. MaxEpoch, offline : BOOLEAN]
        /\ s \in [epoch : W!Epochs, last : 0 .. MaxEpoch, latest : -1 .. MaxEpoch]
        /\ W!Latest \in 0 .. MaxEpoch /\ OfflineAfter \in Nat
    BY ExportsAssumption, LatestType
    DEF W!EpochWritesAssumption, WritesTypes, WritesTyped, LatestIsLast
  <1>1. UNCHANGED <<pc, data, err, write, bigtable, seen, saved, cached>>
    BY DEF W!ReadLatest, W!SaveValidators, W!tables
  <1>2. CASE W!ReadLatest(s)
    <2> DEFINE read == [s EXCEPT !.latest = W!Latest]
    <2>1. /\ savers' = (savers \ {s}) \cup {read} /\ validator' = validator
          /\ \A t \in savers : t.latest = -1
      BY <1>2 DEF W!ReadLatest, W!tables
    <2>2. read \in [epoch : W!Epochs, last : 0 .. MaxEpoch, latest : -1 .. MaxEpoch]
      BY <1>0
    <2> HIDE DEF read
    <2>3. WritesTyped'
      BY <1>1, <2>1, <2>2 DEF WritesTypes, WritesTyped
    <2>4. W!TypeOK'
      BY <1>1, <2>1 DEF WritesTypes, W!TypeOK
    <2> QED
      BY <1>0, <2>1, <2>3, <2>4 DEF WritesTypes
  <1>3. CASE W!SaveValidators(s)
    <2>1. savers' = savers \ {s}
      BY <1>3 DEF W!SaveValidators
    <2>2. validator' = validator \/ validator' = W!Upsert(validator, s)
      BY <1>3 DEF W!SaveValidators
    <2>3. W!Max({validator.last, s.last}) \in 0 .. MaxEpoch
          /\ W!Max({validator.last, s.last}) >= validator.last
      <3> DEFINE both == {validator.last, s.last}
      <3>1. both \subseteq 0 .. MaxEpoch /\ both # {} /\ validator.last \in both
        BY <1>0
      <3>2. Max(both) \in both /\ \A y \in both : Max(both) >= y
        <4> HIDE DEF both
        <4> QED
          BY <1>0, <3>1, MaxOfInterval
      <3>3. W!Max(both) = Max(both)
        BY Zenon DEF W!Max, Max
      <3> QED
        BY <3>1, <3>2, <3>3
    <2>4. /\ validator' \in [last : 0 .. MaxEpoch, offline : BOOLEAN]
          /\ validator'.last >= validator.last
      <3>1. CASE validator' = validator
        BY <1>0, <3>1
      <3>2. CASE validator' = W!Upsert(validator, s)
        <4> DEFINE l == W!Max({validator.last, s.last})
        <4>1. validator' = [last |-> l, offline |-> l < s.latest - OfflineAfter]
          BY <3>2 DEF W!Upsert
        <4>2. l \in 0 .. MaxEpoch /\ l >= validator.last
          BY <2>3
        <4> HIDE DEF l
        <4> QED
          BY <4>1, <4>2
      <3> QED
        BY <2>2, <3>1, <3>2
    <2>5. WritesTyped'
      BY <1>1, <2>1, <2>4 DEF WritesTypes, WritesTyped
    <2>6. W!TypeOK'
      BY <1>1, <2>1, <2>4 DEF WritesTypes, W!TypeOK
    <2> QED
      BY <2>4, <2>5, <2>6 DEF WritesTypes
  <1> QED
    BY <1>2, <1>3

\* A crash leaves the tables.
LEMMA CrashTypes ==
    ASSUME WritesTypes, W!Crash
    PROVE  WritesTypes'
  <1>1. MaxEpoch \in Nat
    BY ExportsAssumption DEF W!EpochWritesAssumption
  <1>2. WritesTyped'
    BY <1>1 DEF W!Crash, WritesTypes, WritesTyped, ExportData, W!NoData, W!tables
  <1>3. W!TypeOK'
    BY DEF W!Crash, WritesTypes, W!TypeOK, W!tables, W!Unused, W!Holding
  <1> QED
    BY <1>2, <1>3 DEF WritesTypes

\* Every step keeps the types, and neither the cached slot nor the row of the
\* validator goes back.
LEMMA WritesTypesStep ==
    ASSUME WritesTypes, W!Next \/ UNCHANGED ofWrites
    PROVE  WritesTypes' /\ seen' >= seen /\ validator'.last >= validator.last
  <1>0. seen \in Int /\ validator.last \in Int
    BY ExportsAssumption DEF W!EpochWritesAssumption, WritesTypes, W!TypeOK
  <1>1. CASE UNCHANGED ofWrites
    BY <1>0, <1>1 DEF ofWrites, WritesTypes, W!TypeOK, WritesTyped
  <1>2. ASSUME NEW j \in Exports, NEW e \in W!Epochs, NEW v \in Versions, W!Fetch(j, e, v)
        PROVE  WritesTypes' /\ seen' >= seen /\ validator'.last >= validator.last
    <2>1. UNCHANGED <<seen, validator>>
      BY <1>2 DEF W!Fetch, W!tables
    <2> QED
      BY <1>0, <1>2, <2>1, LockTypes
  <1>3. ASSUME NEW j \in Exports, W!Export(j)
        PROVE  WritesTypes' /\ seen' >= seen /\ validator'.last >= validator.last
    <2>1. validator' = validator
      BY <1>3 DEF W!Export, W!Lock, W!Wait, W!Skip, W!Commit, W!CleanUp, W!Assign, W!Test,
                  W!tables
    <2>2. CASE W!Lock(j)
      <3>1. pc[j] # "idle" /\ data[j].epoch \in W!Epochs /\ data[j].version \in Versions
            /\ seen' = seen
        BY <2>2 DEF W!Lock, WritesTypes, WritesTyped, W!tables
      <3> QED
        BY <1>0, <2>1, <2>2, <3>1, LockTypes
    <2>3. CASE W!Wait(j) \/ W!Skip(j) \/ W!Commit(j) \/ W!CleanUp(j)
      <3>1. seen' = seen
        BY <2>3 DEF W!Wait, W!Skip, W!Commit, W!CleanUp, W!tables
      <3> QED
        BY <1>0, <2>1, <2>3, <3>1, SaveEpochTypes
    <2>4. CASE \E k \in Writes : W!Assign(j, k) \/ W!Test(j, k)
      BY <1>0, <2>1, <2>4, GroupTypes
    <2> QED
      BY <1>3, <2>2, <2>3, <2>4 DEF W!Export
  <1>4. CASE W!Save
    <2>1. PICK s \in savers : W!ReadLatest(s) \/ W!SaveValidators(s)
      BY <1>4 DEF W!Save
    <2>2. seen' = seen
      BY <2>1 DEF W!ReadLatest, W!SaveValidators, W!tables
    <2> QED
      BY <1>0, <2>1, <2>2, SaversTypes
  <1>5. CASE W!Crash
    <2>1. UNCHANGED <<seen, validator>>
      BY <1>5 DEF W!Crash, W!tables
    <2> QED
      BY <1>0, <1>5, <2>1, CrashTypes
  <1> QED
    BY <1>1, <1>2, <1>3, <1>4, <1>5 DEF W!Next

\* What is committed stays, and the cache only names what is committed.
LEMMA SkippedStep ==
    ASSUME WritesInv, W!Next \/ UNCHANGED ofWrites
    PROVE  CommittedIsSaved' /\ W!SkippedIsSaved'
  <1>0. WritesTypes /\ WritesTypes'
    BY WritesTypesStep DEF WritesInv, WritesTypes
  <1>1. CommittedIsSaved /\ W!SkippedIsSaved
    BY DEF WritesInv
  <1>2. ASSUME UNCHANGED <<saved, cached>>,
               \A i \in Exports :
                 pc'[i] = "committed" => pc[i] = "committed" /\ data'[i] = data[i]
        PROVE  CommittedIsSaved' /\ W!SkippedIsSaved'
    BY <1>1, <1>2 DEF CommittedIsSaved, W!SkippedIsSaved
  <1>3. ASSUME NEW j \in Exports, NEW e \in W!Epochs, NEW v \in Versions, W!Fetch(j, e, v)
        PROVE  CommittedIsSaved' /\ W!SkippedIsSaved'
    <2>1. UNCHANGED <<saved, cached>> /\ pc' = [pc EXCEPT ![j] = "waiting"]
          /\ \A i \in Exports : i # j => data'[i] = data[i]
      BY <1>0, <1>3 DEF W!Fetch, W!tables, WritesTypes, WritesTyped
    <2> QED
      BY <1>0, <1>2, <2>1 DEF WritesTypes, W!TypeOK
  <1>4. ASSUME NEW j \in Exports, W!Lock(j) \/ W!Wait(j) \/ W!Skip(j)
        PROVE  CommittedIsSaved' /\ W!SkippedIsSaved'
    <2>1. UNCHANGED <<saved, cached>>
          /\ \E next \in {"writing", "saving", "idle"} : pc' = [pc EXCEPT ![j] = next]
          /\ \A i \in Exports : i # j => data'[i] = data[i]
      BY <1>0, <1>4 DEF W!Lock, W!Wait, W!Skip, W!Ends, W!tables, WritesTypes, WritesTyped
    <2> QED
      BY <1>0, <1>2, <2>1 DEF WritesTypes, W!TypeOK
  <1>5. ASSUME NEW j \in Exports, W!Commit(j)
        PROVE  CommittedIsSaved' /\ W!SkippedIsSaved'
    <2> DEFINE e == data[j].epoch
    <2>1. cached' = cached /\ pc[j] = "saving"
      BY <1>5 DEF W!Commit
    <2>2. CASE W!Ends(j) /\ saved' = saved
      <3>1. pc' = [pc EXCEPT ![j] = "idle"] /\ \A i \in Exports : i # j => data'[i] = data[i]
        BY <1>0, <2>2 DEF W!Ends, WritesTypes, WritesTyped
      <3> QED
        BY <1>0, <1>2, <2>1, <2>2, <3>1 DEF WritesTypes, W!TypeOK
    <2>3. CASE /\ saved' = [saved EXCEPT ![e] = @ \cup {data[j].version}]
               /\ pc' = [pc EXCEPT ![j] = "committed"] /\ data' = data
      <3>1. e \in W!Epochs
        BY <1>0, <2>1 DEF WritesTypes, WritesTyped
      <3>2. \A d \in W!Epochs : saved[d] \subseteq saved'[d]
        BY <1>0, <2>3 DEF WritesTypes, WritesTyped
      <3>3. data[j].version \in saved'[e]
        BY <1>0, <2>3, <3>1 DEF WritesTypes, WritesTyped
      <3>4. ASSUME NEW i \in Exports, pc'[i] = "committed"
            PROVE  data'[i].version \in saved'[data'[i].epoch]
        <4>1. CASE i = j
          BY <2>3, <3>3, <4>1
        <4>2. CASE i # j
          <5>1. pc[i] = "committed"
            BY <1>0, <2>3, <3>4, <4>2 DEF WritesTypes, W!TypeOK
          <5>2. data[i].epoch \in W!Epochs /\ data[i].version \in saved[data[i].epoch]
            BY <1>0, <1>1, <5>1 DEF CommittedIsSaved, WritesTypes, WritesTyped
          <5> QED
            BY <2>3, <3>2, <5>2
        <4> QED
          BY <4>1, <4>2
      <3>5. CommittedIsSaved'
        BY <3>4 DEF CommittedIsSaved
      <3>6. W!SkippedIsSaved'
        BY <1>1, <2>1, <3>2 DEF W!SkippedIsSaved
      <3> QED
        BY <3>5, <3>6
    <2> QED
      BY <1>5, <2>2, <2>3 DEF W!Commit
  <1>6. ASSUME NEW j \in Exports, W!CleanUp(j)
        PROVE  CommittedIsSaved' /\ W!SkippedIsSaved'
    <2> DEFINE e == data[j].epoch
    <2>1. pc[j] = "committed" /\ W!Ends(j) /\ saved' = saved
      BY <1>6 DEF W!CleanUp, W!tables
    <2>2. pc' = [pc EXCEPT ![j] = "idle"] /\ \A i \in Exports : i # j => data'[i] = data[i]
      BY <1>0, <2>1 DEF W!Ends, WritesTypes, WritesTyped
    <2>3. CommittedIsSaved'
      BY <1>0, <1>1, <2>1, <2>2 DEF CommittedIsSaved, WritesTypes, W!TypeOK
    <2>4. cached' = cached \/ cached' = [cached EXCEPT ![e] = data[j].version]
      BY <1>6 DEF W!CleanUp
    <2>5. data[j].version \in saved[e]
      BY <1>1, <2>1 DEF CommittedIsSaved
    <2>6. W!SkippedIsSaved'
      BY <1>0, <1>1, <2>1, <2>4, <2>5 DEF W!SkippedIsSaved, WritesTypes, W!TypeOK
    <2> QED
      BY <2>3, <2>6
  <1>7. ASSUME NEW j \in Exports, NEW k \in Writes, W!Assign(j, k) \/ W!Test(j, k)
        PROVE  CommittedIsSaved' /\ W!SkippedIsSaved'
    BY <1>2, <1>7 DEF W!Assign, W!Test, W!tables
  <1>8. CASE W!Save \/ UNCHANGED ofWrites
    BY <1>2, <1>8 DEF W!Save, W!ReadLatest, W!SaveValidators, W!tables, ofWrites
  <1>9. CASE W!Crash
    <2>1. saved' = saved /\ (\A e \in W!Epochs : cached'[e] = W!None)
          /\ \A i \in Exports : pc'[i] = "idle"
      BY <1>9 DEF W!Crash, W!tables
    <2> QED
      BY <2>1 DEF CommittedIsSaved, W!SkippedIsSaved
  <1> QED
    BY <1>3, <1>4, <1>5, <1>6, <1>7, <1>8, <1>9 DEF W!Next, W!Export

\* A validator is judged by a latest block that was there.
LEMMA OfflineStep ==
    ASSUME WritesInv, W!Next \/ UNCHANGED ofWrites
    PROVE  SaversBehind' /\ W!OfflineIsOffline'
  <1>0. WritesTypes /\ WritesTypes'
    BY WritesTypesStep DEF WritesInv, WritesTypes
  <1>1. SaversBehind /\ W!OfflineIsOffline
    BY DEF WritesInv
  <1>2. /\ MaxEpoch \in Nat /\ OfflineAfter \in Nat
        /\ validator \in [last : 0 .. MaxEpoch, offline : BOOLEAN]
        /\ savers \subseteq [epoch : W!Epochs, last : 0 .. MaxEpoch, latest : -1 .. MaxEpoch]
        /\ W!Latest \in 0 .. MaxEpoch
    BY <1>0, LatestType, ExportsAssumption
    DEF W!EpochWritesAssumption, WritesTypes, WritesTyped, LatestIsLast
  <1>3. W!Latest' \in 0 .. MaxEpoch
    <2>1. WritesTyped'
      BY <1>0 DEF WritesTypes
    <2>2. LatestIsLast'
      BY <2>1, LatestType, PTL
    <2> QED
      BY <2>2 DEF LatestIsLast
  <1>4. ASSUME \A e \in W!Epochs : saved[e] \subseteq saved'[e]
        PROVE  W!Latest <= W!Latest'
    BY <1>0, <1>4, LatestGrows DEF WritesTypes
  <1>5. saved' = saved => W!Latest' = W!Latest
    BY DEF W!Latest
  <1>6. CASE UNCHANGED <<saved, savers, validator>>
    BY <1>1, <1>5, <1>6 DEF SaversBehind, W!OfflineIsOffline
  <1>7. ASSUME NEW j \in Exports, W!Commit(j)
        PROVE  SaversBehind' /\ W!OfflineIsOffline'
    <2>1. savers' = savers \cup {W!Saver(j)} /\ validator' = validator
      BY <1>7 DEF W!Commit
    <2>2. \A e \in W!Epochs : saved[e] \subseteq saved'[e]
      BY <1>0, <1>7 DEF W!Commit, WritesTypes, WritesTyped
    <2>3. W!Latest <= W!Latest'
      BY <1>4, <2>2
    <2>4. W!Saver(j).latest = -1
      BY DEF W!Saver
    <2>5. \A s \in savers' : s.latest <= W!Latest'
      BY <1>1, <1>2, <1>3, <2>1, <2>3, <2>4 DEF SaversBehind
    <2>6. W!OfflineIsOffline'
      BY <1>1, <1>2, <1>3, <2>1, <2>3 DEF W!OfflineIsOffline
    <2> QED
      BY <2>5, <2>6 DEF SaversBehind
  <1>8. ASSUME NEW s \in savers, W!ReadLatest(s)
        PROVE  SaversBehind' /\ W!OfflineIsOffline'
    <2>1. /\ saved' = saved /\ validator' = validator
          /\ savers' = (savers \ {s}) \cup {[s EXCEPT !.latest = W!Latest]}
      BY <1>8 DEF W!ReadLatest, W!tables
    <2>2. [s EXCEPT !.latest = W!Latest].latest = W!Latest
      BY <1>2
    <2>3. \A t \in savers' : t.latest <= W!Latest
      BY <1>1, <1>2, <2>1, <2>2 DEF SaversBehind
    <2> QED
      BY <1>1, <1>5, <2>1, <2>3 DEF SaversBehind, W!OfflineIsOffline
  <1>9. ASSUME NEW s \in savers, W!SaveValidators(s)
        PROVE  SaversBehind' /\ W!OfflineIsOffline'
    <2>1. saved' = saved /\ savers' = savers \ {s}
      BY <1>9 DEF W!SaveValidators
    <2>2. SaversBehind'
      BY <1>1, <1>5, <2>1 DEF SaversBehind
    <2>3. CASE validator' = validator
      BY <1>1, <1>5, <2>1, <2>2, <2>3 DEF W!OfflineIsOffline
    <2>4. CASE validator' = W!Upsert(validator, s)
      <3> DEFINE l == W!Max({validator.last, s.last})
      <3>1. validator' = [last |-> l, offline |-> l < s.latest - OfflineAfter]
        BY <2>4 DEF W!Upsert
      <3>2. s.latest <= W!Latest /\ s.latest \in Int
        BY <1>1, <1>2 DEF SaversBehind
      <3>3. validator'.last \in 0 .. MaxEpoch
        BY <1>0 DEF WritesTypes, WritesTyped
      <3> HIDE DEF l
      <3>4. l \in 0 .. MaxEpoch
        BY <3>1, <3>3
      <3>5. l < s.latest - OfflineAfter => l < W!Latest - OfflineAfter
        BY <1>2, <3>2, <3>4
      <3>6. W!OfflineIsOffline'
        BY <1>5, <2>1, <3>1, <3>5 DEF W!OfflineIsOffline
      <3> QED
        BY <2>2, <3>6
    <2> QED
      BY <1>9, <2>3, <2>4 DEF W!SaveValidators
  <1>10. CASE W!Crash
    <2>1. UNCHANGED <<saved, validator>> /\ savers' = {}
      BY <1>10 DEF W!Crash, W!tables
    <2> QED
      BY <1>1, <1>5, <2>1 DEF SaversBehind, W!OfflineIsOffline
  <1>11. CASE UNCHANGED ofWrites
    BY <1>6, <1>11 DEF ofWrites
  <1>12. ASSUME NEW j \in Exports, NEW e, NEW v, NEW k,
                \/ W!Fetch(j, e, v) \/ W!Lock(j) \/ W!Wait(j) \/ W!Skip(j) \/ W!CleanUp(j)
                \/ W!Assign(j, k) \/ W!Test(j, k)
         PROVE  SaversBehind' /\ W!OfflineIsOffline'
    BY <1>6, <1>12 DEF W!Fetch, W!Lock, W!Wait, W!Skip, W!CleanUp, W!Assign, W!Test, W!tables
  <1> QED
    BY <1>7, <1>8, <1>9, <1>10, <1>11, <1>12 DEF W!Next, W!Export, W!Save

\* An export that ends has no write under way.
LEMMA DoneAfterEnd ==
    ASSUME WritesTypes, DoneIsWritten, NEW j \in Exports, W!Ends(j),
           UNCHANGED <<bigtable, hidden>>
    PROVE  DoneIsWritten'
  <1>1. /\ pc' = [pc EXCEPT ![j] = "idle"] /\ data' = [data EXCEPT ![j] = W!NoData]
        /\ err' = [err EXCEPT ![j] = FALSE] /\ write' = [write EXCEPT ![j] = W!Unused]
    BY DEF W!Ends
  <1>2. ASSUME NEW i \in Exports, i # j
        PROVE  /\ pc'[i] = pc[i] /\ data'[i] = data[i] /\ err'[i] = err[i]
               /\ write'[i] = write[i]
    BY <1>1, <1>2 DEF WritesTypes, W!TypeOK, WritesTyped
  <1>3. pc'[j] = "idle" /\ \A k \in Writes : write'[j][k] = "todo"
    BY <1>1 DEF WritesTypes, W!TypeOK, W!Unused
  <1>4. "idle" \notin W!Holding
    BY DEF W!Holding
  <1> QED
    BY <1>2, <1>3, <1>4 DEF DoneIsWritten

\* A write that is done is in Bigtable, or its error was covered.
LEMMA DoneStep ==
    ASSUME WritesInv, W!Next \/ UNCHANGED ofWrites
    PROVE  DoneIsWritten'
  <1>0. WritesTypes /\ WritesTypes' /\ DoneIsWritten
    BY WritesTypesStep DEF WritesInv, WritesTypes
  <1>1. CASE UNCHANGED <<pc, data, err, write, bigtable, hidden>>
    BY <1>0, <1>1 DEF DoneIsWritten
  <1>2. ASSUME NEW j \in Exports, NEW next \in {"waiting", "writing", "saving", "committed"},
               pc' = [pc EXCEPT ![j] = next],
               UNCHANGED <<err, write, bigtable, hidden>>,
               data' = data \/ (pc[j] = "idle" /\ next = "waiting"),
               \A i \in Exports : i # j => data'[i] = data[i],
               next = "waiting" => pc[j] \notin W!Holding,
               next \in {"saving", "committed"} =>
                  /\ data' = data
                  /\ \A k \in Writes : k \in bigtable[data[j].epoch] \/ data[j].epoch \in hidden
        PROVE  DoneIsWritten'
    <2>1. ASSUME NEW i \in Exports, i # j
          PROVE  pc'[i] = pc[i] /\ data'[i] = data[i]
      BY <1>0, <1>2, <2>1 DEF WritesTypes, W!TypeOK
    <2>2. pc'[j] = next
      BY <1>0, <1>2 DEF WritesTypes, W!TypeOK
    <2>3. CASE next = "waiting"
      <3>1. \A k \in Writes : write[j][k] = "todo"
        BY <1>0, <1>2, <2>3 DEF DoneIsWritten
      <3> QED
        BY <1>0, <1>2, <2>1, <2>2, <2>3, <3>1 DEF DoneIsWritten, W!Holding
    <2>4. CASE next = "writing"
      <3>1. data' = data
        BY <1>2, <2>4
      <3> QED
        BY <1>0, <1>2, <2>1, <2>2, <2>4, <3>1 DEF DoneIsWritten, W!Holding
    <2>5. CASE next \in {"saving", "committed"}
      BY <1>0, <1>2, <2>1, <2>2, <2>5 DEF DoneIsWritten, W!Holding
    <2> QED
      BY <2>3, <2>4, <2>5
  <1>3. ASSUME NEW j \in Exports, NEW e \in W!Epochs, NEW v \in Versions, W!Fetch(j, e, v)
        PROVE  DoneIsWritten'
    <2>1. /\ pc[j] = "idle" /\ pc' = [pc EXCEPT ![j] = "waiting"]
          /\ UNCHANGED <<err, write, bigtable, hidden>>
          /\ \A i \in Exports : i # j => data'[i] = data[i]
      BY <1>0, <1>3 DEF W!Fetch, W!tables, WritesTypes, WritesTyped
    <2> QED
      BY <1>2, <2>1 DEF W!Holding
  <1>4. ASSUME NEW j \in Exports, W!Lock(j)
        PROVE  DoneIsWritten'
    BY <1>2, <1>4 DEF W!Lock, W!tables
  <1>5. ASSUME NEW j \in Exports, W!Wait(j)
        PROVE  DoneIsWritten'
    <2>1. CASE \E k \in Writes : write[j][k] = "failed"
      BY <1>0, <1>5, <2>1, DoneAfterEnd DEF W!Wait, W!tables
    <2>2. CASE ~\E k \in Writes : write[j][k] = "failed"
      <3>1. /\ \A k \in Writes : write[j][k] = "done"
            /\ pc' = [pc EXCEPT ![j] = "saving"]
            /\ UNCHANGED <<data, err, write, bigtable, hidden>>
        BY <1>5, <2>2 DEF W!Wait, W!tables
      <3>2. \A k \in Writes : k \in bigtable[data[j].epoch] \/ data[j].epoch \in hidden
        BY <1>0, <3>1 DEF DoneIsWritten
      <3> QED
        BY <1>2, <3>1, <3>2
    <2> QED
      BY <2>1, <2>2
  <1>6. ASSUME NEW j \in Exports, W!Skip(j) \/ W!CleanUp(j)
        PROVE  DoneIsWritten'
    BY <1>0, <1>6, DoneAfterEnd DEF W!Skip, W!CleanUp, W!tables
  <1>7. ASSUME NEW j \in Exports, W!Commit(j)
        PROVE  DoneIsWritten'
    <2>1. UNCHANGED <<bigtable, hidden>> /\ pc[j] = "saving"
      BY <1>7 DEF W!Commit
    <2>2. CASE W!Ends(j)
      BY <1>0, <2>1, <2>2, DoneAfterEnd
    <2>3. CASE pc' = [pc EXCEPT ![j] = "committed"] /\ UNCHANGED <<data, err, write>>
      <3>1. \A k \in Writes : k \in bigtable[data[j].epoch] \/ data[j].epoch \in hidden
        BY <1>0, <2>1 DEF DoneIsWritten
      <3> QED
        BY <1>2, <2>1, <2>3, <3>1
    <2> QED
      BY <1>7, <2>2, <2>3 DEF W!Commit
  <1>8. ASSUME NEW j \in Exports, NEW k \in Writes, W!Assign(j, k)
        PROVE  DoneIsWritten'
    <2> DEFINE e == data[j].epoch
    <2>1. /\ pc[j] = "writing" /\ UNCHANGED <<pc, data>> /\ write[j][k] = "todo"
          /\ write' = [write EXCEPT ![j][k] = "assigned"]
          /\ e \in W!Epochs
      BY <1>0, <1>8 DEF W!Assign, WritesTypes, WritesTyped
    <2>2. \A i \in Exports, l \in Writes :
             write'[i][l] = IF i = j /\ l = k THEN "assigned" ELSE write[i][l]
      BY <1>0, <2>1 DEF WritesTypes, W!TypeOK
    <2>3. pc[j] \in W!Holding
      BY <2>1 DEF W!Holding
    <2>4. CASE /\ bigtable' = [bigtable EXCEPT ![e] = @ \cup {k}]
               /\ err' = [err EXCEPT ![j] = FALSE]
               /\ hidden' = IF err[j] THEN hidden \cup {e} ELSE hidden
      <3>1. /\ \A d \in W!Epochs : bigtable[d] \subseteq bigtable'[d]
            /\ hidden \subseteq hidden' /\ k \in bigtable'[e]
            /\ err[j] => e \in hidden'
        BY <1>0, <2>1, <2>4 DEF WritesTypes, W!TypeOK
      <3>2. \A i \in Exports : i # j => err'[i] = err[i]
        BY <1>0, <2>4 DEF WritesTypes, W!TypeOK
      <3>3. ASSUME NEW i \in Exports, NEW l \in Writes, i # j
            PROVE  /\ pc[i] \notin W!Holding
                   /\ write'[i][l] = "todo"
        <4>1. pc[i] \notin W!Holding
          BY <1>0, <2>3, <3>3 DEF WritesTypes, W!TypeOK
        <4> QED
          BY <1>0, <2>2, <3>3, <4>1 DEF DoneIsWritten
      <3>4. ASSUME NEW l \in Writes, write'[j][l] \in {"done", "assigned"}
            PROVE  l \in bigtable'[e] \/ e \in hidden'
        <4>1. CASE l = k
          BY <3>1, <4>1
        <4>2. CASE l # k
          <5>1. write[j][l] \in {"done", "assigned"}
            BY <2>2, <3>4, <4>2
          <5>2. l \in bigtable[e] \/ e \in hidden \/ err[j]
            BY <1>0, <5>1 DEF DoneIsWritten
          <5> QED
            BY <2>1, <3>1, <5>2
        <4> QED
          BY <4>1, <4>2
      <3> QED
        BY <2>1, <2>3, <3>3, <3>4 DEF DoneIsWritten, W!Holding
    <2>5. CASE err' = [err EXCEPT ![j] = TRUE] /\ UNCHANGED <<bigtable, hidden>>
      <3>1. \A i \in Exports : err'[i] = (IF i = j THEN TRUE ELSE err[i])
        BY <1>0, <2>5 DEF WritesTypes, W!TypeOK
      <3>2. ASSUME NEW i \in Exports, NEW l \in Writes
            PROVE  /\ write'[i][l] = "done" => write[i][l] = "done"
                   /\ write'[i][l] = "assigned" =>
                        (write[i][l] = "assigned" /\ (err[i] => err'[i])) \/ err'[i]
                   /\ pc[i] \notin W!Holding => write'[i][l] = write[i][l]
        BY <2>2, <2>3, <3>1
      <3> QED
        BY <1>0, <2>1, <2>5, <3>2 DEF DoneIsWritten
    <2> QED
      BY <1>8, <2>4, <2>5 DEF W!Assign
  <1>9. ASSUME NEW j \in Exports, NEW k \in Writes, W!Test(j, k)
        PROVE  DoneIsWritten'
    <2>1. /\ pc[j] = "writing" /\ UNCHANGED <<pc, data, err, bigtable, hidden>>
          /\ write[j][k] = "assigned"
          /\ write' = [write EXCEPT ![j][k] = IF err[j] THEN "failed" ELSE "done"]
      BY <1>9 DEF W!Test, W!tables
    <2>2. \A i \in Exports, l \in Writes :
             write'[i][l] = IF i = j /\ l = k THEN IF err[j] THEN "failed" ELSE "done"
                            ELSE write[i][l]
      BY <1>0, <2>1 DEF WritesTypes, W!TypeOK
    <2>3. pc[j] \in W!Holding
      BY <2>1 DEF W!Holding
    <2> QED
      BY <1>0, <2>1, <2>2, <2>3 DEF DoneIsWritten
  <1>10. CASE W!Save
    BY <1>1, <1>10 DEF W!Save, W!ReadLatest, W!SaveValidators, W!tables
  <1>11. CASE W!Crash
    <2>1. /\ UNCHANGED <<bigtable, hidden>> /\ pc' = [j \in Exports |-> "idle"]
          /\ write' = [j \in Exports |-> W!Unused]
      BY <1>11 DEF W!Crash, W!tables
    <2>2. \A j \in Exports : pc'[j] = "idle" /\ \A k \in Writes : write'[j][k] = "todo"
      BY <2>1 DEF W!Unused
    <2> QED
      BY <2>2 DEF DoneIsWritten, W!Holding
  <1>12. CASE UNCHANGED ofWrites
    BY <1>1, <1>12 DEF ofWrites
  <1> QED
    BY <1>3, <1>4, <1>5, <1>6, <1>7, <1>8, <1>9, <1>10, <1>11, <1>12
    DEF W!Next, W!Export

\* Only an export all of whose writes are done commits its epoch.
LEMMA ExportedStep ==
    ASSUME WritesInv, W!Next \/ UNCHANGED ofWrites
    PROVE  W!SavedIsExported'
  <1>0. WritesTypes /\ WritesTypes' /\ DoneIsWritten /\ W!SavedIsExported
    BY WritesTypesStep DEF WritesInv, WritesTypes
  <1>1. /\ \A e \in W!Epochs : bigtable[e] \subseteq bigtable'[e]
        /\ hidden \subseteq hidden'
    <2>1. CASE UNCHANGED <<bigtable, hidden>>
      BY <2>1
    <2>2. ASSUME NEW j \in Exports, NEW k \in Writes, W!Assign(j, k)
          PROVE  /\ \A e \in W!Epochs : bigtable[e] \subseteq bigtable'[e]
                 /\ hidden \subseteq hidden'
      BY <1>0, <2>2 DEF W!Assign, WritesTypes, W!TypeOK
    <2>3. ASSUME ~\E j \in Exports, k \in Writes : W!Assign(j, k)
          PROVE  UNCHANGED <<bigtable, hidden>>
      BY <2>3 DEF W!Next, W!Export, W!Save, W!Fetch, W!Lock, W!Test, W!Wait, W!Skip,
                  W!Commit, W!CleanUp, W!ReadLatest, W!SaveValidators, W!Crash,
                  W!tables, ofWrites
    <2> QED
      BY <2>1, <2>2, <2>3
  <1>2. \A e \in W!Epochs : bigtable'[e] \subseteq Writes
    BY <1>0 DEF WritesTypes, W!TypeOK
  <1>3. ASSUME NEW e \in W!Epochs, saved'[e] # {}
        PROVE  bigtable'[e] = Writes \/ e \in hidden'
    <2>1. CASE saved[e] # {}
      BY <1>0, <1>1, <1>2, <2>1 DEF W!SavedIsExported
    <2>2. CASE saved[e] = {}
      <3>1. saved' # saved
        BY <1>3, <2>2
      <3>2. PICK j \in Exports : W!Commit(j)
        BY <3>1 DEF W!Next, W!Export, W!Save, W!Fetch, W!Lock, W!Test, W!Wait, W!Skip,
                    W!Assign, W!CleanUp, W!ReadLatest, W!SaveValidators, W!Crash,
                    W!tables, ofWrites
      <3>3. pc[j] = "saving"
            /\ saved' = [saved EXCEPT ![data[j].epoch] = @ \cup {data[j].version}]
        BY <3>1, <3>2 DEF W!Commit
      <3>4. e = data[j].epoch
        BY <1>0, <1>3, <2>2, <3>3 DEF WritesTypes, WritesTyped
      <3>5. \A k \in Writes : k \in bigtable[e] \/ e \in hidden
        BY <1>0, <3>3, <3>4 DEF DoneIsWritten
      <3> QED
        BY <1>1, <1>2, <3>5
    <2> QED
      BY <2>1, <2>2
  <1> QED
    BY <1>3 DEF W!SavedIsExported

\* WritesInv is inductive.
LEMMA WritesStep ==
    ASSUME WritesInv, W!Next \/ UNCHANGED ofWrites
    PROVE  WritesInv' /\ seen' >= seen /\ validator'.last >= validator.last
  <1>1. WritesTypes' /\ seen' >= seen /\ validator'.last >= validator.last
    BY WritesTypesStep DEF WritesInv, WritesTypes
  <1> QED
    BY <1>1, SkippedStep, OfflineStep, DoneStep, ExportedStep DEF WritesInv, WritesTypes

\* WritesInv holds throughout.
LEMMA WritesAlways == Spec => []WritesInv
  <1>1. Init => WritesInv
    BY WritesInit DEF Init
  <1>2. WritesInv /\ [Next]_vars => WritesInv'
    BY ComponentSteps, WritesStep
  <1> QED
    BY <1>1, <1>2, PTL DEF Spec

\* Neither the slot a validator was last seen at nor a number of the pages goes
\* back, but for a restart and a failed query of the latest execution block.
THEOREM NothingTurnsBack == Spec => NothingGoesBack
  <1>1. Init => WritesInv /\ CachesInv
    BY WritesInit, CachesInit DEF Init
  <1>2. WritesInv /\ CachesInv /\ [Next]_vars => WritesInv' /\ CachesInv'
    BY ComponentSteps, WritesStep, CachesStep
  <1>3. WritesInv /\ CachesInv /\ [Next]_vars =>
          /\ [seen' >= seen /\ validator'.last >= validator.last]_(W!vars)
          /\ [\A k \in C!Numbers :
                local'[k] < local[k] => C!Restart \/ (k = "eth1" /\ k \in lost')]_(C!vars)
    BY ComponentSteps, WritesStep, CachesStep
  <1> QED
    BY <1>1, <1>2, <1>3, PTL DEF Spec, NothingGoesBack, W!LastSeenGrows, C!NumbersGrow

-----------------------------------------------------------------------------
(* The daily statistics *)

ProgramsTyped ==
    program \in [S!Programs -> [pc : {"idle", "reset", "day", "write", "stuck"},
                                day : S!Days, upto : S!Days, read : SUBSET indexed]]

\* The day a program is going to write was over when its data was read.
WrittenHasEnded ==
    \A p \in S!Programs : program[p].pc = "write" => S!HasEnded(program[p].day)

\* The loop leaves no day behind it that is neither finished nor excused.
LoopLeavesNoGap ==
    program["loop"].pc \in {"day", "write"} =>
        \A d \in 1 .. program["loop"].day - 1 : d \in finished \cup excused

StatsInv ==
    /\ S!TypeOK /\ ProgramsTyped
    /\ WrittenHasEnded /\ LoopLeavesNoGap /\ S!GapsAreExcused

\* The constants are numbers, and a day is not above the last one.
LEMMA StatsConstants ==
    /\ MaxDay \in Nat \ {0} /\ EpochsPerDay \in Nat \ {0} /\ SlotsPerEpoch \in Nat \ {0}
    /\ S!Days = 0 .. MaxDay
    /\ S!FirstEpoch(MaxDay + 1) \in Nat
    /\ \A d \in S!Days : /\ S!FirstEpoch(d) \in Nat /\ S!LastEpoch(d) \in Nat
                         /\ S!LastEpoch(d) <= S!FirstEpoch(MaxDay + 1)
  <1>1. /\ MaxDay \in Nat \ {0} /\ EpochsPerDay \in Nat \ {0} /\ SlotsPerEpoch \in Nat \ {0}
        /\ S!Days = 0 .. MaxDay
    BY ExportsAssumption DEF S!StatisticsAssumption, S!Days
  <1>2. S!FirstEpoch(MaxDay + 1) \in Nat
    BY <1>1 DEF S!FirstEpoch
  <1>3. ASSUME NEW d \in S!Days
        PROVE  /\ S!FirstEpoch(d) \in Nat /\ S!LastEpoch(d) \in Nat
               /\ S!LastEpoch(d) <= S!FirstEpoch(MaxDay + 1)
    <2>1. d \in Nat /\ d + 1 \in Nat /\ d + 1 <= MaxDay + 1
      BY <1>1
    <2>2. d * EpochsPerDay \in Nat /\ (d + 1) * EpochsPerDay \in Nat
      BY <1>1, <2>1
    <2>3. 1 * EpochsPerDay <= (d + 1) * EpochsPerDay
      BY <1>1, <2>1, ProductMonotonic
    <2>4. (d + 1) * EpochsPerDay <= (MaxDay + 1) * EpochsPerDay
      BY <1>1, <2>1, ProductMonotonic
    <2> QED
      BY <1>1, <1>2, <2>2, <2>3, <2>4 DEF S!FirstEpoch, S!LastEpoch
  <1> QED
    BY <1>1, <1>2, <1>3

IndexedTyped == indexed \subseteq 0 .. S!FirstEpoch(MaxDay + 1)
LatestIsIndexed ==
    /\ S!LatestEpoch \in 0 .. S!FirstEpoch(MaxDay + 1)
    /\ S!LatestEpoch \in indexed \cup {0}
    /\ \A e \in indexed : e <= S!LatestEpoch

\* The latest epoch is that of a row, and no row is above it.
LEMMA LatestEpochType == IndexedTyped => LatestIsIndexed
  <1> SUFFICES ASSUME IndexedTyped PROVE LatestIsIndexed
    OBVIOUS
  <1> DEFINE rows_ == indexed \cup {0}
  <1>1. S!FirstEpoch(MaxDay + 1) \in Nat
    BY StatsConstants
  <1>2. rows_ \subseteq 0 .. S!FirstEpoch(MaxDay + 1) /\ rows_ # {}
    BY <1>1 DEF IndexedTyped
  <1>3. Max(rows_) \in rows_ /\ \A y \in rows_ : Max(rows_) >= y
    <2> HIDE DEF rows_
    <2> QED
      BY <1>1, <1>2, MaxOfInterval
  <1>4. S!Max(rows_) = Max(rows_)
    BY Zenon DEF S!Max, Max
  <1>5. S!LatestEpoch = Max(rows_)
    BY <1>4 DEF S!LatestEpoch
  <1> QED
    BY <1>1, <1>2, <1>3, <1>5 DEF LatestIsIndexed

\* A day that has ended stays so as epochs are indexed.
LEMMA EndedStays ==
    ASSUME IndexedTyped, IndexedTyped', indexed \subseteq indexed'
    PROVE  /\ S!LatestEpoch <= S!LatestEpoch'
           /\ \A d \in S!Days : S!HasEnded(d) => S!HasEnded(d)'
  <1>1. LatestIsIndexed
    BY LatestEpochType
  <1>2. LatestIsIndexed'
    BY LatestEpochType, PTL
  <1>3. S!FirstEpoch(MaxDay + 1) \in Nat /\ \A d \in S!Days : S!LastEpoch(d) \in Nat
    BY StatsConstants
  <1> DEFINE old == S!LatestEpoch
             new == S!LatestEpoch'
  <1>4. /\ old \in indexed \cup {0} /\ old \in Nat
        /\ new \in Nat /\ \A e \in indexed' : e <= new
    BY <1>1, <1>2, <1>3 DEF LatestIsIndexed
  <1>5. old <= new
    <2> HIDE DEF old, new
    <2> QED
      BY <1>4
  <1>6. \A d \in S!Days : S!LastEpoch(d) <= old => S!LastEpoch(d) <= new
    <2> HIDE DEF old, new
    <2> QED
      BY <1>3, <1>4, <1>5
  <1> QED
    BY <1>5, <1>6 DEF S!HasEnded

\* A database starts with whole days.
LEMMA StatsInit == S!Init => StatsInv
  <1> SUFFICES ASSUME S!Init PROVE StatsInv
    OBVIOUS
  <1>1. PICK s \in Seeded :
          /\ finished = s /\ excused = S!DaysBelow(s)
          /\ indexed = UNION {S!EpochsOf(d) : d \in s}
          /\ stats = [d \in S!Days |-> IF d \in s THEN S!EpochsOf(d) ELSE {}]
          /\ program = [p \in S!Programs |-> S!Idle]
    BY DEF S!Init
  <1>2. s \subseteq S!Days
    BY <1>1, ExportsAssumption DEF S!StatisticsAssumption, S!Days
  <1>3. 0 \in S!Days
    BY StatsConstants
  <1>4. ASSUME NEW d \in s PROVE S!EpochsOf(d) \subseteq 0 .. S!FirstEpoch(MaxDay + 1)
    <2>1. /\ S!FirstEpoch(MaxDay + 1) \in Nat
          /\ S!FirstEpoch(d) \in Nat /\ S!LastEpoch(d) \in Nat
          /\ S!LastEpoch(d) <= S!FirstEpoch(MaxDay + 1)
      BY <1>2, StatsConstants
    <2> QED
      BY <2>1 DEF S!EpochsOf
  <1>5. indexed \subseteq 0 .. S!FirstEpoch(MaxDay + 1)
    BY <1>1, <1>4
  <1>6. stats \in [S!Days -> SUBSET indexed]
    <2>1. \A d \in s : S!EpochsOf(d) \subseteq indexed
      BY <1>1
    <2> QED
      BY <1>1, <2>1
  <1>7. S!TypeOK /\ ProgramsTyped
    BY <1>1, <1>2, <1>3, <1>5, <1>6 DEF S!TypeOK, ProgramsTyped, S!Idle
  <1>8. WrittenHasEnded /\ LoopLeavesNoGap /\ S!GapsAreExcused
    BY <1>1 DEF WrittenHasEnded, LoopLeavesNoGap, S!GapsAreExcused, S!Idle, S!Programs
  <1> QED
    BY <1>7, <1>8 DEF StatsInv

\* A step of one program, which changes its own record.
LEMMA ProgramStep ==
    ASSUME StatsInv, NEW p \in S!Programs,
           NEW r \in [pc : {"idle", "reset", "day", "write", "stuck"},
                      day : S!Days, upto : S!Days, read : SUBSET indexed],
           program' = [program EXCEPT ![p] = r], indexed' = indexed,
           r.day <= r.upto, r.pc = "stuck" => r.day = 0, r.pc = "write" => r.day # 0,
           r.pc = "write" => S!HasEnded(r.day),
           p = "loop" /\ r.pc \in {"day", "write"} =>
               \A d \in 1 .. r.day - 1 : d \in finished' \cup excused',
           finished' \subseteq S!Days, stats' \in [S!Days -> SUBSET indexed],
           finished \cup excused \subseteq finished' \cup excused',
           S!GapsAreExcused'
    PROVE  StatsInv'
  <1>1. \A q \in S!Programs : program'[q] = IF q = p THEN r ELSE program[q]
    BY DEF StatsInv, ProgramsTyped
  <1>2. ProgramsTyped'
    BY DEF StatsInv, ProgramsTyped
  <1>3. S!TypeOK'
    BY <1>1 DEF StatsInv, S!TypeOK
  <1>4. WrittenHasEnded'
    <2>1. \A d : S!HasEnded(d)' <=> S!HasEnded(d)
      BY DEF S!HasEnded, S!LatestEpoch
    <2>2. \A q \in S!Programs : program'[q].pc = "write" => S!HasEnded(program'[q].day)
      BY <1>1 DEF StatsInv, WrittenHasEnded
    <2> QED
      BY <2>2 DEF WrittenHasEnded, S!HasEnded, S!LatestEpoch
  <1>5. LoopLeavesNoGap'
    <2>1. "loop" \in S!Programs
      BY DEF S!Programs
    <2>2. CASE p = "loop"
      BY <1>1, <2>1, <2>2 DEF LoopLeavesNoGap
    <2>3. CASE p # "loop"
      BY <1>1, <2>1, <2>3 DEF StatsInv, LoopLeavesNoGap
    <2> QED
      BY <2>2, <2>3
  <1> QED
    BY <1>2, <1>3, <1>4, <1>5 DEF StatsInv

\* A round of the loop starts behind the last finished day, or at day 0.
LEMMA RoundStep ==
    ASSUME StatsInv, S!Round
    PROVE  StatsInv'
  <1> DEFINE previous == S!LatestEpoch \div EpochsPerDay - 1
             l == S!Max(finished \cup {0})
  <1>1. PICK first : /\ first \in {S!FirstDay(l), S!FirstDay(0)}
                     /\ first <= previous
                     /\ program' = [program EXCEPT !["loop"] =
                          [pc |-> "day", day |-> first, upto |-> previous, read |-> {}]]
    BY DEF S!Round, S!Due
  <1>2. UNCHANGED <<indexed, finished, stats, excused>>
    BY DEF S!Round
  <1>3. previous \in S!Days
    <2>1. /\ MaxDay \in Nat /\ EpochsPerDay \in Nat \ {0} /\ S!Days = 0 .. MaxDay
          /\ S!FirstEpoch(MaxDay + 1) \in Nat
      BY StatsConstants
    <2>2. S!LatestEpoch \in 0 .. S!FirstEpoch(MaxDay + 1)
      BY LatestEpochType DEF StatsInv, S!TypeOK, IndexedTyped, LatestIsIndexed
    <2>3. S!LatestEpoch >= EpochsPerDay
      BY DEF S!Round
    <2>4. S!LatestEpoch \div EpochsPerDay <= MaxDay + 1
      <3>1. S!LatestEpoch \div EpochsPerDay <= ((MaxDay + 1) * EpochsPerDay) \div EpochsPerDay
        BY <2>1, <2>2, QuotientMonotonic DEF S!FirstEpoch
      <3>2. ((MaxDay + 1) * EpochsPerDay) \div EpochsPerDay = MaxDay + 1
        BY <2>1, QuotientOfProduct
      <3> QED
        BY <3>1, <3>2
    <2>5. S!LatestEpoch \div EpochsPerDay >= 1
      <3>1. (1 * EpochsPerDay) \div EpochsPerDay = 1
        BY <2>1, QuotientOfProduct
      <3>2. (1 * EpochsPerDay) \div EpochsPerDay <= S!LatestEpoch \div EpochsPerDay
        BY <2>1, <2>2, <2>3, QuotientMonotonic
      <3>3. S!LatestEpoch \div EpochsPerDay \in Nat
        BY <2>1, <2>2, QuotientBounds
      <3> QED
        BY <3>1, <3>2, <3>3
    <2>6. S!LatestEpoch \div EpochsPerDay \in Nat
      BY <2>1, <2>2, QuotientBounds
    <2> QED
      BY <2>1, <2>4, <2>5, <2>6
  <1>4. l \in finished \cup {0} /\ l \in Nat /\ \A d \in finished : d <= l
    <2> DEFINE days_ == finished \cup {0}
    <2>1. days_ \subseteq 0 .. MaxDay /\ days_ # {} /\ MaxDay \in Nat
      BY StatsConstants DEF StatsInv, S!TypeOK
    <2>2. Max(days_) \in days_ /\ \A y \in days_ : Max(days_) >= y
      <3> HIDE DEF days_
      <3> QED
        BY <2>1, MaxOfInterval
    <2>3. S!Max(days_) = Max(days_)
      BY Zenon DEF S!Max, Max
    <2> QED
      BY <2>1, <2>2, <2>3
  <1> HIDE DEF previous, l
  <1>5. first \in Nat /\ \A d \in 1 .. first - 1 : d \in finished \cup excused
    <2>1. CASE first = 0
      BY <2>1
    <2>2. CASE first = l + 1
      <3>1. ASSUME NEW d \in 1 .. first - 1, d \notin finished
            PROVE  d \in excused
        <4>1. d < l /\ l \in finished /\ d # 0
          BY <1>4, <2>2, <3>1
        <4>2. l \in S!Days /\ S!Days = 0 .. MaxDay /\ MaxDay \in Nat
          BY <4>1, StatsConstants DEF StatsInv, S!TypeOK
        <4>3. d \in S!Days
          BY <1>4, <4>1, <4>2
        <4> QED
          BY <3>1, <4>1, <4>3 DEF StatsInv, S!GapsAreExcused, S!DaysBelow
      <3> QED
        BY <1>4, <2>2, <3>1
    <2> QED
      BY <1>1, <1>4, <2>1, <2>2 DEF S!FirstDay
  <1>6. first \in S!Days
    BY <1>1, <1>3, <1>5, StatsConstants
  <1> DEFINE r == [pc |-> "day", day |-> first, upto |-> previous, read |-> {}]
  <1>7. r \in [pc : {"idle", "reset", "day", "write", "stuck"},
               day : S!Days, upto : S!Days, read : SUBSET indexed]
    BY <1>3, <1>6
  <1>8. S!GapsAreExcused' /\ "loop" \in S!Programs
    BY <1>2 DEF StatsInv, S!GapsAreExcused, S!DaysBelow, S!Programs
  <1> QED
    BY <1>1, <1>2, <1>5, <1>7, <1>8, ProgramStep DEF StatsInv, S!TypeOK

\* A day that is over is left for the next one, if there is one.
LEMMA NextDayType ==
    ASSUME StatsInv, NEW p \in S!Programs, program[p].pc \in {"day", "write"}, S!NextDay(p)
    PROVE  \E r \in [pc : {"idle", "reset", "day"}, day : S!Days, upto : S!Days,
                     read : SUBSET indexed] :
             /\ program' = [program EXCEPT ![p] = r]
             /\ r.day <= r.upto
             /\ p = "loop" /\ r.pc = "day" => r.day = program[p].day + 1
  <1>1. /\ program[p].day \in S!Days /\ program[p].upto \in S!Days
        /\ program[p].day <= program[p].upto
        /\ S!Days = 0 .. MaxDay /\ MaxDay \in Nat
    BY StatsConstants DEF StatsInv, S!TypeOK, ProgramsTyped
  <1>2. CASE program[p].day = program[p].upto
    <2>1. program' = [program EXCEPT ![p] = S!Idle]
      BY <1>2 DEF S!NextDay
    <2>2. S!Idle \in [pc : {"idle", "reset", "day"}, day : S!Days, upto : S!Days,
                      read : SUBSET indexed]
      BY <1>1 DEF S!Idle
    <2>3. S!Idle.day <= S!Idle.upto /\ S!Idle.pc # "day"
      BY DEF S!Idle
    <2> QED
      BY <2>1, <2>2, <2>3
  <1>3. CASE program[p].day # program[p].upto
    <2> DEFINE old == program[p]
               next == IF p = "tool" THEN "reset" ELSE "day"
               r == [old EXCEPT !.day = @ + 1, !.pc = next, !.read = {}]
    <2>1. old \in [pc : {"idle", "reset", "day", "write", "stuck"},
                   day : S!Days, upto : S!Days, read : SUBSET indexed]
      BY DEF StatsInv, ProgramsTyped
    <2>2. program' = [program EXCEPT ![p] = r]
      BY <1>3 DEF S!NextDay
    <2>3. /\ old.day + 1 \in S!Days /\ old.day + 1 <= old.upto
          /\ next \in {"reset", "day"}
      BY <1>1, <1>3
    <2>4. /\ r \in [pc : {"idle", "reset", "day"}, day : S!Days, upto : S!Days,
                    read : SUBSET indexed]
          /\ r.day = old.day + 1 /\ r.upto = old.upto
      <3> HIDE DEF old, next
      <3> QED
        BY <2>1, <2>3
    <2> HIDE DEF r, next
    <2> QED
      BY <2>2, <2>3, <2>4
  <1> QED
    BY <1>2, <1>3

\* An attempt at a day that ends without rows excuses the day.
LEMMA FailedDayStep ==
    ASSUME StatsInv, NEW p \in S!Programs, program[p].pc \in {"day", "write"},
           S!NextDay(p), excused' = excused \cup {program[p].day} \/
                         (excused' = excused /\ program[p].day \in finished),
           UNCHANGED <<indexed, finished, stats>>
    PROVE  StatsInv'
  <1>1. PICK r \in [pc : {"idle", "reset", "day"}, day : S!Days, upto : S!Days,
                    read : SUBSET indexed] :
             /\ program' = [program EXCEPT ![p] = r]
             /\ r.day <= r.upto
             /\ p = "loop" /\ r.pc = "day" => r.day = program[p].day + 1
    BY NextDayType
  <1>2. S!GapsAreExcused'
    BY DEF StatsInv, S!GapsAreExcused, S!DaysBelow
  <1>3. program[p].day \in finished \cup excused' /\ program[p].day \in Nat
    BY StatsConstants DEF StatsInv, ProgramsTyped
  <1>4. p = "loop" /\ r.pc \in {"day", "write"} =>
           \A d \in 1 .. r.day - 1 : d \in finished' \cup excused'
    <2> HAVE p = "loop" /\ r.pc \in {"day", "write"}
    <2>1. r.day = program[p].day + 1
      BY <1>1
    <2>2. \A d \in 1 .. program[p].day - 1 : d \in finished \cup excused
      BY DEF StatsInv, LoopLeavesNoGap
    <2> TAKE d \in 1 .. r.day - 1
    <2>3. d \in 1 .. program[p].day - 1 \/ d = program[p].day
      BY <1>3, <2>1
    <2> QED
      BY <1>3, <2>2, <2>3
  <1> QED
    BY <1>1, <1>2, <1>4, ProgramStep DEF StatsInv, S!TypeOK

\* An operator starts a run over given days.
LEMMA ToolStartStep ==
    ASSUME StatsInv, NEW first \in S!Days, NEW last \in S!Days, first <= last,
           S!StartTool(first, last)
    PROVE  StatsInv'
  <1> DEFINE r == [pc |-> "reset", day |-> first, upto |-> last, read |-> {}]
  <1>1. program' = [program EXCEPT !["tool"] = r] /\ "tool" \in S!Programs
    BY DEF S!StartTool, S!Programs
  <1>2. UNCHANGED <<indexed, finished, stats, excused>>
    BY DEF S!StartTool
  <1>3. S!GapsAreExcused'
    BY <1>2 DEF StatsInv, S!GapsAreExcused, S!DaysBelow
  <1> QED
    BY <1>1, <1>2, <1>3, ProgramStep DEF StatsInv, S!TypeOK

\* A program stops, at any time.
LEMMA StopStep ==
    ASSUME StatsInv, NEW p \in S!Programs, program' = [program EXCEPT ![p] = S!Idle],
           UNCHANGED <<indexed, finished, stats, excused>>
    PROVE  StatsInv'
  <1>1. /\ S!Idle \in [pc : {"idle", "reset", "day", "write", "stuck"},
                       day : S!Days, upto : S!Days, read : SUBSET indexed]
        /\ S!Idle.day <= S!Idle.upto /\ S!Idle.pc = "idle"
    BY StatsConstants DEF S!Idle
  <1>2. S!GapsAreExcused'
    BY DEF StatsInv, S!GapsAreExcused, S!DaysBelow
  <1> QED
    BY <1>1, <1>2, ProgramStep DEF StatsInv, S!TypeOK

\* The tool deletes the status of a day before it exports it again.
LEMMA ResetStep ==
    ASSUME StatsInv, S!Reset
    PROVE  StatsInv'
  <1> DEFINE old == program["tool"]
             r == [old EXCEPT !.pc = "day"]
  <1>0. "tool" \in S!Programs /\ UNCHANGED <<indexed, stats>> /\ old.pc = "reset"
    BY DEF S!Reset, S!Programs
  <1>1. CASE /\ finished' = finished \ {old.day} /\ excused' = excused \cup {old.day}
             /\ program' = [program EXCEPT !["tool"].pc = "day"]
    <2>1. program' = [program EXCEPT !["tool"] = r]
      BY <1>1
    <2>2. old \in [pc : {"idle", "reset", "day", "write", "stuck"},
                   day : S!Days, upto : S!Days, read : SUBSET indexed]
          /\ old.day <= old.upto
      BY <1>0 DEF StatsInv, S!TypeOK, ProgramsTyped
    <2>3. /\ r \in [pc : {"idle", "reset", "day", "write", "stuck"},
                    day : S!Days, upto : S!Days, read : SUBSET indexed]
          /\ r.pc = "day" /\ r.day <= r.upto
      <3> HIDE DEF old
      <3> QED
        BY <2>2
    <2>4. S!GapsAreExcused'
      BY <1>1 DEF StatsInv, S!GapsAreExcused, S!DaysBelow
    <2>5. finished' \subseteq S!Days /\ finished \cup excused \subseteq finished' \cup excused'
      BY <1>1 DEF StatsInv, S!TypeOK
    <2> HIDE DEF r
    <2> QED
      BY <1>0, <2>1, <2>3, <2>4, <2>5, ProgramStep DEF StatsInv, S!TypeOK
  <1>2. CASE program' = [program EXCEPT !["tool"] = S!Idle] /\ UNCHANGED <<finished, excused>>
    BY <1>0, <1>2, StopStep
  <1> QED
    BY <1>1, <1>2 DEF S!Reset

\* The data of a day is read when the day has ended.
LEMMA ReadStep ==
    ASSUME StatsInv, NEW p \in S!Programs, S!Read(p)
    PROVE  StatsInv'
  <1> DEFINE old == program[p]
             next == IF old.day = 0 THEN "stuck" ELSE "write"
             data_ == indexed \cap S!EpochsOf(old.day)
             r == [old EXCEPT !.pc = next, !.read = data_]
  <1>1. /\ program' = [program EXCEPT ![p] = r]
        /\ old.pc = "day" /\ S!HasEnded(old.day)
        /\ UNCHANGED <<indexed, finished, stats, excused>>
    BY DEF S!Read
  <1>2. old \in [pc : {"idle", "reset", "day", "write", "stuck"},
                 day : S!Days, upto : S!Days, read : SUBSET indexed]
        /\ old.day <= old.upto
    BY DEF StatsInv, S!TypeOK, ProgramsTyped
  <1>3. /\ next \in {"stuck", "write"}
        /\ next = "stuck" => old.day = 0
        /\ next = "write" => old.day # 0
        /\ data_ \in SUBSET indexed
    OBVIOUS
  <1>4. /\ r \in [pc : {"idle", "reset", "day", "write", "stuck"},
                  day : S!Days, upto : S!Days, read : SUBSET indexed]
        /\ r.pc = next /\ r.day = old.day /\ r.upto = old.upto
    <2> HIDE DEF old, next, data_
    <2> QED
      BY <1>2, <1>3
  <1>5. S!GapsAreExcused'
    BY <1>1 DEF StatsInv, S!GapsAreExcused, S!DaysBelow
  <1>6. p = "loop" => \A d \in 1 .. old.day - 1 : d \in finished' \cup excused'
    BY <1>1 DEF StatsInv, LoopLeavesNoGap
  <1>7. S!HasEnded(r.day)
    BY <1>1, <1>4
  <1> HIDE DEF r, next
  <1> QED
    BY <1>1, <1>2, <1>3, <1>4, <1>5, <1>6, <1>7, ProgramStep DEF StatsInv, S!TypeOK

\* The rows of a day and its status are written, unless the status is there.
LEMMA WriteDayStep ==
    ASSUME StatsInv, NEW p \in S!Programs, S!WriteDay(p)
    PROVE  StatsInv'
  <1> DEFINE d == program[p].day
  <1>0. /\ program[p].pc = "write" /\ S!NextDay(p) /\ indexed' = indexed
        /\ d \in S!Days /\ d \in Nat /\ program[p].read \subseteq indexed
    BY StatsConstants DEF S!WriteDay, StatsInv, ProgramsTyped
  <1>1. CASE d \in finished
    BY <1>0, <1>1, FailedDayStep DEF S!WriteDay
  <1>2. CASE d \notin finished
    <2>1. /\ finished' = finished \cup {d}
          /\ stats' = [stats EXCEPT ![d] = program[p].read]
          /\ excused' = S!Excuse(p, d)
      BY <1>2 DEF S!WriteDay
    <2>2. PICK r \in [pc : {"idle", "reset", "day"}, day : S!Days, upto : S!Days,
                      read : SUBSET indexed] :
               /\ program' = [program EXCEPT ![p] = r]
               /\ r.day <= r.upto
               /\ p = "loop" /\ r.pc = "day" => r.day = d + 1
      BY <1>0, NextDayType
    <2>3. excused \subseteq excused'
      BY <2>1 DEF S!Excuse
    <2>4. \A x \in 1 .. d - 1 : x \in finished' \cup excused'
      <3>1. CASE p = "tool"
        BY <1>0, <2>1, <3>1 DEF S!Excuse
      <3>2. CASE p = "loop"
        BY <1>0, <2>1, <2>3, <3>2 DEF StatsInv, LoopLeavesNoGap
      <3> QED
        BY <3>1, <3>2 DEF S!Programs
    <2>5. S!GapsAreExcused'
      <3> SUFFICES ASSUME NEW x \in S!Days, x # 0, x \notin finished',
                          NEW y \in finished', y > x
                   PROVE  x \in excused'
        BY DEF S!GapsAreExcused, S!DaysBelow
      <3>1. x \in Nat
        BY StatsConstants
      <3>2. CASE y \in finished
        BY <2>1, <2>3, <3>2 DEF StatsInv, S!GapsAreExcused, S!DaysBelow
      <3>3. CASE y = d
        <4>1. x \in 1 .. d - 1
          BY <1>0, <3>1, <3>3
        <4> QED
          BY <2>4, <4>1
      <3> QED
        BY <2>1, <3>2, <3>3
    <2>6. p = "loop" /\ r.pc \in {"day", "write"} =>
             \A x \in 1 .. r.day - 1 : x \in finished' \cup excused'
      <3> HAVE p = "loop" /\ r.pc \in {"day", "write"}
      <3>1. r.day = d + 1
        BY <2>2
      <3> TAKE x \in 1 .. r.day - 1
      <3>2. x \in 1 .. d - 1 \/ x = d
        BY <1>0, <3>1
      <3> QED
        BY <2>1, <2>4, <3>2
    <2>7. finished' \subseteq S!Days /\ stats' \in [S!Days -> SUBSET indexed]
      BY <1>0, <2>1 DEF StatsInv, S!TypeOK
    <2>8. finished \cup excused \subseteq finished' \cup excused'
      BY <2>1, <2>3
    <2> HIDE DEF d
    <2> QED
      BY <1>0, <2>2, <2>5, <2>6, <2>7, <2>8, ProgramStep
  <1> QED
    BY <1>1, <1>2

\* An epoch is indexed: a day that has ended stays so.
LEMMA IndexStep ==
    ASSUME StatsInv, NEW e \in 0 .. S!FirstEpoch(MaxDay + 1), S!Index(e)
    PROVE  StatsInv'
  <1>1. indexed' = indexed \cup {e} /\ UNCHANGED <<finished, stats, program, excused>>
    BY DEF S!Index
  <1>2. IndexedTyped /\ IndexedTyped' /\ indexed \subseteq indexed'
    BY <1>1 DEF StatsInv, S!TypeOK, IndexedTyped
  <1>3. \A d \in S!Days : S!HasEnded(d) => S!HasEnded(d)'
    BY <1>2, EndedStays
  <1>4. ProgramsTyped'
    <2> DEFINE T(rows) == [S!Programs -> [pc : {"idle", "reset", "day", "write", "stuck"},
                                          day : S!Days, upto : S!Days, read : SUBSET rows]]
    <2>1. program \in T(indexed)
      BY DEF StatsInv, ProgramsTyped
    <2>2. T(indexed) \subseteq T(indexed')
      BY <1>2
    <2> QED
      BY <1>1, <2>1, <2>2 DEF ProgramsTyped
  <1>5. S!TypeOK'
    BY <1>1, <1>2 DEF StatsInv, S!TypeOK, IndexedTyped
  <1>6. WrittenHasEnded'
    <2>1. \A q \in S!Programs : program[q].pc = "write" => S!HasEnded(program[q].day)
      BY DEF StatsInv, WrittenHasEnded
    <2>2. \A q \in S!Programs : program[q].day \in S!Days
      BY DEF StatsInv, ProgramsTyped
    <2>3. \A q \in S!Programs : program'[q].pc = "write" =>
             S!LastEpoch(program'[q].day) <= S!LatestEpoch'
      BY <1>1, <1>3, <2>1, <2>2 DEF S!HasEnded
    <2> QED
      BY <2>3 DEF WrittenHasEnded, S!HasEnded
  <1>7. LoopLeavesNoGap' /\ S!GapsAreExcused'
    BY <1>1 DEF StatsInv, LoopLeavesNoGap, S!GapsAreExcused, S!DaysBelow
  <1> QED
    BY <1>4, <1>5, <1>6, <1>7 DEF StatsInv

\* What a step may do to the rows of a day.
DayStep ==
    \A d \in S!Days :
        /\ stats'[d] # stats[d] => d \in finished' \ finished
        /\ d \in finished' \ finished => S!HasEnded(d)

\* Only WriteDay writes the rows of a day, with a status that was not there.
LEMMA RowsOfDayStep ==
    ASSUME StatsInv, S!Next \/ UNCHANGED ofStatistics
    PROVE  DayStep
  <1>1. ASSUME NEW p \in S!Programs, S!WriteDay(p) PROVE DayStep
    <2>1. S!HasEnded(program[p].day) /\ stats \in [S!Days -> SUBSET indexed]
      BY <1>1 DEF S!WriteDay, StatsInv, WrittenHasEnded, S!TypeOK
    <2> QED
      BY <1>1, <2>1 DEF S!WriteDay, DayStep
  <1>2. CASE S!WriteDay("loop") \/ S!WriteDay("tool")
    BY <1>1, <1>2 DEF S!Programs
  <1>3. CASE UNCHANGED stats /\ finished' \subseteq finished
    BY <1>3 DEF DayStep
  <1>4. S!WriteDay("loop") \/ S!WriteDay("tool") \/
        (UNCHANGED stats /\ finished' \subseteq finished)
    BY DEF S!Next, S!Loop, S!Index, S!Round, S!Read, S!FailDay, S!Reset, S!StartTool,
           S!StopProgram, ofStatistics
  <1> QED
    BY <1>2, <1>3, <1>4

\* StatsInv is inductive.
LEMMA StatsStep ==
    ASSUME StatsInv, S!Next \/ UNCHANGED ofStatistics
    PROVE  StatsInv'
  <1>0. "loop" \in S!Programs /\ "tool" \in S!Programs
    BY DEF S!Programs
  <1>1. CASE \E e \in 0 .. S!FirstEpoch(MaxDay + 1) : S!Index(e)
    BY <1>1, IndexStep
  <1>2. CASE S!Round
    BY <1>2, RoundStep
  <1>3. CASE S!Reset
    BY <1>3, ResetStep
  <1>4. CASE S!Read("loop") \/ S!Read("tool")
    BY <1>0, <1>4, ReadStep
  <1>5. CASE S!WriteDay("loop") \/ S!WriteDay("tool")
    BY <1>0, <1>5, WriteDayStep
  <1>6. ASSUME NEW p \in S!Programs, S!FailDay(p) PROVE StatsInv'
    BY <1>6, FailedDayStep DEF S!FailDay
  <1>7. CASE \E first, last \in S!Days : first <= last /\ S!StartTool(first, last)
    BY <1>7, ToolStartStep
  <1>8. CASE \E p \in S!Programs : S!StopProgram(p)
    BY <1>8, StopStep DEF S!StopProgram
  <1>9. CASE UNCHANGED ofStatistics
    BY <1>9 DEF ofStatistics, StatsInv, S!TypeOK, ProgramsTyped, WrittenHasEnded, S!HasEnded,
                S!LatestEpoch, LoopLeavesNoGap, S!GapsAreExcused, S!DaysBelow
  <1> QED
    BY <1>0, <1>1, <1>2, <1>3, <1>4, <1>5, <1>6, <1>7, <1>8, <1>9 DEF S!Next, S!Loop

\* The slots of the deposits of one day end before those of the next begin.
LEMMA DepositsApart == \A c, d \in S!Days : c < d => S!Deposits(c) \cap S!Deposits(d) = {}
  <1> SUFFICES ASSUME NEW c \in S!Days, NEW d \in S!Days, c < d
               PROVE  S!Deposits(c) \cap S!Deposits(d) = {}
    OBVIOUS
  <1>1. /\ c \in Nat /\ d \in Nat /\ c + 1 <= d
        /\ EpochsPerDay \in Nat \ {0} /\ SlotsPerEpoch \in Nat \ {0}
    BY StatsConstants
  <1>2. (c + 1) * EpochsPerDay <= d * EpochsPerDay
    BY <1>1, ProductMonotonic
  <1> DEFINE first == d * EpochsPerDay
             last == (c + 1) * EpochsPerDay - 1
  <1>3. first \in Int /\ last \in Int /\ last + 1 <= first
    BY <1>1, <1>2
  <1> HIDE DEF first, last
  <1>4. (last + 1) * SlotsPerEpoch <= first * SlotsPerEpoch
    BY <1>1, <1>3, ProductMonotonic
  <1>5. (last + 1) * SlotsPerEpoch = last * SlotsPerEpoch + SlotsPerEpoch
    BY <1>1, <1>3
  <1>6. last * SlotsPerEpoch < first * SlotsPerEpoch
    BY <1>1, <1>3, <1>4, <1>5
  <1> QED
    BY <1>1, <1>3, <1>6 DEF first, last, S!Deposits, S!FirstEpoch, S!LastEpoch

\* StatsInv holds throughout.
LEMMA StatsAlways == Spec => []StatsInv
  <1>1. Init => StatsInv
    BY StatsInit DEF Init
  <1>2. StatsInv /\ [Next]_vars => StatsInv'
    BY ComponentSteps, StatsStep
  <1> QED
    BY <1>1, <1>2, PTL DEF Spec

\* A day before a finished one is finished, or failed, or an operator took the
\* days up himself; and no deposit counts for two days.
THEOREM DaysStaySound == Spec => []DaysAreSound
  <1>1. StatsInv => S!DepositsOnce
    <2> SUFFICES ASSUME StatsInv, NEW c \in finished, NEW d \in finished, c # d
                 PROVE  S!Deposits(c) \cap S!Deposits(d) = {}
      BY DEF S!DepositsOnce
    <2>1. c \in S!Days /\ d \in S!Days /\ c \in Nat /\ d \in Nat
      BY StatsConstants DEF StatsInv, S!TypeOK
    <2>2. c < d \/ d < c
      BY <2>1
    <2> QED
      BY <2>1, <2>2, DepositsApart
  <1>2. StatsInv => DaysAreSound
    BY <1>1 DEF StatsInv, DaysAreSound
  <1> QED
    BY <1>2, StatsAlways, PTL

\* The rows and the status of a day are written together, once, after its last
\* epoch was indexed, however many programs export the day.
THEOREM DaysAreWrittenOnce == Spec => DayWrittenOnce
  <1>1. StatsInv /\ [Next]_vars => [DayStep]_(S!vars)
    BY ComponentSteps, RowsOfDayStep
  <1> QED
    BY <1>1, StatsAlways, PTL DEF Spec, DayWrittenOnce, S!DayWrittenOnce, DayStep

-----------------------------------------------------------------------------
(* The beacon node client *)

Branches == {"a", "b", "common"}
Entry == [epoch : N!AskedEpochs, proposers : Branches, committees : Branches]
FetchRecord ==
    [caller : Callers, part : {"duties", "block"}, proposers : {"unread"} \cup Branches]
CallRecord ==
    [pc : {"idle", "balances", "parts", "returned", "failed", "down"},
     epoch : N!AskedEpochs, left : SUBSET N!Parts3, balances : {"unread", "all", "zeroed"},
     duties : Seq(Entry), share : {"none", "one", "whole", "so far", "running"},
     refreshed : BOOLEAN, block : {"unread", "none", "failed"} \cup Branches,
     attested : Seq(Entry), erred : BOOLEAN]

ClientNumbers ==
    /\ fork \in N!BranchNames /\ headAt \in N!AskedEpochs
    /\ latestHead \in 0 .. headAt /\ latestHead \in Nat
    /\ switches \in 0 .. MaxSwitches /\ errors \in 0 .. MaxErrors

\* The cache has one entry of an epoch, of one branch.
CacheSound ==
    /\ duties \in Seq(Entry) /\ Len(duties) <= CacheSize
    /\ \A i \in 1 .. Len(duties) : duties[i].proposers = duties[i].committees
    /\ \A i, j \in 1 .. Len(duties) : duties[i].epoch = duties[j].epoch => i = j
    /\ switches = 0 =>
          \A i \in 1 .. Len(duties) : duties[i].committees = N!DutyOf(duties[i].epoch, fork)

\* Whoever holds the lock of the cache needs duties that are not in it.
FetchSound ==
    /\ fetch \in Seq(FetchRecord) /\ Len(fetch) <= 1
    /\ fetch # <<>> =>
          /\ N!Needs(fetch[1].caller, fetch[1].part)
          /\ N!Cached(call[fetch[1].caller].epoch) = {}
          /\ switches = 0 => fetch[1].proposers \in
                {"unread", N!DutyOf(call[fetch[1].caller].epoch, fork)}

\* What a call may hold, whatever it still waits for.
RecordSound(r) ==
    /\ r.share # "running"
    /\ r.pc = "returned" => r.duties # <<>>
    /\ r.block = "none" => r.epoch \in Holes
    /\ r.block = "failed" => r.erred
    /\ r.pc \in {"idle", "balances"} => r.attested = <<>>
    /\ r.attested # <<>> => "block" \notin r.left /\ r.block \in Branches

\* Until the node switches its branch, the blocks and the duties are of the same one.
RecordOf(r, branch) ==
    /\ r.block \in Branches => r.block = N!DutyOf(r.epoch, branch)
    /\ r.attested # <<>> => r.attested[1].committees = N!DutyOf(r.epoch, branch)

CallsSound ==
    /\ call \in [Callers -> CallRecord]
    /\ \A c \in Callers : RecordSound(call[c])
    /\ switches = 0 => \A c \in Callers : RecordOf(call[c], fork)

ClientInv == ClientNumbers /\ CacheSound /\ FetchSound /\ CallsSound

\* A branch's duties are the branch's, or common.
LEMMA DutyType == \A e, b : b \in N!BranchNames => N!DutyOf(e, b) \in Branches
  BY DEF N!DutyOf, N!BranchNames, Branches

\* The constants of the client are numbers.
LEMMA ClientConstants ==
    /\ EpochsAsked \in Nat \ {0} /\ ForkEpoch \in Nat /\ MaxSwitches \in Nat
    /\ MaxErrors \in Nat /\ CacheSize \in Nat \ {0}
    /\ N!AskedEpochs = 1 .. EpochsAsked
  BY ExportsAssumption DEF N!ClientAssumption, N!AskedEpochs

\* A caller that has not asked holds a sound record.
LEMMA NoCallSound ==
    /\ N!NoCall \in CallRecord /\ RecordSound(N!NoCall)
    /\ \A b : RecordOf(N!NoCall, b)
    /\ N!NoCall.block = "unread" /\ N!NoCall.attested = <<>> /\ N!NoCall.duties = <<>>
    /\ N!NoCall.left = {} /\ N!NoCall.share = "none"
  <1>1. 1 \in N!AskedEpochs
    BY ClientConstants
  <1>2. N!NoCall \in CallRecord
    BY <1>1 DEF N!NoCall, CallRecord, N!Parts3
  <1> QED
    BY <1>2 DEF N!NoCall, RecordSound, RecordOf, Branches

\* The client starts with an empty cache.
LEMMA ClientInit == N!Init => ClientInv
  <1> SUFFICES ASSUME N!Init PROVE ClientInv
    OBVIOUS
  <1>1. ClientNumbers
    BY ClientConstants DEF N!Init, ClientNumbers, N!BranchNames
  <1>2. CacheSound
    BY ClientConstants DEF N!Init, CacheSound
  <1>3. FetchSound
    BY DEF N!Init, FetchSound
  <1>4. CallsSound
    BY NoCallSound DEF N!Init, CallsSound
  <1> QED
    BY <1>1, <1>2, <1>3, <1>4 DEF ClientInv

\* One sequence behind another.
LEMMA Concatenated ==
    ASSUME NEW T, NEW a \in Seq(T), NEW b \in Seq(T)
    PROVE  a \o b \in Seq(T) /\ Len(a \o b) = Len(a) + Len(b)
  OBVIOUS

\* An entry that is used again moves to the front of the cache.
LEMMA MovedToFront ==
    ASSUME NEW T, NEW s \in Seq(T), NEW i \in 1 .. Len(s)
    PROVE  LET t == <<s[i]>> \o N!RemoveAt(s, i)
           IN /\ t \in Seq(T) /\ Len(t) = Len(s)
              /\ \A j \in 1 .. Len(s) :
                    t[j] = IF j = 1 THEN s[i] ELSE IF j <= i THEN s[j - 1] ELSE s[j]
  <1> DEFINE before == SubSeq(s, 1, i - 1)
             after == SubSeq(s, i + 1, Len(s))
             rest == before \o after
  <1>0. Len(s) \in Nat /\ i \in Nat /\ 1 <= i /\ i <= Len(s)
    OBVIOUS
  <1>1. /\ before \in Seq(T) /\ Len(before) = i - 1
        /\ \A j \in 1 .. i - 1 : before[j] = s[j]
    OBVIOUS
  <1>2. /\ after \in Seq(T) /\ Len(after) = Len(s) - i
        /\ \A j \in 1 .. Len(s) - i : after[j] = s[j + i]
    OBVIOUS
  <1>3. /\ rest \in Seq(T) /\ Len(rest) = Len(s) - 1
        /\ \A j \in 1 .. Len(s) - 1 : rest[j] = IF j < i THEN s[j] ELSE s[j + 1]
    <2> HIDE DEF before, after
    <2>1. rest \in Seq(T) /\ Len(rest) = Len(s) - 1
      <3>1. rest \in Seq(T) /\ Len(rest) = Len(before) + Len(after)
        BY <1>1, <1>2, Concatenated
      <3> QED
        BY <1>0, <1>1, <1>2, <3>1
    <2>2. \A j \in 1 .. Len(s) - 1 : rest[j] = IF j <= i - 1 THEN before[j] ELSE after[j - (i - 1)]
      BY <1>1, <1>2
    <2>3. ASSUME NEW j \in 1 .. Len(s) - 1
          PROVE  rest[j] = IF j < i THEN s[j] ELSE s[j + 1]
      <3>1. CASE j < i
        BY <1>1, <2>2, <3>1
      <3>2. CASE ~(j < i)
        <4>0. j \in Int /\ ~(j <= i - 1) /\ j - (i - 1) \in 1 .. Len(s) - i
          BY <1>0, <3>2
        <4>1. rest[j] = after[j - (i - 1)] /\ j - (i - 1) \in 1 .. Len(s) - i
          BY <2>2, <4>0
        <4>2. after[j - (i - 1)] = s[j - (i - 1) + i]
          BY <1>2, <4>1
        <4> QED
          BY <1>0, <3>2, <4>1, <4>2
      <3> QED
        BY <3>1, <3>2
    <2> QED
      BY <2>1, <2>3
  <1>4. s[i] \in T
    OBVIOUS
  <1>5. N!RemoveAt(s, i) = rest
    BY DEF N!RemoveAt
  <1> HIDE DEF rest
  <1> QED
    BY <1>3, <1>4, <1>5

\* A new entry pushes out the one that was not used for longest.
LEMMA AddedInFront ==
    ASSUME NEW entry \in Entry, duties \in Seq(Entry)
    PROVE  /\ N!Add(entry) \in Seq(Entry) /\ Len(N!Add(entry)) <= CacheSize
           /\ Len(N!Add(entry)) >= 1 /\ Len(N!Add(entry)) <= Len(duties) + 1
           /\ \A j \in 1 .. Len(N!Add(entry)) :
                 N!Add(entry)[j] = IF j = 1 THEN entry ELSE duties[j - 1]
  <1> DEFINE longer == <<entry>> \o duties
             n == IF Len(longer) > CacheSize THEN CacheSize ELSE Len(longer)
  <1>1. /\ longer \in Seq(Entry) /\ Len(longer) = Len(duties) + 1
        /\ \A j \in 1 .. Len(longer) : longer[j] = IF j = 1 THEN entry ELSE duties[j - 1]
    OBVIOUS
  <1>2. n \in 1 .. Len(longer) /\ n <= CacheSize /\ n \in Nat
    <2> HIDE DEF longer
    <2> QED
      BY <1>1, ClientConstants
  <1>3. N!Add(entry) = SubSeq(longer, 1, n)
    BY DEF N!Add
  <1> HIDE DEF longer, n
  <1>4. /\ SubSeq(longer, 1, n) \in Seq(Entry) /\ Len(SubSeq(longer, 1, n)) = n
        /\ \A j \in 1 .. n : SubSeq(longer, 1, n)[j] = longer[j]
    BY <1>1, <1>2
  <1> QED
    BY <1>1, <1>2, <1>3, <1>4

\* An entry that is used again: the cache holds what it held.
LEMMA CacheAfterUse ==
    ASSUME CacheSound, NEW i \in 1 .. Len(duties), duties' = N!ToFront(i),
           UNCHANGED <<fork, switches>>
    PROVE  CacheSound'
  <1>1. /\ duties' \in Seq(Entry) /\ Len(duties') = Len(duties) /\ Len(duties) \in Nat
        /\ \A j \in 1 .. Len(duties) :
             duties'[j] = IF j = 1 THEN duties[i] ELSE IF j <= i THEN duties[j - 1] ELSE duties[j]
    BY MovedToFront DEF CacheSound, N!ToFront
  <1> DEFINE from(j) == IF j = 1 THEN i ELSE IF j <= i THEN j - 1 ELSE j
  <1>2. /\ \A j \in 1 .. Len(duties) : /\ from(j) \in 1 .. Len(duties)
                                       /\ duties'[j] = duties[from(j)]
        /\ \A j, k \in 1 .. Len(duties) : from(j) = from(k) => j = k
    BY <1>1
  <1> HIDE DEF from
  <1>3. \A j \in 1 .. Len(duties') : duties'[j].proposers = duties'[j].committees
    BY <1>1, <1>2 DEF CacheSound
  <1>4. \A j, k \in 1 .. Len(duties') : duties'[j].epoch = duties'[k].epoch => j = k
    <2> SUFFICES ASSUME NEW j \in 1 .. Len(duties), NEW k \in 1 .. Len(duties),
                        duties'[j].epoch = duties'[k].epoch
                 PROVE  j = k
      BY <1>1
    <2>1. /\ from(j) \in 1 .. Len(duties) /\ from(k) \in 1 .. Len(duties)
          /\ duties[from(j)].epoch = duties[from(k)].epoch
      BY <1>2
    <2>2. from(j) = from(k)
      BY <2>1 DEF CacheSound
    <2> QED
      BY <1>2, <2>2
  <1>5. switches' = 0 =>
          \A j \in 1 .. Len(duties') : duties'[j].committees = N!DutyOf(duties'[j].epoch, fork')
    BY <1>1, <1>2 DEF CacheSound
  <1> QED
    BY <1>1, <1>3, <1>4, <1>5 DEF CacheSound

\* A new entry, of an epoch that was not there.
LEMMA CacheAfterFetch ==
    ASSUME CacheSound, NEW entry \in Entry, duties' = N!Add(entry),
           entry.proposers = entry.committees, N!Cached(entry.epoch) = {},
           switches = 0 => entry.committees = N!DutyOf(entry.epoch, fork),
           UNCHANGED <<fork, switches>>
    PROVE  CacheSound'
  <1>1. /\ duties' \in Seq(Entry) /\ Len(duties') <= CacheSize
        /\ Len(duties') <= Len(duties) + 1 /\ Len(duties) \in Nat /\ Len(duties') \in Nat
        /\ \A j \in 1 .. Len(duties') : duties'[j] = IF j = 1 THEN entry ELSE duties[j - 1]
    <2>1. duties \in Seq(Entry) /\ Len(duties) \in Nat
      BY DEF CacheSound
    <2>2. /\ N!Add(entry) \in Seq(Entry) /\ Len(N!Add(entry)) <= CacheSize
          /\ Len(N!Add(entry)) <= Len(duties) + 1
          /\ \A j \in 1 .. Len(N!Add(entry)) :
                N!Add(entry)[j] = IF j = 1 THEN entry ELSE duties[j - 1]
      BY <2>1, AddedInFront
    <2> QED
      BY <2>1, <2>2
  <1>2. \A j \in 1 .. Len(duties) : duties[j].epoch # entry.epoch
    BY DEF N!Cached, CacheSound
  <1>3. \A j \in 1 .. Len(duties') : j # 1 => j - 1 \in 1 .. Len(duties)
    BY <1>1
  <1>4. \A j \in 1 .. Len(duties') : duties'[j].proposers = duties'[j].committees
    <2> TAKE j \in 1 .. Len(duties')
    <2>1. CASE j = 1
      BY <1>1, <2>1
    <2>2. CASE j # 1
      <3>1. duties'[j] = duties[j - 1] /\ j - 1 \in 1 .. Len(duties)
        BY <1>1, <1>3, <2>2
      <3> QED
        BY <3>1 DEF CacheSound
    <2> QED
      BY <2>1, <2>2
  <1>5. \A j, k \in 1 .. Len(duties') : duties'[j].epoch = duties'[k].epoch => j = k
    <2> SUFFICES ASSUME NEW j \in 1 .. Len(duties'), NEW k \in 1 .. Len(duties'),
                        duties'[j].epoch = duties'[k].epoch
                 PROVE  j = k
      OBVIOUS
    <2>1. CASE j = 1 \/ k = 1
      BY <1>1, <1>2, <1>3, <2>1
    <2>2. CASE j # 1 /\ k # 1
      <3>1. /\ duties'[j] = duties[j - 1] /\ j - 1 \in 1 .. Len(duties)
            /\ duties'[k] = duties[k - 1] /\ k - 1 \in 1 .. Len(duties)
        BY <1>1, <1>3, <2>2
      <3>2. \A a, b \in 1 .. Len(duties) : duties[a].epoch = duties[b].epoch => a = b
        BY DEF CacheSound
      <3>3. duties[j - 1].epoch = duties[k - 1].epoch
        BY <3>1
      <3>4. j - 1 = k - 1
        BY ONLY <3>1, <3>2, <3>3
      <3> QED
        BY ONLY <1>1, <3>4, j \in 1 .. Len(duties'), k \in 1 .. Len(duties')
    <2> QED
      BY <2>1, <2>2
  <1>6. switches' = 0 =>
          \A j \in 1 .. Len(duties') : duties'[j].committees = N!DutyOf(duties'[j].epoch, fork')
    BY <1>1, <1>3 DEF CacheSound
  <1> QED
    BY <1>1, <1>4, <1>5, <1>6 DEF CacheSound

\* A step of one call changes its own record.
LEMMA CallStep ==
    ASSUME CallsSound, NEW c \in Callers, NEW r \in CallRecord,
           RecordSound(r), switches = 0 => RecordOf(r, fork),
           call' = [call EXCEPT ![c] = r], UNCHANGED <<fork, switches>>
    PROVE  CallsSound' /\ \A d \in Callers : call'[d] = IF d = c THEN r ELSE call[d]
  <1>1. /\ call' \in [Callers -> CallRecord]
        /\ \A d \in Callers : call'[d] = IF d = c THEN r ELSE call[d]
    BY DEF CallsSound
  <1>2. \A d \in Callers : RecordSound(call'[d])
    BY <1>1 DEF CallsSound
  <1>3. switches' = 0 => \A d \in Callers : RecordOf(call'[d], fork')
    BY <1>1 DEF CallsSound
  <1> QED
    BY <1>1, <1>2, <1>3 DEF CallsSound

\* A step of one call that leaves the cache and its lock alone, and still needs
\* the duties it holds the lock for.
LEMMA LoneCallStep ==
    ASSUME ClientInv, NEW c \in Callers, NEW r \in CallRecord,
           RecordSound(r), switches = 0 => RecordOf(r, fork),
           call' = [call EXCEPT ![c] = r],
           \A part \in {"duties", "block"} : N!Needs(c, part) =>
               /\ r.pc = "parts" /\ part \in r.left /\ r.epoch = call[c].epoch
               /\ part = "block" => r.block = call[c].block,
           latestHead' \in {latestHead, headAt}, errors' \in 0 .. MaxErrors,
           UNCHANGED <<fork, headAt, switches, duties, fetch>>
    PROVE  ClientInv'
  <1>1. CallsSound' /\ \A d \in Callers : call'[d] = IF d = c THEN r ELSE call[d]
    BY CallStep DEF ClientInv
  <1>2. ClientNumbers'
    BY ClientConstants DEF ClientInv, ClientNumbers
  <1>3. CacheSound'
    BY DEF ClientInv, CacheSound
  <1>4. FetchSound'
    <2>1. CASE fetch = <<>>
      BY <2>1 DEF ClientInv, FetchSound
    <2>2. CASE fetch # <<>>
      <3> DEFINE d == fetch[1].caller
                 part == fetch[1].part
      <3>1. /\ d \in Callers /\ part \in {"duties", "block"} /\ N!Needs(d, part)
            /\ N!Cached(call[d].epoch) = {}
            /\ switches = 0 => fetch[1].proposers \in
                  {"unread", N!DutyOf(call[d].epoch, fork)}
        <4>1. fetch[1] \in FetchRecord
          BY <2>2 DEF ClientInv, FetchSound
        <4> QED
          BY <2>2, <4>1 DEF ClientInv, FetchSound, FetchRecord
      <3>2. /\ call'[d].pc = "parts" /\ part \in call'[d].left
            /\ call'[d].epoch = call[d].epoch
            /\ part = "block" => call'[d].block \in N!BranchNames \cup {"common"}
        <4>1. CASE d = c
          BY <1>1, <3>1, <4>1 DEF N!Needs
        <4>2. CASE d # c
          BY <1>1, <3>1, <4>2 DEF N!Needs
        <4> QED
          BY <4>1, <4>2
      <3>3. {i \in DOMAIN duties' : duties'[i].epoch = call'[d].epoch} = {}
        BY <3>1, <3>2 DEF N!Cached
      <3> QED
        BY <2>2, <3>1, <3>2, <3>3 DEF ClientInv, FetchSound, N!Needs, N!Cached
    <2> QED
      BY <2>1, <2>2
  <1> QED
    BY <1>1, <1>2, <1>3, <1>4 DEF ClientInv

\* The node goes on, and switches its branch.
LEMMA NodeStep ==
    ASSUME ClientInv, N!Advance \/ N!Switch
    PROVE  ClientInv'
  <1>1. CASE N!Advance
    <2>1. ClientNumbers'
      BY <1>1, ClientConstants DEF N!Advance, ClientInv, ClientNumbers
    <2>2. CacheSound' /\ CallsSound' /\ FetchSound'
      BY <1>1 DEF N!Advance, ClientInv, CacheSound, CallsSound, FetchSound, N!Needs, N!Cached
    <2> QED
      BY <2>1, <2>2 DEF ClientInv
  <1>2. CASE N!Switch
    <2>1. ClientNumbers'
      BY <1>2, ClientConstants DEF N!Switch, ClientInv, ClientNumbers
    <2>2. switches' # 0 /\ UNCHANGED <<duties, fetch, call>>
      BY <1>2, ClientConstants DEF N!Switch, ClientInv, ClientNumbers
    <2>3. CacheSound' /\ CallsSound' /\ FetchSound'
      BY <2>2 DEF ClientInv, CacheSound, CallsSound, FetchSound, N!Needs, N!Cached
    <2> QED
      BY <2>1, <2>3 DEF ClientInv
  <1> QED
    BY <1>1, <1>2

\* A call begins, or its first request fails.
LEMMA BeginStep ==
    ASSUME ClientInv, NEW c \in Callers, N!Begin(c)
    PROVE  ClientInv'
  <1>1. PICK e \in N!AskedEpochs, pc_ \in {"balances", "failed"} :
          /\ call' = [call EXCEPT ![c] = [N!NoCall EXCEPT !.pc = pc_, !.epoch = e]]
          /\ N!Answered \/ N!Error
    BY DEF N!Begin
  <1> DEFINE r == [N!NoCall EXCEPT !.pc = pc_, !.epoch = e]
  <1>2. r \in CallRecord /\ RecordSound(r) /\ \A b : RecordOf(r, b)
    BY <1>1, NoCallSound DEF CallRecord, RecordSound, RecordOf, Branches
  <1>3. errors' \in 0 .. MaxErrors
    BY <1>1, ClientConstants DEF N!Answered, N!Error, ClientInv, ClientNumbers
  <1>4. \A part \in {"duties", "block"} : ~N!Needs(c, part)
    BY DEF N!Begin, N!Needs
  <1>5. UNCHANGED <<fork, headAt, switches, duties, fetch, latestHead>>
    BY DEF N!Begin, N!nodeOf
  <1> HIDE DEF r
  <1> QED
    BY <1>1, <1>2, <1>3, <1>4, <1>5, LoneCallStep DEF r

\* The older balances are read, or stored as zero.
LEMMA BalancesStep ==
    ASSUME ClientInv, NEW c \in Callers, N!ReadBalances(c)
    PROVE  ClientInv'
  <1>1. PICK read \in {"all", "zeroed"} :
          /\ call' = [call EXCEPT ![c].balances = read, ![c].pc = "parts",
                                  ![c].left = N!Parts3]
          /\ N!Answered \/ N!Error
    BY DEF N!ReadBalances
  <1> DEFINE old == call[c]
             r == [old EXCEPT !.balances = read, !.pc = "parts", !.left = N!Parts3]
  <1>2. /\ old \in CallRecord /\ RecordSound(old)
        /\ switches = 0 => RecordOf(old, fork)
        /\ old.pc = "balances" /\ call' = [call EXCEPT ![c] = r]
    BY <1>1 DEF ClientInv, CallsSound, N!ReadBalances
  <1>3. /\ r \in CallRecord /\ RecordSound(r)
        /\ switches = 0 => RecordOf(r, fork)
    <2> HIDE DEF old
    <2> QED
      BY <1>1, <1>2 DEF CallRecord, RecordSound, RecordOf
  <1>4. errors' \in 0 .. MaxErrors
    BY <1>1, ClientConstants DEF N!Answered, N!Error, ClientInv, ClientNumbers
  <1>5. /\ \A part \in {"duties", "block"} : ~N!Needs(c, part)
        /\ UNCHANGED <<fork, headAt, switches, duties, fetch, latestHead>>
    BY DEF N!ReadBalances, N!Needs, N!nodeOf
  <1> HIDE DEF r
  <1> QED
    BY <1>2, <1>3, <1>4, <1>5, LoneCallStep

\* The block of the slot is read from the node's branch.
LEMMA BlockStep ==
    ASSUME ClientInv, NEW c \in Callers, N!ReadBlock(c)
    PROVE  ClientInv'
  <1> DEFINE old == call[c]
             ours == N!DutyOf(old.epoch, fork)
             read == [old EXCEPT !.block = ours]
             none == [old EXCEPT !.block = "none", !.left = @ \ {"block"}]
             failed == [old EXCEPT !.block = "failed", !.left = @ \ {"block"}, !.erred = TRUE]
  <1>1. /\ old \in CallRecord /\ RecordSound(old)
        /\ switches = 0 => RecordOf(old, fork)
        /\ old.pc = "parts" /\ old.block = "unread"
        /\ UNCHANGED <<fork, headAt, switches, duties, fetch, latestHead>>
    BY DEF ClientInv, CallsSound, N!ReadBlock, N!nodeOf
  <1>2. errors' \in 0 .. MaxErrors
    BY ClientConstants DEF N!ReadBlock, N!Answered, N!Error, ClientInv, ClientNumbers
  <1>3. \/ call' = [call EXCEPT ![c] = read]
        \/ old.epoch \in Holes /\ call' = [call EXCEPT ![c] = none]
        \/ call' = [call EXCEPT ![c] = failed]
    BY DEF N!ReadBlock
  <1>4. ours \in Branches
    BY DutyType DEF ClientInv, ClientNumbers
  <1>5. /\ read \in CallRecord /\ failed \in CallRecord /\ none \in CallRecord
        /\ RecordSound(read) /\ RecordSound(failed)
        /\ old.epoch \in Holes => RecordSound(none)
    <2> HIDE DEF old, ours
    <2> QED
      BY <1>1, <1>4 DEF CallRecord, RecordSound, Branches
  <1>6. /\ switches = 0 => RecordOf(read, fork)
        /\ switches = 0 => RecordOf(none, fork)
        /\ switches = 0 => RecordOf(failed, fork)
    <2>1. old.attested = <<>>
      BY <1>1 DEF RecordSound, Branches
    <2>2. /\ read.attested = <<>> /\ none.attested = <<>> /\ failed.attested = <<>>
          /\ none.block = "none" /\ failed.block = "failed" /\ read.block = ours
          /\ read.epoch = old.epoch
      <3> HIDE DEF old, ours
      <3> QED
        BY <1>1, <2>1 DEF CallRecord
    <2> QED
      BY <2>2 DEF RecordOf, Branches
  <1>7. ~N!Needs(c, "block") /\ \A r \in {read, none, failed} : N!Needs(c, "duties") =>
           r.pc = "parts" /\ "duties" \in r.left /\ r.epoch = old.epoch
    <2>1. ~N!Needs(c, "block") /\ (N!Needs(c, "duties") => "duties" \in old.left)
      BY <1>1 DEF N!Needs, N!BranchNames
    <2>2. \A r \in {read, none, failed} : /\ r.pc = old.pc /\ r.epoch = old.epoch
                                          /\ "duties" \in old.left => "duties" \in r.left
      <3> HIDE DEF old, ours
      <3> QED
        BY <1>1 DEF CallRecord
    <2> QED
      BY <1>1, <2>1, <2>2
  <1> HIDE DEF read, none, failed
  <1>8. CASE call' = [call EXCEPT ![c] = read]
    BY <1>1, <1>2, <1>5, <1>6, <1>7, <1>8, LoneCallStep
  <1>9. CASE old.epoch \in Holes /\ call' = [call EXCEPT ![c] = none]
    BY <1>1, <1>2, <1>5, <1>6, <1>7, <1>9, LoneCallStep
  <1>10. CASE call' = [call EXCEPT ![c] = failed]
    BY <1>1, <1>2, <1>5, <1>6, <1>7, <1>10, LoneCallStep
  <1> QED
    BY <1>3, <1>8, <1>9, <1>10

\* The share of the votes of an epoch: the head is asked for, and the epoch judged
\* by one that is over.
LEMMA ShareStep ==
    ASSUME ClientInv, NEW c \in Callers, N!Refresh(c) \/ N!Judge(c)
    PROVE  ClientInv'
  <1> DEFINE old == call[c]
  <1>1. /\ old \in CallRecord /\ RecordSound(old)
        /\ switches = 0 => RecordOf(old, fork)
        /\ old.pc = "parts"
        /\ UNCHANGED <<fork, headAt, switches, duties, fetch>>
    BY DEF ClientInv, CallsSound, N!Refresh, N!Judge, N!nodeOf
  <1>2. latestHead' \in {latestHead, headAt} /\ errors' \in 0 .. MaxErrors
    <2>1. latestHead' = latestHead \/ latestHead' = headAt
      BY DEF N!Refresh, N!Judge
    <2>2. N!Answered \/ N!Error
      BY DEF N!Refresh, N!Judge
    <2>3. errors' \in 0 .. MaxErrors
      BY <2>2, ClientConstants DEF N!Answered, N!Error, ClientInv, ClientNumbers
    <2> QED
      BY <2>1, <2>3
  <1> DEFINE asked == [old EXCEPT !.refreshed = TRUE]
             rated_(s) == [old EXCEPT !.left = @ \ {"share"}, !.share = s]
  <1>3. ASSUME NEW r \in CallRecord, call' = [call EXCEPT ![c] = r],
               r.share # "running",
               r.pc = old.pc, r.epoch = old.epoch, r.block = old.block, r.erred = old.erred,
               r.attested = old.attested, r.duties = old.duties,
               r.left \in {old.left, old.left \ {"share"}}
        PROVE  ClientInv'
    <2>1. RecordSound(r)
      BY <1>1, <1>3 DEF RecordSound
    <2>2. switches = 0 => RecordOf(r, fork)
      BY <1>1, <1>3 DEF RecordOf
    <2>3. \A part \in {"duties", "block"} : N!Needs(c, part) =>
               /\ r.pc = "parts" /\ part \in r.left /\ r.epoch = call[c].epoch
               /\ part = "block" => r.block = call[c].block
      BY <1>1, <1>3 DEF N!Needs
    <2> HIDE DEF old
    <2> QED
      BY <1>1, <1>2, <1>3, <2>1, <2>2, <2>3, LoneCallStep
  <1>4. \/ call' = [call EXCEPT ![c] = asked]
        \/ \E s \in {"one", "whole", "so far"} : call' = [call EXCEPT ![c] = rated_(s)]
    <2>1. CASE N!Refresh(c)
      BY <2>1 DEF N!Refresh
    <2>2. CASE N!Judge(c)
      <3>1. CASE call' = [call EXCEPT ![c].left = @ \ {"share"}, ![c].share = "one"]
        BY <3>1
      <3>2. CASE /\ old.epoch < latestHead
                 /\ call' = [call EXCEPT ![c].left = @ \ {"share"}, ![c].share =
                       IF N!RequestEpoch(old.epoch, latestHead) >= headAt THEN "running"
                       ELSE IF old.epoch < N!RequestEpoch(old.epoch, latestHead) THEN "whole"
                       ELSE "so far"]
        <4>1. old.epoch \in Int /\ latestHead \in Int /\ headAt \in Int /\ latestHead <= headAt
          <5>1. old.epoch \in N!AskedEpochs
            BY <1>1 DEF CallRecord
          <5> QED
            BY <5>1, ClientConstants DEF ClientInv, ClientNumbers
        <4>2. ~(N!RequestEpoch(old.epoch, latestHead) >= headAt)
          <5>1. old.epoch < latestHead
            BY <3>2
          <5> HIDE DEF old
          <5> QED
            BY <4>1, <5>1 DEF N!RequestEpoch
        <4> QED
          BY <3>2, <4>2
      <3> QED
        BY <2>2, <3>1, <3>2 DEF N!Judge
    <2> QED
      BY <2>1, <2>2
  <1>5. CASE call' = [call EXCEPT ![c] = asked]
    <2>1. /\ asked \in CallRecord /\ asked.share = old.share
          /\ asked.pc = old.pc /\ asked.epoch = old.epoch /\ asked.block = old.block
          /\ asked.erred = old.erred /\ asked.attested = old.attested
          /\ asked.duties = old.duties /\ asked.left = old.left
      <3> HIDE DEF old
      <3> QED
        BY <1>1 DEF CallRecord
    <2> HIDE DEF asked
    <2> QED
      BY <1>1, <1>3, <1>5, <2>1 DEF RecordSound
  <1>6. ASSUME NEW s \in {"one", "whole", "so far"}, call' = [call EXCEPT ![c] = rated_(s)]
        PROVE  ClientInv'
    <2> DEFINE r == rated_(s)
    <2>1. /\ r \in CallRecord /\ r.share = s
          /\ r.pc = old.pc /\ r.epoch = old.epoch /\ r.block = old.block
          /\ r.erred = old.erred /\ r.attested = old.attested
          /\ r.duties = old.duties /\ r.left = old.left \ {"share"}
      <3> HIDE DEF old
      <3> QED
        BY <1>1 DEF CallRecord
    <2>2. call' = [call EXCEPT ![c] = r]
      BY <1>6
    <2> HIDE DEF r
    <2> QED
      BY <1>3, <2>1, <2>2
  <1> QED
    BY <1>4, <1>5, <1>6

\* All parts are there.
LEMMA FinishStep ==
    ASSUME ClientInv, NEW c \in Callers, N!Finish(c)
    PROVE  ClientInv'
  <1> DEFINE old == call[c]
             next == IF old.duties = <<>> THEN "down" ELSE "returned"
             r == [old EXCEPT !.pc = next]
  <1>1. /\ old \in CallRecord /\ RecordSound(old)
        /\ switches = 0 => RecordOf(old, fork)
        /\ old.pc = "parts" /\ old.left = {} /\ call' = [call EXCEPT ![c] = r]
        /\ UNCHANGED <<fork, headAt, switches, duties, fetch, latestHead, errors>>
    BY DEF ClientInv, CallsSound, N!Finish, N!nodeOf
  <1>2. next \in {"down", "returned"} /\ (next = "returned" => old.duties # <<>>)
    OBVIOUS
  <1>3. /\ r \in CallRecord /\ RecordSound(r)
        /\ switches = 0 => RecordOf(r, fork)
    <2> HIDE DEF old, next
    <2>1. r \in CallRecord
      BY <1>1, <1>2 DEF CallRecord
    <2>2. /\ r.pc = next /\ r.duties = old.duties /\ r.share = old.share /\ r.block = old.block
          /\ r.epoch = old.epoch /\ r.left = old.left /\ r.attested = old.attested
          /\ r.erred = old.erred
      BY <1>1 DEF CallRecord
    <2>3. RecordSound(r)
      BY <1>1, <1>2, <2>2 DEF RecordSound
    <2>4. switches = 0 => RecordOf(r, fork)
      BY <1>1, <2>2 DEF RecordOf
    <2> QED
      BY <2>1, <2>3, <2>4
  <1>4. errors' \in 0 .. MaxErrors
    BY <1>1 DEF ClientInv, ClientNumbers
  <1>5. \A part \in {"duties", "block"} : ~N!Needs(c, part)
    BY <1>1 DEF N!Needs
  <1> HIDE DEF r
  <1> QED
    BY <1>1, <1>3, <1>4, <1>5, LoneCallStep

\* The record of a call whose part has got its duties.
LEMMA WithDutiesSound ==
    ASSUME ClientInv, NEW c \in Callers, NEW part \in {"duties", "block"}, N!Needs(c, part),
           NEW entry \in Entry,
           switches = 0 => entry.committees = N!DutyOf(call[c].epoch, fork)
    PROVE  LET r == N!WithDuties(c, part, entry)
           IN /\ r \in CallRecord /\ RecordSound(r) /\ r.epoch = call[c].epoch
              /\ switches = 0 => RecordOf(r, fork)
  <1> DEFINE old == call[c]
  <1>1. /\ old \in CallRecord /\ RecordSound(old)
        /\ switches = 0 => RecordOf(old, fork)
        /\ old.pc = "parts"
        /\ part = "block" => old.block \in Branches
        /\ switches = 0 => entry.committees = N!DutyOf(old.epoch, fork)
    BY DEF ClientInv, CallsSound, N!Needs, N!BranchNames, Branches
  <1>2. <<entry>> \in Seq(Entry) /\ <<entry>> # <<>> /\ <<entry>>[1] = entry
    OBVIOUS
  <1>3. CASE part = "duties"
    <2> DEFINE r == [old EXCEPT !.left = @ \ {part}, !.duties = <<entry>>]
    <2>1. /\ r \in CallRecord /\ RecordSound(r) /\ r.epoch = old.epoch
          /\ switches = 0 => RecordOf(r, fork)
      <3> HIDE DEF old
      <3> QED
        BY <1>1, <1>2 DEF CallRecord, RecordSound, RecordOf
    <2>2. N!WithDuties(c, part, entry) = r
      BY <1>3 DEF N!WithDuties
    <2> HIDE DEF r
    <2> QED
      BY <2>1, <2>2
  <1>4. CASE part = "block"
    <2> DEFINE r == [old EXCEPT !.left = @ \ {part}, !.attested = <<entry>>]
    <2>1. /\ r \in CallRecord /\ RecordSound(r) /\ r.epoch = old.epoch
          /\ switches = 0 => RecordOf(r, fork)
      <3> DEFINE front == <<entry>>
      <3>1. r = [old EXCEPT !.left = @ \ {"block"}, !.attested = front]
        BY <1>4
      <3>2. front \in Seq(Entry) /\ front[1] = entry
        BY <1>2
      <3>3. old.block \in Branches
        BY <1>1, <1>4
      <3> HIDE DEF old, front, r
      <3>4. /\ r \in CallRecord /\ r.epoch = old.epoch /\ r.block = old.block
            /\ r.left = old.left \ {"block"} /\ r.attested = front /\ r.pc = "parts"
            /\ r.share = old.share /\ r.duties = old.duties /\ r.erred = old.erred
        BY <1>1, <3>1, <3>2 DEF CallRecord
      <3>5. RecordSound(r)
        BY <1>1, <3>3, <3>4 DEF RecordSound
      <3>6. switches = 0 => RecordOf(r, fork)
        BY <1>1, <3>2, <3>4 DEF RecordOf
      <3> QED
        BY <3>4, <3>5, <3>6
    <2>2. N!WithDuties(c, part, entry) = r
      BY <1>4 DEF N!WithDuties
    <2> HIDE DEF r
    <2> QED
      BY <2>1, <2>2
  <1> QED
    BY <1>3, <1>4

\* The duties of an epoch that are in the cache are used from there.
LEMMA CachedStep ==
    ASSUME ClientInv, NEW c \in Callers, NEW part \in {"duties", "block"}, N!FromCache(c, part)
    PROVE  ClientInv'
  <1>1. PICK i \in N!Cached(call[c].epoch) :
          /\ duties' = N!ToFront(i)
          /\ call' = [call EXCEPT ![c] = N!WithDuties(c, part, duties[i])]
    BY DEF N!FromCache
  <1>2. /\ N!Needs(c, part) /\ fetch = <<>>
        /\ UNCHANGED <<fork, headAt, switches, fetch, latestHead, errors>>
    BY DEF N!FromCache, N!nodeOf
  <1>3. /\ i \in 1 .. Len(duties) /\ duties[i] \in Entry /\ duties[i].epoch = call[c].epoch
        /\ switches = 0 => duties[i].committees = N!DutyOf(call[c].epoch, fork)
    BY <1>1 DEF N!Cached, ClientInv, CacheSound
  <1>4. CallsSound'
    BY <1>1, <1>2, <1>3, WithDutiesSound, CallStep DEF ClientInv
  <1>5. CacheSound'
    BY <1>1, <1>2, <1>3, CacheAfterUse DEF ClientInv
  <1>6. ClientNumbers' /\ FetchSound'
    BY <1>2 DEF ClientInv, ClientNumbers, FetchSound
  <1> QED
    BY <1>4, <1>5, <1>6 DEF ClientInv

\* The lock of the cache is taken, and the proposers are read.
LEMMA LockStep ==
    ASSUME ClientInv,
           \/ \E c \in Callers, part \in {"duties", "block"} : N!LockCache(c, part)
           \/ N!ReadProposers
    PROVE  ClientInv'
  <1>1. ASSUME NEW c \in Callers, NEW part \in {"duties", "block"}, N!LockCache(c, part)
        PROVE  ClientInv'
    <2> DEFINE held == [caller |-> c, part |-> part, proposers |-> "unread"]
    <2>1. /\ fetch' = <<held>> /\ N!Needs(c, part) /\ N!Cached(call[c].epoch) = {}
          /\ UNCHANGED <<fork, headAt, switches, duties, latestHead, call, errors>>
      BY <1>1 DEF N!LockCache, N!nodeOf
    <2>2. <<held>> \in Seq(FetchRecord) /\ Len(<<held>>) = 1 /\ <<held>>[1] = held
      <3>1. held \in FetchRecord
        BY DEF FetchRecord
      <3> HIDE DEF held
      <3> QED
        BY <3>1
    <2>3. held.caller = c /\ held.part = part /\ held.proposers = "unread"
      OBVIOUS
    <2> HIDE DEF held
    <2>4. FetchSound'
      BY <2>1, <2>2, <2>3 DEF FetchSound, N!Needs, N!Cached
    <2> QED
      BY <2>1, <2>4 DEF ClientInv, ClientNumbers, CacheSound, CallsSound
  <1>2. CASE N!ReadProposers
    <2> DEFINE c == fetch[1].caller
               ours == N!DutyOf(call[c].epoch, fork)
    <2>1. /\ fetch # <<>> /\ fetch' = [fetch EXCEPT ![1].proposers = ours]
          /\ UNCHANGED <<fork, headAt, switches, duties, latestHead, call, errors>>
      BY <1>2 DEF N!ReadProposers, N!nodeOf
    <2>2. fetch \in Seq(FetchRecord) /\ Len(fetch) = 1 /\ fetch[1] \in FetchRecord
      <3>1. fetch \in Seq(FetchRecord) /\ Len(fetch) <= 1 /\ fetch # <<>>
        BY <2>1 DEF ClientInv, FetchSound
      <3>2. Len(fetch) \in Nat /\ Len(fetch) # 0
        BY <3>1
      <3> DEFINE n == Len(fetch)
      <3>3. n = 1
        <4>1. n \in Nat /\ n # 0 /\ n <= 1
          BY <3>1, <3>2
        <4> HIDE DEF n
        <4> QED
          BY <4>1
      <3> QED
        BY <3>1, <3>3
    <2>3. ours \in Branches
      BY DutyType DEF ClientInv, ClientNumbers
    <2>4. /\ fetch' \in Seq(FetchRecord) /\ Len(fetch') = 1 /\ fetch' # <<>>
          /\ fetch'[1].caller = c /\ fetch'[1].part = fetch[1].part
          /\ fetch'[1].proposers = ours
      <3> DEFINE held == [fetch[1] EXCEPT !.proposers = ours]
      <3>1. /\ held \in FetchRecord /\ held.caller = fetch[1].caller
            /\ held.part = fetch[1].part /\ held.proposers = ours
        <4> HIDE DEF ours
        <4> QED
          BY <2>2, <2>3 DEF FetchRecord
      <3>2. fetch' = [fetch EXCEPT ![1] = held]
        BY <2>1
      <3> HIDE DEF held, ours
      <3>3. fetch' \in Seq(FetchRecord) /\ Len(fetch') = 1 /\ fetch'[1] = held
        BY <2>2, <3>1, <3>2
      <3>4. fetch' # <<>>
        BY <3>3
      <3> QED
        BY <3>1, <3>3, <3>4
    <2>5. FetchSound'
      BY <2>1, <2>4 DEF ClientInv, FetchSound, N!Needs, N!Cached
    <2> QED
      BY <2>1, <2>5 DEF ClientInv, ClientNumbers, CacheSound, CallsSound
  <1> QED
    BY <1>1, <1>2

\* The committees are read at the state the proposers depend on: an entry of one
\* branch, which was not there, since the lock was held.
LEMMA CommitteesStep ==
    ASSUME ClientInv, N!ReadCommittees
    PROVE  ClientInv'
  <1> DEFINE c == fetch[1].caller
             part == fetch[1].part
             proposers == fetch[1].proposers
             entry == [epoch |-> call[c].epoch, proposers |-> proposers,
                       committees |-> N!DependentState(proposers, call[c].epoch)]
  <1>1. /\ fetch # <<>> /\ proposers # "unread"
        /\ duties' = N!Add(entry)
        /\ call' = [call EXCEPT ![c] = N!WithDuties(c, part, entry)]
        /\ fetch' = <<>>
        /\ UNCHANGED <<fork, headAt, switches, latestHead, errors>>
    BY DEF N!ReadCommittees, N!nodeOf
  <1>2. /\ c \in Callers /\ part \in {"duties", "block"} /\ proposers \in Branches
        /\ N!Needs(c, part) /\ N!Cached(call[c].epoch) = {}
        /\ switches = 0 => proposers = N!DutyOf(call[c].epoch, fork)
    <2>1. fetch[1] \in FetchRecord
      BY <1>1 DEF ClientInv, FetchSound
    <2> QED
      BY <1>1, <2>1 DEF ClientInv, FetchSound, FetchRecord
  <1>3. call[c].epoch \in N!AskedEpochs
    BY <1>2 DEF ClientInv, CallsSound, CallRecord
  <1>4. /\ entry \in Entry /\ entry.epoch = call[c].epoch
        /\ entry.proposers = proposers /\ entry.committees = proposers
    BY <1>2, <1>3 DEF Entry, N!DependentState
  <1> HIDE DEF entry, c, part, proposers
  <1>5. CallsSound'
    BY <1>1, <1>2, <1>4, WithDutiesSound, CallStep DEF ClientInv
  <1>6. CacheSound'
    BY <1>1, <1>2, <1>4, CacheAfterFetch DEF ClientInv
  <1>7. ClientNumbers' /\ FetchSound'
    BY <1>1 DEF ClientInv, ClientNumbers, FetchSound
  <1> QED
    BY <1>5, <1>6, <1>7 DEF ClientInv

\* Duties that cannot be read: the lock is given back all the same.
LEMMA DutiesFailStep ==
    ASSUME ClientInv, N!DutiesFail
    PROVE  ClientInv'
  <1> DEFINE c == fetch[1].caller
             part == fetch[1].part
             old == call[c]
             r == N!WithoutDuties(c, part)
  <1>1. /\ fetch # <<>> /\ fetch' = <<>> /\ N!Error
        /\ call' = [call EXCEPT ![c] = r]
        /\ UNCHANGED <<fork, headAt, switches, duties, latestHead>>
    BY DEF N!DutiesFail, N!nodeOf
  <1>2. c \in Callers /\ part \in {"duties", "block"} /\ N!Needs(c, part)
    <2>1. fetch[1] \in FetchRecord
      BY <1>1 DEF ClientInv, FetchSound
    <2> QED
      BY <1>1, <2>1 DEF ClientInv, FetchSound, FetchRecord
  <1>3. /\ old \in CallRecord /\ RecordSound(old)
        /\ switches = 0 => RecordOf(old, fork)
        /\ old.pc = "parts" /\ part \in old.left
    BY <1>2 DEF ClientInv, CallsSound, N!Needs
  <1>4. /\ r \in CallRecord /\ RecordSound(r)
        /\ switches = 0 => RecordOf(r, fork)
    <2> DEFINE d == [old EXCEPT !.left = @ \ {part}, !.erred = TRUE]
               b == [old EXCEPT !.left = @ \ {part}, !.block = "failed", !.erred = TRUE]
    <2>1. r = IF part = "duties" THEN d ELSE b
      BY DEF N!WithoutDuties
    <2>2. /\ d \in CallRecord /\ RecordSound(d)
          /\ switches = 0 => RecordOf(d, fork)
      <3> HIDE DEF old, part
      <3> QED
        BY <1>3 DEF CallRecord, RecordSound, RecordOf
    <2>3. part = "block" => /\ b \in CallRecord /\ RecordSound(b)
                            /\ switches = 0 => RecordOf(b, fork)
      <3> HIDE DEF old, part
      <3> QED
        BY <1>3 DEF CallRecord, RecordSound, RecordOf, Branches
    <2> HIDE DEF d, b, r, part
    <2> QED
      BY <1>2, <2>1, <2>2, <2>3
  <1> HIDE DEF r
  <1>5. CallsSound'
    BY <1>1, <1>2, <1>4, CallStep DEF ClientInv
  <1>6. CacheSound' /\ FetchSound'
    BY <1>1 DEF ClientInv, CacheSound, FetchSound
  <1>7. ClientNumbers'
    BY <1>1, ClientConstants DEF N!Error, ClientInv, ClientNumbers
  <1> QED
    BY <1>5, <1>6, <1>7 DEF ClientInv

\* ClientInv is inductive.
LEMMA ClientStep ==
    ASSUME ClientInv, N!Next \/ UNCHANGED ofClient
    PROVE  ClientInv'
  <1>1. CASE N!Advance \/ N!Switch
    BY <1>1, NodeStep
  <1>2. CASE N!FetchStep
    BY <1>2, LockStep, CommitteesStep, DutiesFailStep DEF N!FetchStep
  <1>3. ASSUME NEW c \in Callers, N!CallerStep(c) PROVE ClientInv'
    BY <1>3, BalancesStep, BlockStep, ShareStep, FinishStep, CachedStep, LockStep
       DEF N!CallerStep
  <1>4. ASSUME NEW c \in Callers, N!Begin(c) PROVE ClientInv'
    BY <1>4, BeginStep
  <1>5. CASE UNCHANGED ofClient
    BY <1>5 DEF ofClient, ClientInv, ClientNumbers, CacheSound, FetchSound, CallsSound,
                N!Needs, N!Cached
  <1> QED
    BY <1>1, <1>2, <1>3, <1>4, <1>5 DEF N!Next

\* ClientInv holds throughout.
LEMMA ClientAlways == Spec => []ClientInv
  <1>1. Init => ClientInv
    BY ClientInit DEF Init
  <1>2. ClientInv /\ [Next]_vars => ClientInv'
    BY ComponentSteps, ClientStep
  <1> QED
    BY <1>1, <1>2, PTL DEF Spec

\* What the invariant says of the data of an epoch.
LEMMA ClientDataIsSound == ClientInv => N!TypeOK /\ N!DutiesAreOfOneBranch /\ N!EpochDataIsSound
  <1> SUFFICES ASSUME ClientInv
               PROVE  N!TypeOK /\ N!DutiesAreOfOneBranch /\ N!EpochDataIsSound
    OBVIOUS
  <1>1. N!TypeOK
    <2>1. latestHead \in 0 .. EpochsAsked
      BY ClientConstants DEF ClientInv, ClientNumbers
    <2>2. \A c \in Callers : call[c] \in CallRecord
      BY DEF ClientInv, CallsSound
    <2> QED
      BY <2>1, <2>2 DEF ClientInv, ClientNumbers, CacheSound, FetchSound, CallRecord, N!TypeOK
  <1>2. N!DutiesAreOfOneBranch
    BY DEF ClientInv, CacheSound, N!DutiesAreOfOneBranch
  <1>3. N!EpochDataIsSound
    BY DEF ClientInv, CallsSound, RecordSound, RecordOf, N!EpochDataIsSound
  <1> QED
    BY <1>1, <1>2, <1>3

-----------------------------------------------------------------------------
(* The repairs before the loop *)

\* The repairs that are over when Start is at a step.
After(phase) == {"loop"} \cup
    CASE phase = "full" -> {"canon", "missing", "check", "statistics"}
      [] phase = "check" -> {"statistics"}
      [] OTHER -> {}

\* An epoch still has its repair before it, in the repair itself.
Waits(phase, e) == stepOf = phase /\ e \in agenda

(***************************************************************************)
(* What a repair is for holds of every epoch that it has done, that no     *)
(* save is under way for, and whose export did not fail.                   *)
(***************************************************************************)
GapsFilled ==
    knownThen # {} => \A e \in 0 .. U!Max(knownThen) :
        e \in epochRows \cup U!Unsaved \/ Waits("missing", e)
BlocksChecked ==
    stepOf \in {"check"} \cup After("check") /\ "check" \in config =>
        \A e \in U!Compared \cap chainOf :
            "block" \in rowsOf[e] \/ e \in U!Unsaved \/ Waits("check", e)
AllExported ==
    stepOf \in {"full"} \cup After("full") /\ "full" \in config =>
        \A e \in U!Compared : e \in epochRows \cup U!Unsaved \/ Waits("full", e)
AllRated ==
    stepOf \in {"statistics", "loop"} /\ "statistics" \in config =>
        \A e \in epochRows \ {HeadOfNode} :
            e \in rated \cup U!Unsaved \/ Waits("statistics", e)

StartInv ==
    /\ U!TypeOK /\ knownThen \subseteq U!AllEpochs
    /\ stepOf # "down" => GapsFilled /\ BlocksChecked /\ AllExported /\ AllRated

\* The constants of the start are numbers.
LEMMA StartConstants ==
    HeadOfNode \in Nat \ {0} /\ MaxLapses \in Nat /\ U!AllEpochs = 0 .. HeadOfNode
  BY ExportsAssumption DEF U!StartupAssumption, U!AllEpochs

\* The steps of Start, by name.
LEMMA PhasesAre ==
    /\ DOMAIN U!Phases = 1 .. 7
    /\ U!Phases[1] = "wait" /\ U!Phases[2] = "full" /\ U!Phases[3] = "canon"
    /\ U!Phases[4] = "missing" /\ U!Phases[5] = "check" /\ U!Phases[6] = "statistics"
    /\ U!Phases[7] = "loop"
    /\ {U!Phases[i] : i \in DOMAIN U!Phases} = U!Repairs \cup {"wait", "loop"}
  BY DEF U!Phases, U!Repairs

\* The step after a step: no repair that is switched on is left out.
LEMMA NextPhaseIs ==
    ASSUME U!TypeOK, NEW phase \in U!Repairs \cup {"wait"}
    PROVE  LET q == U!NextPhase(phase)
           IN /\ q \in U!Repairs \cup {"loop"}
              /\ q = "missing" => phase \in {"wait", "full", "canon"}
              /\ q \in After("check") /\ "check" \in config => phase \in {"check", "statistics"}
              /\ q \in After("full") /\ "full" \in config => phase # "wait"
              /\ q = "full" => phase = "wait"
              /\ q = "check" => phase \in {"wait", "full", "canon", "missing"}
              /\ q = "loop" /\ "statistics" \in config => phase = "statistics"
              /\ q = "statistics" => phase # "statistics"
  <1> DEFINE Rank(p) == CHOOSE i \in DOMAIN U!Phases : U!Phases[i] = p
             at == Rank(phase)
             later == {i \in DOMAIN U!Phases :
                         i > at /\ (U!Phases[i] \in config \/ U!Phases[i] = "loop")}
             m == U!Min(later)
  <1>1. at \in 1 .. 6 /\ U!Phases[at] = phase
    <2>1. \E i \in DOMAIN U!Phases : U!Phases[i] = phase
      BY PhasesAre DEF U!Repairs
    <2>2. at \in DOMAIN U!Phases /\ U!Phases[at] = phase
      BY <2>1
    <2> HIDE DEF at
    <2>3. at # 7
      BY <2>2, PhasesAre DEF U!Repairs
    <2> QED
      BY <2>2, <2>3, PhasesAre
  <1> HIDE DEF at
  <1>2. later \subseteq 0 .. 7 /\ 7 \in later
    BY <1>1, PhasesAre
  <1>3. m \in later /\ \A i \in later : m <= i
    <2>1. Min(later) \in later /\ \A i \in later : Min(later) <= i
      <3> HIDE DEF later
      <3> QED
        BY <1>2, MinOfInterval
    <2>2. U!Min(later) = Min(later)
      BY Zenon DEF U!Min, Min
    <2> QED
      BY <2>1, <2>2
  <1>4. U!NextPhase(phase) = U!Phases[m]
    BY DEF U!NextPhase, at
  <1> HIDE DEF m
  <1>5. /\ m \in 2 .. 7 /\ m > at
        /\ U!Phases[m] \in config \cup {"loop"}
        /\ \A i \in 2 .. 6 : i > at /\ U!Phases[i] \in config => m <= i
    BY <1>1, <1>3, PhasesAre
  <1>6. config \subseteq U!Repairs
    BY DEF U!TypeOK
  <1>7. \/ m = 2 \/ m = 3 \/ m = 4 \/ m = 5 \/ m = 6 \/ m = 7
    BY <1>5
  <1>8. \/ at = 1 \/ at = 2 \/ at = 3 \/ at = 4 \/ at = 5 \/ at = 6
    BY <1>1
  <1>9. /\ "full" \in config /\ at < 2 => m <= 2
        /\ "check" \in config /\ at < 5 => m <= 5
        /\ "statistics" \in config /\ at < 6 => m <= 6
    BY <1>5, <1>8, PhasesAre
  <1> DEFINE q == U!Phases[m]
  <1>10. /\ q \in U!Repairs \cup {"loop"}
         /\ q = "missing" => phase \in {"wait", "full", "canon"}
         /\ q \in After("check") /\ "check" \in config => phase \in {"check", "statistics"}
         /\ q \in After("full") /\ "full" \in config => phase # "wait"
         /\ q = "full" => phase = "wait"
         /\ q = "check" => phase \in {"wait", "full", "canon", "missing"}
         /\ q = "loop" /\ "statistics" \in config => phase = "statistics"
         /\ q = "statistics" => phase # "statistics"
    BY <1>1, <1>5, <1>7, <1>8, <1>9, PhasesAre DEF After, U!Repairs
  <1> QED
    BY <1>4, <1>10

\* The start of a run with repairs, and that of a run about other components.
LEMMA StartInit == U!Init \/ U!Idle => StartInv
  <1> SUFFICES ASSUME U!Init \/ U!Idle PROVE StartInv
    OBVIOUS
  <1>1. U!Rest
    BY DEF U!Init, U!Idle
  <1>2. /\ chainOf \subseteq U!AllEpochs /\ epochRows \subseteq U!AllEpochs
        /\ rowsOf \in [U!AllEpochs -> SUBSET U!RootKinds] /\ config \subseteq U!Repairs
    <2>1. CASE U!Idle
      BY <2>1 DEF U!Idle
    <2>2. CASE U!Init
      <3>1. \A n, s : s \in U!kSubset(n, U!Repairs) => s \subseteq U!Repairs
        BY DEF U!kSubset
      <3>2. config \subseteq U!Repairs
        BY <2>2, <3>1 DEF U!Init
      <3>3. rowsOf \in [U!AllEpochs -> {{}, {"block"}, {"scheduled"}, {"missed"}}]
        BY <2>2 DEF U!Init
      <3>4. {{}, {"block"}, {"scheduled"}, {"missed"}} \subseteq SUBSET U!RootKinds
        BY DEF U!RootKinds
      <3> QED
        BY <2>2, <3>2, <3>3, <3>4 DEF U!Init
    <2> QED
      BY <2>1, <2>2
  <1>3. U!TypeOK /\ knownThen \subseteq U!AllEpochs
    BY <1>1, <1>2, PhasesAre, StartConstants DEF U!Rest, U!TypeOK
  <1>4. GapsFilled /\ BlocksChecked /\ AllExported /\ AllRated
    BY <1>1 DEF U!Rest, GapsFilled, BlocksChecked, AllExported, AllRated, After
  <1> QED
    BY <1>3, <1>4 DEF StartInv

\* A gap of the table, with both its ends, is part of the plan.
LEMMA GapsArePlanned ==
    ASSUME NEW known \in SUBSET U!AllEpochs, known # {}
    PROVE  /\ U!MissingIn(known) \subseteq U!AllEpochs
           /\ \A x \in 0 .. U!Max(known) : x \in known \cup U!MissingIn(known)
  <1> DEFINE first == IF known # {} /\ 0 \notin known THEN {0} ELSE {}
             all == known \cup first
             Gap(e, f) == e + 1 < f /\ (e + 1 .. f - 1) \cap all = {}
             plan == UNION {p[1] .. p[2] : p \in {q \in all \X all : Gap(q[1], q[2])}}
  <1>1. U!MissingIn(known) = first \cup plan
    BY DEF U!MissingIn
  <1>2. all \subseteq 0 .. HeadOfNode /\ 0 \in all /\ HeadOfNode \in Nat
        /\ known \subseteq all /\ first \subseteq all
    BY StartConstants
  <1>3. U!Max(known) \in known
    <2>1. Max(known) \in known
      BY <1>2, StartConstants, MaxOfInterval
    <2>2. U!Max(known) = Max(known)
      BY Zenon DEF U!Max, Max
    <2> QED
      BY <2>1, <2>2
  <1>4. plan \subseteq U!AllEpochs
    <2> SUFFICES ASSUME NEW e \in all, NEW f \in all, NEW x \in e .. f
                 PROVE  x \in U!AllEpochs
      OBVIOUS
    <2> HIDE DEF all
    <2> QED
      BY <1>2, StartConstants
  <1>5. ASSUME NEW x \in 0 .. U!Max(known), x \notin known, x \notin first
        PROVE  x \in plan
    <2> DEFINE below == {y \in all : y < x}
               above == {y \in all : y > x}
               e == Max(below)
               f == Min(above)
    <2>1. x \notin all /\ x \in Nat /\ x # 0
      BY <1>2, <1>3, <1>5, StartConstants
    <2>2. 0 \in below /\ U!Max(known) \in above
      <3>1. 0 < x
        BY <2>1
      <3>2. U!Max(known) # x /\ U!Max(known) \in Int /\ x <= U!Max(known)
        <4> DEFINE top == U!Max(known)
        <4>0. top \in known /\ x \in 0 .. top /\ x \notin known
          BY <1>3, <1>5
        <4> HIDE DEF top
        <4>1. top \in known /\ top \in Int /\ x \in 0 .. top /\ x \notin known
          BY <1>2, <4>0
        <4>2. top # x /\ x <= top
          BY <4>1
        <4> QED
          BY <4>1, <4>2 DEF top
      <3> HIDE DEF all
      <3> QED
        BY <1>2, <1>3, <2>1, <3>1, <3>2
    <2>3. e \in below /\ \A y \in below : e >= y
      <3>1. below \subseteq 0 .. HeadOfNode /\ below # {}
        BY <1>2, <2>2
      <3> HIDE DEF below
      <3> QED
        BY <1>2, <3>1, MaxOfInterval
    <2>4. f \in above /\ \A y \in above : f <= y
      <3>1. above \subseteq 0 .. HeadOfNode /\ above # {}
        BY <1>2, <2>2
      <3> HIDE DEF above
      <3> QED
        BY <1>2, <3>1, MinOfInterval
    <2> HIDE DEF e, f
    <2>5. e \in all /\ f \in all /\ e < x /\ x < f
      BY <2>3, <2>4
    <2>6. e \in Nat /\ f \in Nat
      BY <1>2, <2>5
    <2>7. (e + 1 .. f - 1) \cap all = {}
      <3> SUFFICES ASSUME NEW y \in e + 1 .. f - 1, y \in all PROVE FALSE
        OBVIOUS
      <3>1. y \in Int /\ e < y /\ y < f
        BY <2>6
      <3>2. ~(y < x) /\ ~(y > x)
        BY <2>3, <2>4, <2>6, <3>1
      <3>3. y = x
        BY <2>1, <3>1, <3>2
      <3> QED
        BY <2>1, <3>3
    <2>8. Gap(e, f)
      BY <2>1, <2>5, <2>6, <2>7
    <2>9. x \in e .. f
      BY <2>1, <2>5, <2>6
    <2> HIDE DEF Gap, all
    <2>10. <<e, f>> \in {q \in all \X all : Gap(q[1], q[2])}
      BY <2>5, <2>8
    <2> QED
      BY <2>9, <2>10
  <1> HIDE DEF plan, first
  <1>6. first \subseteq U!AllEpochs
    BY StartConstants DEF first
  <1> QED
    BY <1>1, <1>4, <1>5, <1>6

\* The least epoch of the agenda.
LEMMA FirstOfAgenda ==
    ASSUME U!TypeOK, agenda # {}
    PROVE  U!Min(agenda) \in agenda /\ U!Min(agenda) \in U!AllEpochs
  <1>1. agenda \subseteq 0 .. HeadOfNode /\ HeadOfNode \in Nat
    BY StartConstants DEF U!TypeOK
  <1>2. Min(agenda) \in agenda
    BY <1>1, MinOfInterval
  <1>3. U!Min(agenda) = Min(agenda)
    BY Zenon DEF U!Min, Min
  <1> QED
    BY <1>1, <1>2, <1>3, StartConstants

\* Start goes to its next repair, with the plan of it.
LEMMA EnterStep ==
    ASSUME StartInv, stepOf \in U!Repairs \cup {"wait"}, stepOf # "wait" => agenda = {},
           U!Enter(U!NextPhase(stepOf)),
           UNCHANGED <<config, chainOf, rowsOf, epochRows, rated, saving, lapses, lapsed>>
    PROVE  StartInv'
  <1> DEFINE q == U!NextPhase(stepOf)
  <1>1. /\ q \in U!Repairs \cup {"loop"}
        /\ q = "missing" => stepOf \in {"wait", "full", "canon"}
        /\ q \in After("check") /\ "check" \in config => stepOf \in {"check", "statistics"}
        /\ q \in After("full") /\ "full" \in config => stepOf # "wait"
        /\ q = "full" => stepOf = "wait"
        /\ q = "check" => stepOf \in {"wait", "full", "canon", "missing"}
        /\ q = "loop" /\ "statistics" \in config => stepOf = "statistics"
        /\ q = "statistics" => stepOf # "statistics"
    BY NextPhaseIs DEF StartInv
  <1>2. /\ stepOf' = q /\ agenda' = U!Planned(q)
        /\ knownThen' = IF q = "missing" THEN epochRows ELSE knownThen
    BY DEF U!Enter
  <1> HIDE DEF q
  <1>3. /\ U!TypeOK /\ GapsFilled /\ BlocksChecked /\ AllExported /\ AllRated
        /\ knownThen \subseteq U!AllEpochs
    BY DEF StartInv, U!Repairs
  <1>4. epochRows \in SUBSET U!AllEpochs
    BY <1>3 DEF U!TypeOK
  <1>5. agenda' \subseteq U!AllEpochs
    <2>1. U!Compared \subseteq U!AllEpochs
      BY StartConstants DEF U!Compared
    <2>2. CASE q = "missing"
      <3>1. U!MissingIn(epochRows) \subseteq U!AllEpochs
        <4>1. CASE epochRows = {}
          BY <4>1 DEF U!MissingIn
        <4>2. CASE epochRows # {}
          BY <1>4, <4>2, GapsArePlanned
        <4> QED
          BY <4>1, <4>2
      <3> QED
        BY <1>2, <2>2, <3>1 DEF U!Planned
    <2>3. CASE q # "missing"
      BY <1>1, <1>2, <2>1, <2>3 DEF U!Planned, U!Differing, U!Repairs
    <2> QED
      BY <2>2, <2>3
  <1>6. U!TypeOK' /\ knownThen' \subseteq U!AllEpochs
    BY <1>1, <1>2, <1>3, <1>4, <1>5, PhasesAre DEF U!TypeOK
  <1>7. GapsFilled'
    <2>1. CASE q = "missing"
      BY <1>2, <1>4, <2>1, GapsArePlanned DEF GapsFilled, U!Planned, Waits
    <2>2. CASE q # "missing"
      BY <1>2, <1>3, <2>2 DEF GapsFilled, Waits, U!Unsaved
    <2> QED
      BY <2>1, <2>2
  <1>8. BlocksChecked'
    <2>1. CASE q = "check"
      <3>1. agenda' = {e \in U!Compared : (e \in chainOf) # ("block" \in rowsOf[e])}
        BY <1>2, <2>1 DEF U!Planned, U!Differing
      <3>2. \A e \in U!Compared \cap chainOf : "block" \in rowsOf[e] \/ e \in agenda'
        BY <3>1
      <3> QED
        BY <1>2, <2>1, <3>2 DEF BlocksChecked, Waits
    <2>2. CASE q # "check" /\ q \in After("check") /\ "check" \in config
      <3>1. stepOf \in {"check"} \cup After("check")
        BY <1>1, <2>2 DEF After
      <3>2. \A e \in U!Compared \cap chainOf : "block" \in rowsOf[e] \/ e \in U!Unsaved
        BY <1>3, <2>2, <3>1 DEF BlocksChecked, Waits
      <3> QED
        BY <3>2 DEF BlocksChecked, U!Unsaved
    <2>3. CASE ~(q \in {"check"} \cup After("check") /\ "check" \in config)
      BY <1>2, <2>3 DEF BlocksChecked
    <2> QED
      BY <2>1, <2>2, <2>3
  <1>9. AllExported'
    <2>1. CASE q = "full"
      BY <1>2, <2>1 DEF AllExported, U!Planned, Waits
    <2>2. CASE q # "full" /\ q \in After("full") /\ "full" \in config
      <3>1. stepOf \in {"full"} \cup After("full")
        BY <1>1, <2>2 DEF After, U!Repairs
      <3>2. \A e \in U!Compared : e \in epochRows \cup U!Unsaved
        BY <1>3, <2>2, <3>1 DEF AllExported, Waits
      <3> QED
        BY <3>2 DEF AllExported, U!Unsaved
    <2>3. CASE ~(q \in {"full"} \cup After("full") /\ "full" \in config)
      BY <1>2, <2>3 DEF AllExported
    <2> QED
      BY <2>1, <2>2, <2>3
  <1>10. AllRated'
    <2>1. CASE q = "statistics"
      BY <1>2, <1>4, <2>1 DEF AllRated, U!Planned, Waits
    <2>2. CASE q = "loop" /\ "statistics" \in config
      <3>1. stepOf = "statistics"
        BY <1>1, <2>2
      <3>2. \A e \in epochRows \ {HeadOfNode} : e \in rated \cup U!Unsaved
        BY <1>3, <2>2, <3>1 DEF AllRated, Waits
      <3> QED
        BY <3>2 DEF AllRated, U!Unsaved
    <2>3. CASE ~(q \in {"statistics", "loop"} /\ "statistics" \in config)
      BY <1>2, <2>3 DEF AllRated
    <2> QED
      BY <2>1, <2>2, <2>3
  <1> QED
    BY <1>6, <1>7, <1>8, <1>9, <1>10 DEF StartInv

\* ExportEpoch: the epoch leaves the agenda for its save, or has failed.
LEMMA ExportNextStep ==
    ASSUME StartInv, U!ExportNext
    PROVE  StartInv'
  <1> DEFINE m == U!Min(agenda)
  <1>1. /\ m \in agenda /\ m \in U!AllEpochs
    BY FirstOfAgenda DEF StartInv, U!ExportNext
  <1> HIDE DEF m
  <1>2. /\ agenda' = agenda \ {m}
        /\ saving' \cup lapsed' = saving \cup lapsed \cup {m}
        /\ lapses' \in 0 .. MaxLapses
        /\ UNCHANGED <<config, chainOf, knownThen, rowsOf, epochRows, rated, stepOf>>
    <2>1. lapses \in 0 .. MaxLapses
      BY DEF StartInv, U!TypeOK
    <2> QED
      BY <2>1, StartConstants DEF U!ExportNext, U!Lapse, U!NoLapse, U!startTables, m
  <1>3. U!TypeOK'
    BY <1>1, <1>2 DEF StartInv, U!TypeOK
  <1>4. U!Unsaved' = U!Unsaved \cup {m}
    BY <1>2 DEF U!Unsaved
  <1>5. \A e : Waits("missing", e) => Waits("missing", e)' \/ e \in U!Unsaved'
    BY <1>2, <1>4 DEF Waits
  <1>6. \A e : Waits("check", e) => Waits("check", e)' \/ e \in U!Unsaved'
    BY <1>2, <1>4 DEF Waits
  <1>7. \A e : Waits("full", e) => Waits("full", e)' \/ e \in U!Unsaved'
    BY <1>2, <1>4 DEF Waits
  <1>8. stepOf # "down" /\ stepOf # "statistics"
    BY DEF U!ExportNext, U!Exporting
  <1>9. GapsFilled'
    BY <1>2, <1>4, <1>5, <1>8 DEF StartInv, GapsFilled
  <1>10. BlocksChecked'
    BY <1>2, <1>4, <1>6, <1>8 DEF StartInv, BlocksChecked
  <1>11. AllExported'
    BY <1>2, <1>4, <1>7, <1>8 DEF StartInv, AllExported
  <1>12. AllRated'
    BY <1>2, <1>4, <1>8 DEF StartInv, AllRated, U!ExportNext, U!Exporting
  <1> QED
    BY <1>2, <1>3, <1>9, <1>10, <1>11, <1>12 DEF StartInv

\* updateEpochStatus rates an epoch that has a row, or fails.
LEMMA RateStep ==
    ASSUME StartInv, U!Rate
    PROVE  StartInv'
  <1> DEFINE m == U!Min(agenda)
  <1>1. /\ m \in agenda /\ m \in U!AllEpochs
    BY FirstOfAgenda DEF StartInv, U!Rate
  <1> HIDE DEF m
  <1>2. /\ agenda' = agenda \ {m} /\ stepOf = "statistics"
        /\ lapses' \in 0 .. MaxLapses
        /\ UNCHANGED <<config, chainOf, knownThen, rowsOf, epochRows, stepOf, saving>>
        /\ \/ lapsed' = lapsed /\ rated' = rated \cup (({m} \cap epochRows) \ {HeadOfNode})
           \/ lapsed' = lapsed \cup {m} /\ rated' = rated
    <2>1. lapses \in 0 .. MaxLapses
      BY DEF StartInv, U!TypeOK
    <2> QED
      BY <2>1, StartConstants DEF U!Rate, U!Lapse, U!NoLapse, m
  <1>3. U!TypeOK'
    BY <1>1, <1>2 DEF StartInv, U!TypeOK
  <1>4. U!Unsaved \subseteq U!Unsaved' /\ rated \subseteq rated'
    BY <1>2 DEF U!Unsaved
  <1>5. GapsFilled' /\ BlocksChecked' /\ AllExported'
    <2>1. GapsFilled /\ BlocksChecked /\ AllExported
      BY <1>2 DEF StartInv
    <2>2. GapsFilled'
      BY <1>2, <1>4, <2>1 DEF GapsFilled, Waits
    <2>3. BlocksChecked'
      BY <1>2, <1>4, <2>1 DEF BlocksChecked, Waits
    <2>4. AllExported'
      BY <1>2, <1>4, <2>1 DEF AllExported, Waits
    <2> QED
      BY <2>2, <2>3, <2>4
  <1>6. AllRated'
    <2> SUFFICES ASSUME "statistics" \in config, NEW e \in epochRows \ {HeadOfNode}
                 PROVE  e \in rated' \cup U!Unsaved' \/ (stepOf' = "statistics" /\ e \in agenda')
      BY <1>2 DEF AllRated, Waits
    <2>1. e \in rated \cup U!Unsaved \/ e \in agenda
      BY <1>2 DEF StartInv, AllRated, Waits
    <2>2. CASE e = m
      BY <1>2, <2>2 DEF U!Unsaved
    <2> QED
      BY <1>2, <1>4, <2>1, <2>2
  <1> QED
    BY <1>2, <1>3, <1>5, <1>6 DEF StartInv

\* A save that is under way ends, whatever Start does meanwhile.
LEMMA SaveExportedStep ==
    ASSUME StartInv, U!SaveExported
    PROVE  StartInv'
  <1>1. PICK e \in saving :
          /\ saving' = saving \ {e}
          /\ \/ /\ rowsOf' = [rowsOf EXCEPT ![e] =
                     (@ \cap {"block"}) \cup {IF e \in chainOf THEN "block" ELSE "missed"}]
                /\ epochRows' = epochRows \cup {e}
                /\ rated' = IF e = HeadOfNode THEN rated ELSE rated \cup {e}
                /\ U!NoLapse
             \/ U!Lapse({e}) /\ UNCHANGED U!startTables
          /\ UNCHANGED <<config, chainOf, knownThen, stepOf, agenda>>
    BY DEF U!SaveExported
  <1>2. e \in U!AllEpochs /\ rowsOf \in [U!AllEpochs -> SUBSET U!RootKinds]
    BY DEF StartInv, U!TypeOK
  <1>3. lapses' \in 0 .. MaxLapses /\ lapsed' \in {lapsed, lapsed \cup {e}}
    BY <1>1, StartConstants DEF StartInv, U!TypeOK, U!NoLapse, U!Lapse
  <1>4. /\ rowsOf' \in [U!AllEpochs -> SUBSET U!RootKinds]
        /\ \A x \in U!AllEpochs : "block" \in rowsOf[x] => "block" \in rowsOf'[x]
    BY <1>1, <1>2 DEF U!RootKinds, U!startTables
  <1>5. U!TypeOK'
    BY <1>1, <1>2, <1>3, <1>4 DEF StartInv, U!TypeOK, U!startTables
  <1>6. epochRows \subseteq epochRows' /\ rated \subseteq rated'
    BY <1>1 DEF U!startTables
  <1>7. \/ /\ lapsed' = lapsed /\ epochRows' = epochRows \cup {e}
           /\ e \in rated' \cup {HeadOfNode}
           /\ e \in chainOf => "block" \in rowsOf'[e]
        \/ e \in lapsed' /\ epochRows' = epochRows
    BY <1>1, <1>2 DEF U!NoLapse, U!Lapse, U!startTables
  <1>8. \A x \in U!Unsaved : x = e \/ x \in U!Unsaved'
    BY <1>1, <1>3 DEF U!Unsaved
  <1>9. e \in epochRows' \cup U!Unsaved'
    BY <1>7 DEF U!Unsaved
  <1>10. stepOf # "down" => GapsFilled'
    BY <1>1, <1>6, <1>8, <1>9 DEF StartInv, GapsFilled, Waits
  <1>11. stepOf # "down" => BlocksChecked'
    <2> SUFFICES ASSUME stepOf # "down", stepOf \in {"check"} \cup After("check"),
                        "check" \in config, NEW x \in U!Compared \cap chainOf
                 PROVE  "block" \in rowsOf'[x] \/ x \in U!Unsaved' \/
                        (stepOf' = "check" /\ x \in agenda')
      BY <1>1 DEF BlocksChecked, Waits
    <2>1. "block" \in rowsOf[x] \/ x \in U!Unsaved \/ (stepOf = "check" /\ x \in agenda)
      BY DEF StartInv, BlocksChecked, Waits
    <2>2. x \in U!AllEpochs
      BY StartConstants DEF U!Compared
    <2>3. CASE x = e
      BY <1>7, <2>3 DEF U!Unsaved
    <2> QED
      BY <1>1, <1>4, <1>8, <2>1, <2>2, <2>3
  <1>12. stepOf # "down" => AllExported'
    BY <1>1, <1>6, <1>8, <1>9 DEF StartInv, AllExported, Waits
  <1>13. stepOf # "down" => AllRated'
    <2> SUFFICES ASSUME stepOf # "down", stepOf \in {"statistics", "loop"},
                        "statistics" \in config, NEW x \in epochRows' \ {HeadOfNode}
                 PROVE  x \in rated' \cup U!Unsaved' \/ (stepOf' = "statistics" /\ x \in agenda')
      BY <1>1 DEF AllRated, Waits
    <2>1. x \in epochRows =>
             x \in rated \cup U!Unsaved \/ (stepOf = "statistics" /\ x \in agenda)
      BY DEF StartInv, AllRated, Waits
    <2>2. CASE x = e
      BY <1>7, <2>2 DEF U!Unsaved
    <2>3. x # e => x \in epochRows
      BY <1>7
    <2> QED
      BY <1>1, <1>6, <1>8, <2>1, <2>2, <2>3
  <1> QED
    BY <1>1, <1>5, <1>10, <1>11, <1>12, <1>13 DEF StartInv

\* StartInv is inductive.
LEMMA StartStep ==
    ASSUME StartInv, U!Next \/ UNCHANGED ofStartup
    PROVE  StartInv'
  <1>1. CASE U!NodeAnswers
    <2>1. stepOf = "wait" /\ U!Enter(U!NextPhase(stepOf))
      BY <1>1 DEF U!NodeAnswers
    <2> QED
      BY <1>1, <2>1, EnterStep DEF U!NodeAnswers, U!startTables
  <1>2. CASE U!CheckPanics \/ U!RepairFails
    <2>1. /\ stepOf' = "down" /\ agenda' = {} /\ saving' = {} /\ lapses' \in 0 .. MaxLapses
          /\ lapsed' = lapsed
          /\ UNCHANGED <<config, chainOf, knownThen, rowsOf, epochRows, rated>>
      BY <1>2, StartConstants
         DEF U!CheckPanics, U!RepairFails, U!startTables, U!Lapse, StartInv, U!TypeOK
    <2> QED
      BY <2>1 DEF StartInv, U!TypeOK
  <1>3. CASE U!ExportNext
    BY <1>3, ExportNextStep
  <1>4. CASE U!RepairEnds
    BY <1>4, EnterStep DEF U!RepairEnds, U!Exporting, U!Repairs, U!startTables
  <1>5. CASE U!Rate
    BY <1>5, RateStep
  <1>6. CASE U!SaveExported
    BY <1>6, SaveExportedStep
  <1>7. CASE UNCHANGED ofStartup
    BY <1>7 DEF ofStartup, StartInv, U!TypeOK, GapsFilled, BlocksChecked, AllExported, AllRated,
                Waits, U!Unsaved
  <1>8. CASE U!FixCanon
    BY <1>7, <1>8 DEF U!FixCanon, U!startVars, ofStartup
  <1> QED
    BY <1>1, <1>2, <1>3, <1>4, <1>5, <1>6, <1>7, <1>8 DEF U!Next, U!Starting

\* StartInv holds throughout.
LEMMA StartAlways == Spec => []StartInv
  <1>1. Init => StartInv
    BY StartInit DEF Init
  <1>2. StartInv /\ [Next]_vars => StartInv'
    BY ComponentSteps, StartStep
  <1> QED
    BY <1>1, <1>2, PTL DEF Spec

\* What the repairs have done when the loop begins.
LEMMA RepairsHaveDone == StartInv => U!RepairsAreDone
  <1> SUFFICES ASSUME StartInv, stepOf = "loop" PROVE U!RepairsAreDone
    BY DEF U!RepairsAreDone
  <1>1. GapsFilled /\ BlocksChecked /\ AllExported /\ AllRated
    BY DEF StartInv
  <1>2. knownThen # {} => (0 .. U!Max(knownThen)) \ epochRows \subseteq U!Unsaved
    BY <1>1 DEF GapsFilled, Waits
  <1>3. "check" \in config =>
          \A e \in (U!Compared \cap chainOf) \ U!Unsaved : "block" \in rowsOf[e]
    BY <1>1 DEF BlocksChecked, Waits, After
  <1>4. "full" \in config => U!Compared \ epochRows \subseteq U!Unsaved
    BY <1>1 DEF AllExported, Waits, After
  <1>5. "statistics" \in config => epochRows \ (rated \cup {HeadOfNode}) \subseteq U!Unsaved
    BY <1>1 DEF AllRated, Waits
  <1> QED
    BY <1>2, <1>3, <1>4, <1>5 DEF U!RepairsAreDone

\* An export that reported success has all its data; the data the node client gave
\* it is of one branch and complete; and the repairs before the loop leave nothing
\* out but what failed or is still being saved.
THEOREM SavesStayWhole == Spec => []SavesAreWhole
  <1>1. WritesInv /\ ClientInv /\ StartInv => SavesAreWhole
    BY ClientDataIsSound, RepairsHaveDone DEF WritesInv, StartInv, SavesAreWhole
  <1> QED
    BY <1>1, WritesAlways, ClientAlways, StartAlways, PTL

-----------------------------------------------------------------------------
(* The history of validators *)

(***************************************************************************)
(* The cell of an assignment has timestamp 0, every other cell that of a   *)
(* block that fulfilled the duty, and the latest cell is not older than    *)
(* that of any such block: only the earliest block of an export is         *)
(* written, but that of each.                                              *)
(***************************************************************************)
CellsAreDuties ==
    \A v \in Validators, s \in H!Slots :
        /\ 0 \in cells[<<v, s>>] <=> <<v, s>> \in assigned
        /\ \A k \in cells[<<v, s>>] \ {0} : \E i \in H!Inclusions(v, s) : k = H!Stamp(i)
        /\ \A i \in H!Inclusions(v, s) : \E k \in cells[<<v, s>>] : k >= H!Stamp(i)

HistoryInv == H!TypeOK /\ CellsAreDuties

\* The constants of the history are numbers, and a timestamp is above 0.
LEMMA HistoryConstants ==
    /\ MaxSlot \in Nat /\ SlotsPerEpoch \in Nat \ {0} /\ Validators \subseteq Nat
    /\ MaxKey \in Nat /\ MaxKey > MaxSlot /\ H!Slots = 0 .. MaxSlot
    /\ \A i \in H!Slots : H!Stamp(i) \in 1 .. MaxKey
  <1>1. /\ MaxSlot \in Nat /\ InclusionDelay \in Nat /\ SlotsPerEpoch \in Nat \ {0}
        /\ Validators \subseteq Nat /\ MaxKey \in Nat /\ MaxKey > MaxSlot + InclusionDelay
        /\ H!Slots = 0 .. MaxSlot
    BY ExportsAssumption DEF H!HistoryAssumption, H!Slots
  <1> QED
    BY <1>1 DEF H!Stamp

\* The least of a set of slots.
LEMMA LeastSlot ==
    ASSUME NEW T \in SUBSET H!Slots, T # {}
    PROVE  H!Min(T) \in T /\ \A i \in T : H!Min(T) <= i
  <1>1. Min(T) \in T /\ \A i \in T : Min(T) <= i
    BY HistoryConstants, MinOfInterval
  <1>2. H!Min(T) = Min(T)
    BY Zenon DEF H!Min, Min
  <1> QED
    BY <1>1, <1>2

\* The tables start empty.
LEMMA HistoryInit == H!Init \/ H!Idle => HistoryInv
  BY DEF H!Init, H!Idle, H!Empty, HistoryInv, H!TypeOK, CellsAreDuties, H!Inclusions

\* Assignments add cells with timestamp 0.
LEMMA AssignmentsStep ==
    ASSUME HistoryInv, NEW e \in H!Epochs, H!SaveAssignments(e)
    PROVE  HistoryInv'
  <1>1. PICK named \in SUBSET {d \in H!Duties : H!Epoch(d[2]) = e} :
          /\ cells' = [d \in DOMAIN cells |->
                         IF d \in named THEN cells[d] \cup {0} ELSE cells[d]]
          /\ assigned' = assigned \cup named
          /\ UNCHANGED <<family, included>>
    BY DEF H!SaveAssignments
  <1>2. cells \in [Validators \X H!Slots -> SUBSET (0 .. MaxKey)]
    BY DEF HistoryInv, H!TypeOK
  <1>3. cells' \in [Validators \X H!Slots -> SUBSET (0 .. MaxKey)]
    BY <1>1, <1>2, HistoryConstants
  <1>4. H!Duties' = H!Duties /\ named \subseteq H!Duties
    BY <1>1 DEF H!Duties, H!RowsOf
  <1>5. H!TypeOK'
    BY <1>1, <1>3, <1>4 DEF HistoryInv, H!TypeOK
  <1>6. ASSUME NEW v \in Validators, NEW s \in H!Slots
        PROVE  /\ 0 \in cells'[<<v, s>>] <=> <<v, s>> \in assigned'
               /\ \A k \in cells'[<<v, s>>] \ {0} : \E i \in H!Inclusions(v, s) : k = H!Stamp(i)
               /\ \A i \in H!Inclusions(v, s) : \E k \in cells'[<<v, s>>] : k >= H!Stamp(i)
    <2>1. <<v, s>> \in Validators \X H!Slots
      OBVIOUS
    <2>2. cells'[<<v, s>>] = cells[<<v, s>>] \cup {k \in {0} : <<v, s>> \in named}
      BY <1>1, <1>2, <2>1
    <2>3. /\ 0 \in cells[<<v, s>>] <=> <<v, s>> \in assigned
          /\ \A k \in cells[<<v, s>>] \ {0} : \E i \in H!Inclusions(v, s) : k = H!Stamp(i)
          /\ \A i \in H!Inclusions(v, s) : \E k \in cells[<<v, s>>] : k >= H!Stamp(i)
      BY DEF HistoryInv, CellsAreDuties
    <2> QED
      BY <1>1, <2>2, <2>3
  <1>7. \A v, s : H!Inclusions(v, s)' = H!Inclusions(v, s)
    BY <1>1 DEF H!Inclusions
  <1>8. CellsAreDuties'
    BY <1>6, <1>7 DEF CellsAreDuties
  <1> QED
    BY <1>5, <1>8 DEF HistoryInv

\* Blocks add the cells of the earliest of them that fulfilled a duty.
LEMMA BlocksStep ==
    ASSUME HistoryInv, NEW e \in H!Epochs, H!SaveBlocks(e)
    PROVE  HistoryInv'
  <1> DEFINE of(T, v, s) == {t[3] : t \in {u \in T : u[1] = v /\ u[2] = s}}
             earliest(T, d) == H!Min({t[3] : t \in {u \in T : u[1] = d[1] /\ u[2] = d[2]}})
             fulfilled(T) == {<<t[1], t[2]>> : t \in T}
  <1>1. PICK shown \in SUBSET (Validators \X H!Slots \X H!Slots) :
          /\ cells' = [d \in DOMAIN cells |->
                        IF d \in fulfilled(shown) THEN cells[d] \cup {H!Stamp(earliest(shown, d))}
                        ELSE cells[d]]
          /\ included' = included \cup shown
          /\ UNCHANGED <<family, assigned>>
    BY DEF H!SaveBlocks, H!kSubset
  <1>2. cells \in [Validators \X H!Slots -> SUBSET (0 .. MaxKey)]
    BY DEF HistoryInv, H!TypeOK
  <1>3. ASSUME NEW v \in Validators, NEW s \in H!Slots
        PROVE  /\ of(shown, v, s) \subseteq H!Slots
               /\ <<v, s>> \in fulfilled(shown) <=> of(shown, v, s) # {}
               /\ earliest(shown, <<v, s>>) = H!Min(of(shown, v, s))
    <2>1. \A t \in shown : t[1] \in Validators /\ t[2] \in H!Slots /\ t[3] \in H!Slots
      OBVIOUS
    <2>2. of(shown, v, s) \subseteq H!Slots
      BY <2>1
    <2>3. <<v, s>> \in fulfilled(shown) <=> of(shown, v, s) # {}
      BY <2>1
    <2>4. <<v, s>>[1] = v /\ <<v, s>>[2] = s
      OBVIOUS
    <2> QED
      BY <2>2, <2>3, <2>4
  <1> DEFINE new(v, s) == {H!Stamp(i) : i \in {j \in of(shown, v, s) : j = H!Min(of(shown, v, s))}}
  <1>4. ASSUME NEW v \in Validators, NEW s \in H!Slots
        PROVE  /\ cells'[<<v, s>>] = cells[<<v, s>>] \cup new(v, s)
               /\ \A i \in of(shown, v, s) : \E k \in new(v, s) : k >= H!Stamp(i)
               /\ new(v, s) \subseteq 1 .. MaxKey
    <2> DEFINE T == of(shown, v, s)
    <2>1. <<v, s>> \in DOMAIN cells
      BY <1>2
    <2>2. /\ T \subseteq H!Slots
          /\ <<v, s>> \in fulfilled(shown) <=> T # {}
          /\ earliest(shown, <<v, s>>) = H!Min(T)
      BY <1>3
    <2>3. cells'[<<v, s>>] = IF <<v, s>> \in fulfilled(shown)
                             THEN cells[<<v, s>>] \cup {H!Stamp(H!Min(T))} ELSE cells[<<v, s>>]
      <3> HIDE DEF fulfilled, of
      <3> QED
        BY <1>1, <2>1, <2>2
    <2> HIDE DEF T, fulfilled
    <2>4. T # {} => H!Min(T) \in T /\ \A i \in T : H!Min(T) <= i
      BY <2>2, LeastSlot
    <2>5. new(v, s) = {H!Stamp(i) : i \in {j \in T : j = H!Min(T)}}
      BY DEF T
    <2>6. cells'[<<v, s>>] = cells[<<v, s>>] \cup new(v, s)
      BY <1>3, <2>3, <2>4, <2>5 DEF T
    <2>7. \A i \in T : \E k \in new(v, s) : k >= H!Stamp(i)
      <3> TAKE i \in T
      <3>1. H!Min(T) \in T /\ H!Min(T) <= i /\ H!Stamp(H!Min(T)) \in new(v, s)
        BY <2>4, <2>5
      <3>2. H!Min(T) \in Int /\ i \in Int /\ MaxKey \in Int
        BY <2>2, <3>1, HistoryConstants
      <3>3. H!Stamp(H!Min(T)) >= H!Stamp(i)
        BY <3>1, <3>2 DEF H!Stamp
      <3> QED
        BY <3>1, <3>3
    <2>8. new(v, s) \subseteq 1 .. MaxKey
      BY <2>2, <2>5, HistoryConstants
    <2> QED
      BY <2>6, <2>7, <2>8 DEF T
  <1>5. \A v, s : H!Inclusions(v, s)' = H!Inclusions(v, s) \cup of(shown, v, s)
    BY <1>1 DEF H!Inclusions
  <1> HIDE DEF of, fulfilled, earliest
  <1>6. cells' \in [Validators \X H!Slots -> SUBSET (0 .. MaxKey)]
    <2>1. cells' = [d \in Validators \X H!Slots |-> cells'[d]]
      BY <1>1, <1>2
    <2>2. ASSUME NEW v \in Validators, NEW s \in H!Slots
          PROVE  cells'[<<v, s>>] \subseteq 0 .. MaxKey
      <3>1. cells[<<v, s>>] \subseteq 0 .. MaxKey
        BY <1>2
      <3>2. new(v, s) \subseteq 1 .. MaxKey
        BY <1>4
      <3> HIDE DEF new
      <3> QED
        BY <1>4, <3>1, <3>2, HistoryConstants
    <2>3. \A d \in Validators \X H!Slots : cells'[d] \subseteq 0 .. MaxKey
      BY <2>2
    <2> QED
      BY <2>1, <2>3
  <1>7. H!TypeOK'
    <2>1. H!Duties' = H!Duties
      BY <1>1 DEF H!Duties, H!RowsOf
    <2> QED
      BY <1>1, <1>6, <2>1 DEF HistoryInv, H!TypeOK
  <1>8. ASSUME NEW v \in Validators, NEW s \in H!Slots
        PROVE  /\ 0 \in cells'[<<v, s>>] <=> <<v, s>> \in assigned'
               /\ \A k \in cells'[<<v, s>>] \ {0} : \E i \in H!Inclusions(v, s)' : k = H!Stamp(i)
               /\ \A i \in H!Inclusions(v, s)' : \E k \in cells'[<<v, s>>] : k >= H!Stamp(i)
    <2>1. /\ cells'[<<v, s>>] = cells[<<v, s>>] \cup new(v, s)
          /\ \A i \in of(shown, v, s) : \E k \in new(v, s) : k >= H!Stamp(i)
          /\ new(v, s) \subseteq 1 .. MaxKey
          /\ \A k \in new(v, s) : \E i \in of(shown, v, s) : k = H!Stamp(i)
      BY <1>4
    <2>2. /\ 0 \in cells[<<v, s>>] <=> <<v, s>> \in assigned
          /\ \A k \in cells[<<v, s>>] \ {0} : \E i \in H!Inclusions(v, s) : k = H!Stamp(i)
          /\ \A i \in H!Inclusions(v, s) : \E k \in cells[<<v, s>>] : k >= H!Stamp(i)
      BY DEF HistoryInv, CellsAreDuties
    <2>3. H!Inclusions(v, s)' = H!Inclusions(v, s) \cup of(shown, v, s)
      BY <1>5
    <2>4. 0 \notin new(v, s)
      BY <2>1
    <2> HIDE DEF new
    <2> QED
      BY <1>1, <2>1, <2>2, <2>3, <2>4
  <1>9. CellsAreDuties'
    BY <1>8 DEF CellsAreDuties
  <1> QED
    BY <1>7, <1>9 DEF HistoryInv

\* HistoryInv is inductive.
LEMMA HistoryStep ==
    ASSUME HistoryInv, H!Next \/ UNCHANGED ofHistory
    PROVE  HistoryInv'
  <1>1. CASE H!Next
    BY <1>1, AssignmentsStep, BlocksStep DEF H!Next
  <1>2. CASE UNCHANGED ofHistory
    BY <1>2 DEF ofHistory, HistoryInv, H!TypeOK, CellsAreDuties, H!Inclusions, H!Duties, H!RowsOf
  <1> QED
    BY <1>1, <1>2

\* HistoryInv holds throughout.
LEMMA HistoryAlways == Spec => []HistoryInv
  <1>1. Init => HistoryInv
    BY HistoryInit DEF Init
  <1>2. HistoryInv /\ [Next]_vars => HistoryInv'
    BY ComponentSteps, HistoryStep
  <1> QED
    BY <1>1, <1>2, PTL DEF Spec

\* The epochs of a slot and of the rows between two keys, if neither is epoch 0's.
LEMMA EpochRangeIs ==
    ASSUME NEW start \in H!Epochs, NEW limit \in 1 .. start - 1
    PROVE  /\ \A s \in H!Slots : H!Epoch(s) \in H!Epochs /\ H!Epoch(s) \in Nat
           /\ H!EpochRange(start, start - limit) =
                {e \in H!Epochs : start - limit < e /\ e <= start}
  <1>1. /\ \A s \in H!Slots : H!Epoch(s) \in Nat /\ H!Epoch(s) <= H!Epoch(MaxSlot)
        /\ H!Epoch(MaxSlot) \in Nat /\ H!Epoch(MaxSlot) <= MaxSlot
    <2>1. ASSUME NEW s \in H!Slots
          PROVE  H!Epoch(s) \in Nat /\ H!Epoch(s) <= H!Epoch(MaxSlot)
      <3>1. s \in Nat /\ s <= MaxSlot
        BY HistoryConstants
      <3> QED
        BY <3>1, HistoryConstants, QuotientBounds, QuotientMonotonic DEF H!Epoch
    <2>2. H!Epoch(MaxSlot) \in Nat /\ H!Epoch(MaxSlot) <= MaxSlot
      <3> DEFINE q == MaxSlot \div SlotsPerEpoch
      <3>1. q \in Nat /\ q * SlotsPerEpoch <= MaxSlot
        BY HistoryConstants, QuotientBounds
      <3> HIDE DEF q
      <3>2. 1 * q <= SlotsPerEpoch * q
        BY <3>1, HistoryConstants, ProductMonotonic
      <3>3. SlotsPerEpoch * q = q * SlotsPerEpoch
        BY <3>1, HistoryConstants
      <3>4. q <= MaxSlot
        BY <3>1, <3>2, <3>3, HistoryConstants
      <3> QED
        BY <3>1, <3>4 DEF q, H!Epoch
    <2> QED
      BY <2>1, <2>2
  <1>2. /\ H!Epochs \subseteq Nat /\ start \in Nat /\ limit \in Nat /\ limit >= 1
        /\ start - limit >= 1 /\ MaxKey \in Nat
        /\ \A e \in H!Epochs : e < MaxKey
    BY <1>1, HistoryConstants DEF H!Epochs
  <1>3. ASSUME NEW e \in H!Epochs
        PROVE  (~H!Before(H!KeyOf(e), H!KeyOf(start)) /\
                H!Before(H!KeyOf(e), H!KeyOf(start - limit)))
               <=> (start - limit < e /\ e <= start)
    <2>1. e \in Nat /\ e < MaxKey
      BY <1>2
    <2> QED
      BY <1>2, <2>1 DEF H!Before, H!KeyOf
  <1>4. \A s \in H!Slots : H!Epoch(s) \in H!Epochs
    BY <1>1 DEF H!Epochs
  <1> QED
    BY <1>1, <1>3, <1>4 DEF H!EpochRange

\* What the latest cell of a duty says is what became of it.
LEMMA LatestIsTold ==
    ASSUME HistoryInv, NEW v \in Validators, NEW s \in H!Slots
    PROVE  /\ cells[<<v, s>>] # {} <=> H!Known(v, s)
           /\ H!Known(v, s) => H!Entry({v}, v, s) = H!Told(v, s)
  <1> DEFINE T == H!Inclusions(v, s)
             marks == cells[<<v, s>>]
  <1>1. /\ 0 \in marks <=> <<v, s>> \in assigned
        /\ \A k \in marks \ {0} : \E i \in T : k = H!Stamp(i)
        /\ \A i \in T : \E k \in marks : k >= H!Stamp(i)
        /\ marks \subseteq 0 .. MaxKey
    BY DEF HistoryInv, CellsAreDuties, H!TypeOK
  <1>2. T \subseteq H!Slots
    BY DEF HistoryInv, H!TypeOK, H!Inclusions
  <1>3. marks # {} <=> H!Known(v, s)
    BY <1>1 DEF H!Known
  <1>4. ASSUME marks # {}
        PROVE  /\ H!Max(marks) \in marks
               /\ \A k \in marks : H!Max(marks) >= k
    <2> HIDE DEF marks
    <2>1. Max(marks) \in marks /\ \A k \in marks : Max(marks) >= k
      BY <1>1, <1>4, HistoryConstants, MaxOfInterval
    <2>2. H!Max(marks) = Max(marks)
      BY Zenon DEF H!Max, Max
    <2> QED
      BY <2>1, <2>2
  <1>5. ASSUME marks # {}
        PROVE  H!CellOf({v}, v, s) = H!Max(marks)
    <2>1. {w \in {v} : cells[<<w, s>>] # {}} = {v}
      BY <1>5
    <2>2. H!Min({v}) = v
      BY DEF H!Min, HistoryConstants
    <2> QED
      BY <2>1, <2>2 DEF H!CellOf, H!Latest
  <1> DEFINE top == H!Max(marks)
  <1>6. ASSUME marks # {}, T = {}
        PROVE  top = 0
    BY <1>1, <1>4, <1>6
  <1>7. ASSUME marks # {}, T # {}
        PROVE  top # 0 /\ MaxKey - top = H!Min(T)
    <2>1. H!Min(T) \in T /\ \A i \in T : H!Min(T) <= i
      BY <1>2, <1>7, LeastSlot
    <2>2. top \in marks /\ \A k \in marks : top >= k
      BY <1>4, <1>7
    <2> DEFINE least == H!Min(T)
    <2> HIDE DEF top, least, T, marks
    <2>3. least \in T /\ (\A i \in T : least <= i) /\ least \in H!Slots /\ least \in Int
      <3>1. least \in T /\ (\A i \in T : least <= i)
        BY <2>1 DEF least
      <3>2. least \in H!Slots
        BY <1>2, <3>1
      <3> QED
        BY <3>1, <3>2, HistoryConstants
    <2>4. PICK k \in marks : k >= H!Stamp(least)
      BY <1>1, <2>3
    <2>5. top \in Int /\ k \in Int /\ MaxKey \in Int /\ H!Stamp(least) >= 1 /\ H!Stamp(least) \in Int
      BY <1>1, <2>2, <2>3, <2>4, HistoryConstants
    <2>6. top >= H!Stamp(least) /\ top # 0
      BY <2>2, <2>4, <2>5
    <2>7. PICK i \in T : top = H!Stamp(i)
      BY <1>1, <2>2, <2>6
    <2>8. least <= i /\ i \in Int
      BY <1>2, <2>3, <2>7, HistoryConstants
    <2>9. i = least
      BY <2>3, <2>5, <2>6, <2>7, <2>8 DEF H!Stamp
    <2>10. MaxKey - top = least
      BY <2>3, <2>5, <2>7, <2>9 DEF H!Stamp
    <2> QED
      BY <2>6, <2>10 DEF least
  <1>8. ASSUME marks # {}
        PROVE  H!Entry({v}, v, s) = H!Told(v, s)
    <2> HIDE DEF top, marks
    <2>1. CASE T = {}
      BY <1>5, <1>6, <1>8, <2>1 DEF H!Entry, H!Told, top
    <2>2. CASE T # {}
      BY <1>5, <1>7, <1>8, <2>2 DEF H!Entry, H!Told, top
    <2> QED
      BY <2>1, <2>2
  <1> QED
    BY <1>3, <1>8

\* The history of a validator has each of its duties once, with the earliest block
\* that fulfilled it, as long as it does not reach back to epoch 0.
LEMMA HistoryIsTold == HistoryInv => H!HistoryIsTrue
  <1> SUFFICES ASSUME HistoryInv, NEW v \in Validators, NEW start \in H!Epochs,
                      NEW limit \in 1 .. start - 1
               PROVE  H!GetHistory({v}, start, limit) =
                        {H!Told(v, s) : s \in {r \in H!Slots :
                           /\ start - limit < H!Epoch(r) /\ H!Epoch(r) <= start
                           /\ H!Known(v, r)}}
    BY DEF H!HistoryIsTrue
  <1> DEFINE range == H!EpochRange(start, start - limit)
             kept == {c \in {v} \X H!Slots : H!Epoch(c[2]) \in range /\ cells[c] # {}}
             told == {r \in H!Slots : /\ start - limit < H!Epoch(r) /\ H!Epoch(r) <= start
                                      /\ H!Known(v, r)}
  <1>1. H!GetHistory({v}, start, limit) = {H!Entry({v}, d[1], d[2]) : d \in kept}
    BY DEF H!GetHistory, H!History
  <1>2. \A s \in H!Slots : <<v, s>> \in kept <=> s \in told
    BY EpochRangeIs, LatestIsTold
  <1>3. \A d \in kept : d[1] = v /\ d[2] \in H!Slots /\ d = <<v, d[2]>>
    OBVIOUS
  <1>4. \A s \in told : H!Entry({v}, v, s) = H!Told(v, s)
    BY LatestIsTold
  <1> HIDE DEF kept
  <1>5. \A d \in kept : d[2] \in told /\ H!Entry({v}, d[1], d[2]) = H!Told(v, d[2])
    BY <1>2, <1>3, <1>4
  <1>6. \A s \in told : <<v, s>> \in kept /\ H!Entry({v}, <<v, s>>[1], <<v, s>>[2]) = H!Told(v, s)
    BY <1>2, <1>4
  <1> HIDE DEF told
  <1> QED
    BY <1>1, <1>5, <1>6 DEF told

\* A validator shown as offline has not attested for OfflineAfter epochs counted
\* from the latest saved one, and its history is what became of its duties, in
\* whatever order epochs are exported, exported again and judged.
THEOREM ValidatorsStayTrue == Spec => []ValidatorsAsTheyWere
  <1>1. WritesInv /\ HistoryInv => ValidatorsAsTheyWere
    BY HistoryIsTold DEF WritesInv, HistoryInv, ValidatorsAsTheyWere
  <1> QED
    BY <1>1, WritesAlways, HistoryAlways, PTL

-----------------------------------------------------------------------------
(* The statistics of a day *)

\* What the history of all validators shows of one in one epoch.
ShownMissed(v, e) == {a \in H!GetHistory(Validators, e, 1) : a.validator = v /\ a.status = 0}

\* The missed attestations of a validator in a set of epochs.
MissedIn(v, es) ==
    {s \in H!Slots : H!Epoch(s) \in es /\ H!Known(v, s) /\ H!Inclusions(v, s) = {}}

\* There are finitely many slots.
LEMMA SlotsAreFinite == IsFiniteSet(0 .. MaxSlot)
  BY HistoryConstants, FS_Interval

\* The attestations of an epoch: nobody else's cell tells what became of a duty.
LEMMA ShownIsMissed ==
    ASSUME HistoryInv, family = "at", NEW v \in Validators, NEW e \in H!Epochs, e \in Nat, e >= 2
    PROVE  /\ IsFiniteSet(ShownMissed(v, e))
           /\ Cardinality(ShownMissed(v, e)) = Cardinality(MissedIn(v, {e}))
  <1> DEFINE shown == ShownMissed(v, e)
             missed == MissedIn(v, {e})
             f == [s \in missed |-> H!Told(v, s)]
             kept == {c \in Validators \X H!Slots :
                        H!Epoch(c[2]) \in H!EpochRange(e, e - 1) /\ cells[c] # {}}
  <1>1. 1 \in 1 .. e - 1
    OBVIOUS
  <1>2. /\ \A s \in H!Slots : H!Epoch(s) \in Nat /\ H!Epoch(s) \in H!Epochs
        /\ H!EpochRange(e, e - 1) = {n \in H!Epochs : e - 1 < n /\ n <= e}
    BY <1>1, EpochRangeIs
  <1>3. \A s \in H!Slots : H!Epoch(s) \in H!EpochRange(e, e - 1) <=> H!Epoch(s) = e
    BY <1>2
  <1>4. \A w \in Validators, s \in H!Slots :
          /\ cells[<<w, s>>] # {} <=> H!Known(w, s)
          /\ H!Known(w, s) => H!Entry(Validators, w, s) = H!Told(w, s)
    <2> TAKE w \in Validators, s \in H!Slots
    <2>1. H!Entry(Validators, w, s) = H!Entry({w}, w, s)
      BY DEF H!Entry, H!CellOf
    <2> QED
      BY <2>1, LatestIsTold
  <1>5. \A w, s : /\ H!Told(w, s).validator = w /\ H!Told(w, s).slot = s
                  /\ H!Told(w, s).status = 0 <=> H!Inclusions(w, s) = {}
    BY DEF H!Told
  <1>6. H!GetHistory(Validators, e, 1) = {H!Entry(Validators, d[1], d[2]) : d \in kept}
    BY DEF H!GetHistory, H!History
  <1>7. \A w, s : <<w, s>> \in kept <=> w \in Validators /\ s \in H!Slots /\ H!Epoch(s) = e /\ H!Known(w, s)
    BY <1>3, <1>4
  <1>8. \A d \in kept : d = <<d[1], d[2]>>
    OBVIOUS
  <1>9. \A a : a \in shown <=> \E s \in missed : a = H!Told(v, s)
    <2> HIDE DEF kept
    <2>1. ASSUME NEW a \in shown PROVE \E s \in missed : a = H!Told(v, s)
      <3>1. PICK d \in kept : a = H!Entry(Validators, d[1], d[2])
        BY <1>6 DEF ShownMissed
      <3>2. PICK w, s : w = d[1] /\ s = d[2]
        OBVIOUS
      <3>3. w \in Validators /\ s \in H!Slots /\ H!Epoch(s) = e /\ H!Known(w, s)
        BY <1>7, <1>8, <3>2
      <3>4. a = H!Told(w, s) /\ a.validator = v /\ a.status = 0
        BY <1>4, <3>1, <3>2, <3>3 DEF ShownMissed
      <3>5. w = v /\ H!Inclusions(w, s) = {}
        BY <1>5, <3>4
      <3> QED
        BY <3>3, <3>4, <3>5 DEF MissedIn
    <2>2. ASSUME NEW s \in missed PROVE H!Told(v, s) \in shown
      <3>1. s \in H!Slots /\ H!Epoch(s) = e /\ H!Known(v, s) /\ H!Inclusions(v, s) = {}
        BY DEF MissedIn
      <3>2. <<v, s>> \in kept
        BY <1>7, <3>1
      <3>3. H!Entry(Validators, v, s) \in H!GetHistory(Validators, e, 1)
        BY <1>6, <3>2
      <3> QED
        BY <1>4, <1>5, <3>1, <3>3 DEF ShownMissed
    <2> QED
      BY <2>1, <2>2
  <1> HIDE DEF shown, missed, kept
  <1>10. f \in Bijection(missed, shown)
    <2>1. f \in [missed -> shown]
      BY <1>9
    <2>2. \A a, b \in missed : f[a] = f[b] => a = b
      BY <1>5
    <2>3. \A a \in shown : \E s \in missed : f[s] = a
      BY <1>9
    <2> QED
      BY <2>1, <2>2, <2>3 DEF Bijection, Injection, Surjection, IsInjective
  <1>11. IsFiniteSet(missed)
    <2>1. missed \subseteq 0 .. MaxSlot
      BY HistoryConstants DEF missed, MissedIn
    <2> QED
      BY <2>1, SlotsAreFinite, FS_Subset
  <1>12. ExistsBijection(missed, shown)
    BY <1>10 DEF ExistsBijection
  <1> QED
    BY <1>11, <1>12, FS_Bijection DEF shown, missed

\* The sum over the epochs counts each missed attestation once.
LEMMA SumIsMissed ==
    ASSUME HistoryInv, family = "at", NEW v \in Validators, NEW last \in H!Epochs, NEW first \in 2 .. last
    PROVE  H!MissedAttestations(v, first, last) = Cardinality(MissedIn(v, first .. last))
  <1> DEFINE span == first .. last
             at(s) == CHOOSE x \in s : TRUE
             Sums(g) == g = [s \in SUBSET span |-> IF s = {} THEN 0
                               ELSE H!Cardinality(ShownMissed(v, at(s))) + g[s \ {at(s)}]]
             sum == CHOOSE g : Sums(g)
             count == [s \in SUBSET span |-> Cardinality(MissedIn(v, s))]
  <1>1. H!MissedAttestations(v, first, last) = sum[span]
    BY DEF H!MissedAttestations, H!MapThenSumSet, H!MapThenFoldSet, ShownMissed
  <1>2. /\ last \in Nat /\ span \subseteq Nat /\ IsFiniteSet(span)
        /\ \A e \in span : e \in H!Epochs /\ e \in Nat /\ e >= 2
    <2>1. H!Epoch(MaxSlot) \in Nat /\ H!Epochs = 0 .. H!Epoch(MaxSlot)
      <3>1. MaxSlot \in H!Slots
        BY HistoryConstants
      <3>2. H!Epoch(MaxSlot) \in Nat
        BY <3>1, HistoryConstants, QuotientBounds DEF H!Epoch
      <3> QED
        BY <3>2 DEF H!Epochs
    <2>2. last \in Nat /\ first \in Nat /\ first >= 2 /\ last \in 0 .. H!Epoch(MaxSlot)
      BY <2>1
    <2>3. IsFiniteSet(span)
      BY <2>2, FS_Interval
    <2>4. \A e \in span : e \in 0 .. H!Epoch(MaxSlot) /\ e >= 2
      BY <2>1, <2>2
    <2> QED
      BY <2>1, <2>2, <2>3, <2>4
  <1>3. \A s \in SUBSET span : IsFiniteSet(MissedIn(v, s)) /\ Cardinality(MissedIn(v, s)) \in Nat
    <2> TAKE s \in SUBSET span
    <2>1. MissedIn(v, s) \subseteq 0 .. MaxSlot
      BY HistoryConstants DEF MissedIn
    <2>2. IsFiniteSet(MissedIn(v, s))
      BY <2>1, SlotsAreFinite, FS_Subset
    <2> QED
      BY <2>2, FS_CardinalityType
  <1>4. \A s \in SUBSET span : \A e \in s :
          Cardinality(MissedIn(v, s)) =
            H!Cardinality(ShownMissed(v, e)) + Cardinality(MissedIn(v, s \ {e}))
    <2> TAKE s \in SUBSET span
    <2> TAKE e \in s
    <2>1. H!Cardinality(ShownMissed(v, e)) = Cardinality(ShownMissed(v, e))
      BY DEF H!Cardinality, Cardinality
    <2>2. Cardinality(ShownMissed(v, e)) = Cardinality(MissedIn(v, {e}))
      BY <1>2, ShownIsMissed
    <2>3. /\ MissedIn(v, s) = MissedIn(v, {e}) \cup MissedIn(v, s \ {e})
          /\ MissedIn(v, {e}) \cap MissedIn(v, s \ {e}) = {}
      BY DEF MissedIn
    <2>4. /\ IsFiniteSet(MissedIn(v, {e})) /\ IsFiniteSet(MissedIn(v, s \ {e}))
          /\ Cardinality(MissedIn(v, {e})) \in Nat /\ Cardinality(MissedIn(v, s \ {e})) \in Nat
      <3>1. {e} \in SUBSET span /\ s \ {e} \in SUBSET span
        OBVIOUS
      <3> QED
        BY <1>3, <3>1
    <2>5. Cardinality(MissedIn(v, s)) = Cardinality(MissedIn(v, {e})) + Cardinality(MissedIn(v, s \ {e})) - 0
      BY <2>3, <2>4, FS_Union, FS_EmptySet
    <2> QED
      BY <2>1, <2>2, <2>4, <2>5
  <1>5. Cardinality(MissedIn(v, {})) = 0
    <2>1. MissedIn(v, {}) = {}
      BY DEF MissedIn
    <2> QED
      BY <2>1, FS_EmptySet
  <1> HIDE DEF span
  <1>6. Sums(count)
    <2>1. ASSUME NEW s \in SUBSET span
          PROVE  count[s] = IF s = {} THEN 0
                            ELSE H!Cardinality(ShownMissed(v, at(s))) + count[s \ {at(s)}]
      <3>1. CASE s = {}
        BY <1>5, <3>1
      <3>2. CASE s # {}
        <4>1. at(s) \in s
          BY <3>2
        <4> HIDE DEF at
        <4> QED
          BY <1>4, <3>2, <4>1
      <3> QED
        BY <3>1, <3>2
    <2> HIDE DEF at
    <2> QED
      BY <2>1
  <1>7. Sums(sum)
    <2> HIDE DEF Sums, count
    <2> QED
      BY <1>6
  <1>8. \A s \in SUBSET span : sum[s] = IF s = {} THEN 0
                                     ELSE H!Cardinality(ShownMissed(v, at(s))) + sum[s \ {at(s)}]
    <2> HIDE DEF sum, at
    <2> QED
      BY <1>7
  <1> DEFINE Same == {s \in SUBSET span : sum[s] = count[s]}
  <1>9. {} \in Same
    <2> HIDE DEF sum
    <2> QED
      BY <1>5, <1>8
  <1>10. ASSUME NEW s \in SUBSET span, s # {} PROVE \E x \in s : s \ {x} \in Same => s \in Same
    <2>1. at(s) \in s
      BY <1>10
    <2> HIDE DEF at, sum
    <2>2. sum[s] = H!Cardinality(ShownMissed(v, at(s))) + sum[s \ {at(s)}]
      BY <1>8, <1>10
    <2>3. count[s] = H!Cardinality(ShownMissed(v, at(s))) + count[s \ {at(s)}]
      BY <1>4, <2>1
    <2> HIDE DEF count
    <2>4. s \ {at(s)} \in Same => s \in Same
      BY <2>2, <2>3
    <2> QED
      BY <2>1, <2>4
  <1>11. span \in Same
    <2> HIDE DEF Same
    <2> QED
      BY <1>2, <1>9, <1>10, SubsetInduction
  <1> HIDE DEF sum
  <1> QED
    BY <1>1, <1>11 DEF span

\* The balances of a validator are those of the epochs it has a cell for.
LEMMA BalancesAreKnown ==
    ASSUME HistoryInv, NEW v \in Validators, NEW last \in H!Epochs, NEW first \in 2 .. last
    PROVE  H!BalanceEpochs(v, first, last) =
             {H!Epoch(s) : s \in {r \in H!Slots : /\ first <= H!Epoch(r) /\ H!Epoch(r) <= last
                                                  /\ H!Known(v, r)}}
  <1> DEFINE range == H!EpochRange(last, first - 1)
             kept == {c \in Validators \X H!Slots : H!Epoch(c[2]) \in range /\ cells[c] # {}}
             entries == {H!Entry(Validators, d[1], d[2]) : d \in kept}
             day == {r \in H!Slots : first <= H!Epoch(r) /\ H!Epoch(r) <= last /\ H!Known(v, r)}
  <1>1. last \in Nat /\ first \in Nat /\ first >= 2 /\ first <= last
    <2>1. MaxSlot \in H!Slots
      BY HistoryConstants
    <2>2. H!Epoch(MaxSlot) \in Nat
      BY <2>1, HistoryConstants, QuotientBounds DEF H!Epoch
    <2> QED
      BY <2>2 DEF H!Epochs
  <1>2. PICK limit \in 1 .. last - 1 : last - limit = first - 1
    <2>1. last - first + 1 \in 1 .. last - 1 /\ last - (last - first + 1) = first - 1
      BY <1>1
    <2> QED
      BY <2>1
  <1>3. /\ \A s \in H!Slots : H!Epoch(s) \in Nat /\ H!Epoch(s) \in H!Epochs
        /\ range = {n \in H!Epochs : first - 1 < n /\ n <= last}
    BY <1>2, EpochRangeIs
  <1>4. \A s \in H!Slots : <<v, s>> \in kept <=> s \in day
    <2> TAKE s \in H!Slots
    <2>1. H!Epoch(s) \in range <=> first <= H!Epoch(s) /\ H!Epoch(s) <= last
      BY <1>1, <1>3
    <2>2. cells[<<v, s>>] # {} <=> H!Known(v, s)
      BY LatestIsTold
    <2> HIDE DEF range
    <2> QED
      BY <2>1, <2>2
  <1>5. \A d \in kept : d = <<d[1], d[2]>> /\ d[2] \in H!Slots
    OBVIOUS
  <1>6. H!BalanceEpochs(v, first, last) = {H!Epoch(b.slot) : b \in {c \in entries : c.validator = v}}
    BY DEF H!BalanceEpochs, H!History
  <1>7. \A w, s : H!Entry(Validators, w, s).validator = w /\ H!Entry(Validators, w, s).slot = s
    BY DEF H!Entry
  <1> DEFINE own == {c \in entries : c.validator = v}
  <1>8. ASSUME NEW b \in own PROVE b.slot \in day
    <2>1. PICK d \in kept : b = H!Entry(Validators, d[1], d[2])
      OBVIOUS
    <2> HIDE DEF kept, day
    <2>2. d[1] = v /\ b.slot = d[2]
      BY <1>7, <2>1
    <2> QED
      BY <1>4, <1>5, <2>2
  <1>9. ASSUME NEW s \in day PROVE \E b \in own : b.slot = s
    <2>1. s \in H!Slots
      OBVIOUS
    <2> HIDE DEF kept, day
    <2>2. <<v, s>> \in kept
      BY <1>4, <2>1
    <2>3. H!Entry(Validators, v, s) \in own
      BY <1>7, <2>2
    <2> QED
      BY <1>7, <2>3
  <1> HIDE DEF own, day
  <1> QED
    BY <1>6, <1>8, <1>9 DEF own, day

\* The statistics of a day count each missed attestation, and the balance, of each of
\* its epochs once.
THEOREM DaysAreCounted == Spec => []DayIsCounted
  <1>1. HistoryInv => DayIsCounted
    <2> SUFFICES ASSUME HistoryInv, NEW v \in Validators, NEW last \in H!Epochs, NEW first \in 2 .. last
                 PROVE  LET day == {s \in H!Slots : first <= H!Epoch(s) /\ H!Epoch(s) <= last
                                                    /\ H!Known(v, s)}
                        IN /\ family = "at" =>
                                H!MissedAttestations(v, first, last)
                                  = H!Cardinality({s \in day : H!Inclusions(v, s) = {}})
                           /\ family = "vb" =>
                                H!BalanceEpochs(v, first, last) = {H!Epoch(s) : s \in day}
      BY DEF DayIsCounted, H!DayIsCounted
    <2> DEFINE day == {s \in H!Slots : first <= H!Epoch(s) /\ H!Epoch(s) <= last /\ H!Known(v, s)}
               missed == {s \in day : H!Inclusions(v, s) = {}}
    <2>1. missed = MissedIn(v, first .. last)
      <3>1. \A s \in H!Slots : H!Epoch(s) \in Nat
        BY HistoryConstants, QuotientBounds DEF H!Epoch
      <3>2. \A s \in H!Slots : H!Epoch(s) \in first .. last <=> first <= H!Epoch(s) /\ H!Epoch(s) <= last
        BY <3>1
      <3> QED
        BY <3>2 DEF MissedIn
    <2>2. H!Cardinality(missed) = Cardinality(missed)
      BY DEF H!Cardinality, Cardinality
    <2>3. family = "at" => H!MissedAttestations(v, first, last) = H!Cardinality(missed)
      BY <2>1, <2>2, SumIsMissed
    <2>4. H!BalanceEpochs(v, first, last) = {H!Epoch(s) : s \in day}
      BY BalancesAreKnown
    <2> QED
      BY <2>3, <2>4
  <1> QED
    BY <1>1, HistoryAlways, PTL
=============================================================================
