----------------------------- MODULE ChainSync -----------------------------
(***************************************************************************)
(* The beacon chain exporter (exporter/exporter.go over rpc/lighthouse.go  *)
(* and db/db.go): a monitoring loop saves every new head block, and at an  *)
(* epoch transition starts a full check that compares the database with    *)
(* the node, exports the epochs that differ, marks orphaned blocks and     *)
(* flags finalized epochs.  An export reads the node at once and saves in  *)
(* a goroutine of its own, so that several stale exports can wait on       *)
(* saveEpochMux while the chain moves on.                                  *)
(*                                                                         *)
(* The node is the environment: its clock ticks, it reorganises the chain  *)
(* above the finalized epoch, it announces heads and it fails to answer.   *)
(* The exporter may crash at any point; only the tables survive.  One      *)
(* database transaction is one step; saveValidators, the Bigtable writes   *)
(* and the statistics columns are left out (a Bigtable write matters here  *)
(* only by failing, which drops the export).                               *)
(***************************************************************************)
EXTENDS BlockTable, Sequences, FiniteSets, FiniteSetsExt

CONSTANTS
    Main,             \* the root first proposed at a slot
    Checkers,         \* bound: the full-check goroutines alive at once
    Savers,           \* bound: the save goroutines of ExportEpoch alive at once
    ChanCap,          \* capacity of newBlockChan, 10 in the code
    Grace,            \* 60 seconds in slots: younger empty slots are scheduled
    NoFinalityLimit,  \* 10 in the code: window when the chain does not finalize
    FinalityLag,      \* epochs the node needs to finalize one
    BlacklistLimit,   \* 3 in the code
    OldAge,           \* 24 hours in slots: older epochs can be blacklisted
    MaxReorgs,        \* bound: reorganisations
    MaxFaults,        \* bound: failed requests and failed saves
    MaxCrashes,       \* bound: crashes of the exporter
    SeededDb          \* TRUE: the tables already hold a finalized epoch 0

ASSUME ChainSyncAssumption ==
    /\ Main \in BlockRoots
    /\ {ChanCap, Grace, NoFinalityLimit, FinalityLag, BlacklistLimit, OldAge,
        MaxReorgs, MaxFaults, MaxCrashes} \subseteq Nat
    /\ SeededDb \in BOOLEAN
    /\ SeededDb => SlotsPerEpoch <= MaxSlot + 1
    /\ IsFiniteSet(BlockRoots)

VARIABLES
    \* the node
    clock,      \* the current slot
    chain,      \* the canonical block of each slot, or NoBlock
    finalized,  \* the finalized epoch
    announce,   \* TRUE when the head changed since the last head event
    \* the database
    blocks,     \* table blocks: slot, root -> status
    duties,     \* table proposal_assignments: slot -> status
    epochs,     \* table epochs: "absent", "open" or "finalized"
    \* the exporter's memory
    newBlocks,  \* newBlockChan
    inHand,     \* the block the monitoring loop is saving, a sequence of 0 or 1
    lastSlot,   \* lastExportedSlot
    running,    \* fullCheckRunning
    checks,     \* the full-check goroutines
    savers,     \* the goroutines ExportEpoch started
    cache,      \* epochsCache: the roots last saved for an epoch, or <<>>
    blacklist,  \* epochBlacklist
    \* bounds
    used        \* what was spent of MaxReorgs, MaxFaults and MaxCrashes

node == <<clock, chain, finalized, announce>>
tables == <<blocks, duties, epochs>>
loop == <<newBlocks, inHand, lastSlot>>
vars == <<node, tables, loop, running, checks, savers, cache, blacklist, used>>

-----------------------------------------------------------------------------
Block == Slots \X BlockRoots
EpochData == UNION {[SlotsOf(e) -> Roots] : e \in Epochs}

IdleCheck ==
    [pc |-> "off", head |-> 0, fin |-> 0, start |-> 0, db |-> {}, seen |-> {},
     cursor |-> 0, todo |-> {}]
CheckState ==
    [pc : {"off", "load", "store", "head", "db", "node", "plan", "export",
           "finalize"},
     head : Epochs, fin : Epochs, start : Epochs,
     db : SUBSET (Slots \X Roots), seen : SUBSET Block,
     cursor : Slots, todo : SUBSET Epochs]

IdleSaver == [pc |-> "idle", epoch |-> 0, data |-> <<>>]
SaverState ==
    [pc : {"idle"}, epoch : {0}, data : {<<>>}]
    \cup [pc : {"waiting", "delete00", "delete01"}, epoch : Epochs,
          data : EpochData]

HeadSlot == Max({s \in 0 .. clock : chain[s] # NoBlock})
HeadEpoch == EpochOfSlot(HeadSlot)
ExportedEpochs == {e \in Epochs : epochs[e] # "absent"}

(***************************************************************************)
(* The first block finalized epoch e leaves free to change.                *)
(***************************************************************************)
FirstReorgable == finalized * SlotsPerEpoch + 1

Init ==
    /\ clock = IF SeededDb THEN SlotsPerEpoch - 1 ELSE 0
    /\ chain = [s \in Slots |-> IF s = 0 THEN Main ELSE NoBlock]
    /\ finalized = 0
    /\ announce = FALSE
    /\ IF SeededDb
       THEN LET data == [s \in SlotsOf(0) |-> Root01]
            IN  /\ blocks = SaveBlocks(EmptyBlocks, data)
                /\ duties = SaveBlockDuties(EmptyDuties, EmptyBlocks, data)
                /\ epochs = [e \in Epochs |->
                                IF e = 0 THEN "finalized" ELSE "absent"]
       ELSE /\ blocks = EmptyBlocks
            /\ duties = EmptyDuties
            /\ epochs = [e \in Epochs |-> "absent"]
    /\ newBlocks = <<>>
    /\ inHand = <<>>
    /\ lastSlot = 0
    /\ running = 0
    /\ checks = [c \in Checkers |-> IdleCheck]
    /\ savers = [g \in Savers |-> IdleSaver]
    /\ cache = [e \in Epochs |-> <<>>]
    /\ blacklist = [e \in Epochs |-> 0]
    /\ used = [reorgs |-> 0, faults |-> 0, crashes |-> 0]

-----------------------------------------------------------------------------
(* The node *)

\* A slot passes, with or without a block on top of the chain.
Tick ==
    /\ clock < MaxSlot
    /\ clock' = clock + 1
    /\ \E b \in {Main, NoBlock} :
        /\ chain' = [chain EXCEPT ![clock + 1] = b]
        /\ announce' = (announce \/ b # NoBlock)
    /\ UNCHANGED <<finalized, tables, loop, running, checks, savers, cache,
                   blacklist, used>>

\* Fork choice moves to another branch above the finalized checkpoint.
Reorg ==
    /\ used.reorgs < MaxReorgs
    /\ \E s \in FirstReorgable .. clock :
       \E branch \in [s .. clock -> BlockRoots \cup {NoBlock}] :
        /\ branch[s] # chain[s]
        /\ \E t \in s .. clock : branch[t] # NoBlock
        /\ chain' = [t \in Slots |-> IF t \in s .. clock THEN branch[t] ELSE chain[t]]
    /\ announce' = TRUE
    /\ used' = [used EXCEPT !.reorgs = @ + 1]
    /\ UNCHANGED <<clock, finalized, tables, loop, running, checks, savers,
                   cache, blacklist>>

Finalize ==
    /\ finalized + FinalityLag < HeadEpoch
    /\ finalized' = finalized + 1
    /\ UNCHANGED <<clock, chain, announce, tables, loop, running, checks,
                   savers, cache, blacklist, used>>

-----------------------------------------------------------------------------
(* The event stream and the monitoring loop *)

\* GetNewBlockChan: a head event, the block at its slot, the channel.
PushHead ==
    /\ announce
    /\ Len(newBlocks) < ChanCap
    /\ newBlocks' = Append(newBlocks, <<HeadSlot, chain[HeadSlot]>>)
    /\ announce' = FALSE
    /\ UNCHANGED <<clock, chain, finalized, tables, inHand, lastSlot, running,
                   checks, savers, cache, blacklist, used>>

\* GetNewBlockChan: the request for the block fails and the event is dropped.
DropHead ==
    /\ announce
    /\ used.faults < MaxFaults
    /\ announce' = FALSE
    /\ used' = [used EXCEPT !.faults = @ + 1]
    /\ UNCHANGED <<clock, chain, finalized, tables, loop, running, checks,
                   savers, cache, blacklist>>

\* Start: the loop takes a block and launches a check on a new epoch.  With no
\* goroutine left in the model, one is launched that finds the flag set.
ReceiveBlock ==
    /\ inHand = <<>>
    /\ newBlocks # <<>>
    /\ LET slot == Head(newBlocks)[1]
       IN  IF \/ EpochOfSlot(lastSlot) # EpochOfSlot(slot)
              \/ EpochOfSlot(slot) = 0
           THEN \/ \E c \in Checkers :
                    /\ checks[c].pc = "off"
                    /\ checks' = [checks EXCEPT ![c].pc = "load"]
                \/ /\ \A c \in Checkers : checks[c].pc # "off"
                   /\ running = 1
                   /\ UNCHANGED checks
           ELSE UNCHANGED checks
    /\ inHand' = <<Head(newBlocks)>>
    /\ newBlocks' = Tail(newBlocks)
    /\ UNCHANGED <<node, tables, lastSlot, running, savers, cache, blacklist,
                   used>>

\* SaveBlock, then lastExportedSlot.
SaveBlock ==
    /\ inHand # <<>>
    /\ LET slot == inHand[1][1]
           data == [s \in {slot} |-> inHand[1][2]]
       IN  /\ blocks' = SaveBlocks(blocks, data)
           /\ duties' = SaveBlockDuties(duties, blocks, data)
           /\ lastSlot' = slot
    /\ inHand' = <<>>
    /\ UNCHANGED <<node, epochs, newBlocks, running, checks, savers, cache,
                   blacklist, used>>

\* The transaction does not commit: it is logged and the loop goes on.
SaveBlockFails ==
    /\ inHand # <<>>
    /\ used.faults < MaxFaults
    /\ lastSlot' = inHand[1][1]
    /\ inHand' = <<>>
    /\ used' = [used EXCEPT !.faults = @ + 1]
    /\ UNCHANGED <<node, tables, newBlocks, running, checks, savers, cache,
                   blacklist>>

-----------------------------------------------------------------------------
(* The full check *)

Goto(c, pc) == checks' = [checks EXCEPT ![c].pc = pc]

CheckEnds(c) ==
    /\ checks' = [checks EXCEPT ![c] = IdleCheck]
    /\ running' = 0

\* The goroutine of Start: the flag is loaded, and stored in a second step.
LoadRunning(c) ==
    /\ checks[c].pc = "load"
    /\ Goto(c, IF running = 1 THEN "off" ELSE "store")
    /\ UNCHANGED <<node, tables, loop, running, savers, cache, blacklist, used>>

StoreRunning(c) ==
    /\ checks[c].pc = "store"
    /\ running' = 1
    /\ Goto(c, "head")
    /\ UNCHANGED <<node, tables, loop, savers, cache, blacklist, used>>

\* Faulty: the finalized epoch is not tested before one is subtracted.
WindowStartUnguarded(head, fin) ==
    IF head > NoFinalityLimit /\ head - fin > NoFinalityLimit
    THEN head - NoFinalityLimit
    ELSE fin - 1

\* The first epoch of the window a full check compares.
WindowStart(head, fin) ==
    IF head > NoFinalityLimit /\ head - fin > NoFinalityLimit
    THEN head - NoFinalityLimit
    ELSE IF fin > 1 THEN fin - 1 ELSE 0

ReadHead(c) ==
    /\ checks[c].pc = "head"
    /\ checks' = [checks EXCEPT ![c] =
            [@ EXCEPT !.pc = "db",
                      !.head = HeadEpoch,
                      !.fin = finalized,
                      !.start = WindowStart(HeadEpoch, finalized)]]
    /\ UNCHANGED <<node, tables, loop, running, savers, cache, blacklist, used>>

ReadDb(c) ==
    /\ checks[c].pc = "db"
    /\ checks' = [checks EXCEPT ![c] =
            [@ EXCEPT !.pc = "node",
                      !.db = PendingAndProposed(blocks, checks[c].start,
                                               checks[c].head),
                      !.cursor = checks[c].start * SlotsPerEpoch]]
    /\ UNCHANGED <<node, tables, loop, running, savers, cache, blacklist, used>>

\* GetLastBlocks: one request for each slot of the window, in slot order.
ReadNode(c) ==
    LET slot == checks[c].cursor
        last == slot + 1 \notin Slots \/ EpochOfSlot(slot + 1) > checks[c].head
    IN  /\ checks[c].pc = "node"
        /\ checks' = [checks EXCEPT ![c] =
                [@ EXCEPT !.pc = IF last THEN "plan" ELSE "node",
                          !.cursor = IF last THEN 0 ELSE slot + 1,
                          !.seen = checks[c].seen
                                   \cup {slot} \X ({chain[slot]} \ {NoBlock})]]
        /\ UNCHANGED <<node, tables, loop, running, savers, cache, blacklist,
                       used>>

\* A request that fails before the plan is made, or the last statement, ends
\* the check.
RequestFails(c) ==
    /\ checks[c].pc \in {"head", "db", "node", "plan", "finalize"}
    /\ used.faults < MaxFaults
    /\ CheckEnds(c)
    /\ used' = [used EXCEPT !.faults = @ + 1]
    /\ UNCHANGED <<node, tables, loop, savers, cache, blacklist>>

\* Epochs with a block on one side only; a row 0x00 the node lacks is expected.
Differing(db, seen) ==
    {EpochOfSlot(b[1]) : b \in (seen \ db) \cup {d \in db \ seen : d[2] # Root00}}

\* Epochs the table lacks at its end, at its beginning or altogether.
NotYetExported(known, head) ==
    IF known = {} THEN 0 .. head
    ELSE IF Max(known) < head THEN Max(known) .. head
    ELSE IF Min(known) # 0 THEN {0}
    ELSE {}

Gaps(known) ==
    {e \in Epochs \ known : \E f, g \in known : f < e /\ e < g}

Plan(c) ==
    /\ checks[c].pc = "plan"
    /\ checks' = [checks EXCEPT ![c] =
            [@ EXCEPT !.pc = "export",
                      !.todo = Differing(checks[c].db, checks[c].seen)
                               \cup NotYetExported(ExportedEpochs, checks[c].head)
                               \cup Gaps(ExportedEpochs)]]
    /\ UNCHANGED <<node, tables, loop, running, savers, cache, blacklist, used>>

(***************************************************************************)
(* GetEpochData: the block of each slot that has begun, placeholders for   *)
(* the others.  Slot 0 is never asked for, and a slot whose request fails  *)
(* looks like a slot without a block.                                      *)
(***************************************************************************)
FetchedEpoch(e, failed) ==
    [s \in SlotsOf(e) |->
        IF s \in (1 .. clock) \ failed /\ chain[s] # NoBlock THEN chain[s]
        ELSE IF s > clock - Grace THEN Root00
        ELSE Root01]

\* The next epoch of the check: the smallest one, ready for export.
NextEpoch(c, e) ==
    /\ checks[c].pc = "export"
    /\ checks[c].todo # {}
    /\ e = Min(checks[c].todo)

Exported(c, e) == checks' = [checks EXCEPT ![c].todo = @ \ {e}]

\* ExportEpoch: the epoch is read and a goroutine is left to save it.
ExportEpoch(c) ==
    \E e \in Epochs, g \in Savers, failed \in {{}} \cup {{s} : s \in Slots} :
        /\ NextEpoch(c, e)
        /\ blacklist[e] <= BlacklistLimit
        /\ savers[g].pc = "idle"
        /\ failed \subseteq SlotsOf(e) \cap (1 .. clock)
        /\ used.faults + Cardinality(failed) <= MaxFaults
        /\ savers' = [savers EXCEPT ![g] =
                [pc |-> "waiting", epoch |-> e, data |-> FetchedEpoch(e, failed)]]
        /\ Exported(c, e)
        /\ used' = [used EXCEPT !.faults = @ + Cardinality(failed)]
        /\ UNCHANGED <<node, tables, loop, running, cache, blacklist>>

\* ExportEpoch returns an error: an old epoch moves towards its exclusion.
ExportFails(c) ==
    \E e \in Epochs :
        /\ NextEpoch(c, e)
        /\ blacklist[e] <= BlacklistLimit
        /\ used.faults < MaxFaults
        /\ blacklist' = IF e * SlotsPerEpoch + OldAge < clock
                        THEN [blacklist EXCEPT ![e] = @ + 1]
                        ELSE blacklist
        /\ Exported(c, e)
        /\ used' = [used EXCEPT !.faults = @ + 1]
        /\ UNCHANGED <<node, tables, loop, running, savers, cache>>

SkipBlacklisted(c) ==
    \E e \in Epochs :
        /\ NextEpoch(c, e)
        /\ blacklist[e] > BlacklistLimit
        /\ Exported(c, e)
        /\ UNCHANGED <<node, tables, loop, running, savers, cache, blacklist,
                       used>>

MarkOrphanedBlocks(c) ==
    /\ checks[c].pc = "export"
    /\ checks[c].todo = {}
    /\ blocks' = UpdateCanonicalBlocks(blocks, checks[c].start, checks[c].head,
                                       checks[c].seen)
    /\ Goto(c, "finalize")
    /\ UNCHANGED <<node, duties, epochs, loop, running, savers, cache,
                   blacklist, used>>

\* The transaction of UpdateCanonicalBlocks fails: it is logged.
MarkFails(c) ==
    /\ checks[c].pc = "export"
    /\ checks[c].todo = {}
    /\ used.faults < MaxFaults
    /\ Goto(c, "finalize")
    /\ used' = [used EXCEPT !.faults = @ + 1]
    /\ UNCHANGED <<node, tables, loop, running, savers, cache, blacklist>>

\* Faulty: everything up to the head is flagged.
FinalizeToHead(c) ==
    LET flagged == {e \in Epochs : epochs[e] = "finalized"}
    IN  /\ checks[c].pc = "finalize"
        /\ epochs' = [e \in Epochs |->
                IF /\ epochs[e] # "absent"
                   /\ e <= checks[c].head
                   /\ flagged # {}
                   /\ e >= Max(flagged)
                THEN "finalized"
                ELSE epochs[e]]
        /\ CheckEnds(c)
        /\ UNCHANGED <<node, blocks, duties, loop, savers, cache, blacklist,
                       used>>

\* Faulty: only the epoch that was finalized last is flagged.
FinalizeLast(c) ==
    LET flagged == {e \in Epochs : epochs[e] = "finalized"}
    IN  /\ checks[c].pc = "finalize"
        /\ epochs' = [e \in Epochs |->
                IF epochs[e] # "absent" /\ e = checks[c].fin /\ flagged # {}
                THEN "finalized"
                ELSE epochs[e]]
        /\ CheckEnds(c)
        /\ UNCHANGED <<node, blocks, duties, loop, savers, cache, blacklist,
                       used>>

(***************************************************************************)
(* UpdateEpochFinalization: the epochs between the last one flagged and    *)
(* the finalized one.  With no flagged epoch the bound is NULL and the     *)
(* statement updates nothing.                                              *)
(***************************************************************************)
UpdateEpochFinalization(c) ==
    LET flagged == {e \in Epochs : epochs[e] = "finalized"}
    IN  /\ checks[c].pc = "finalize"
        /\ epochs' = [e \in Epochs |->
                IF /\ epochs[e] # "absent"
                   /\ e <= checks[c].fin
                   /\ flagged # {}
                   /\ e >= Max(flagged)
                THEN "finalized"
                ELSE epochs[e]]
        /\ CheckEnds(c)
        /\ UNCHANGED <<node, blocks, duties, loop, savers, cache, blacklist,
                       used>>

-----------------------------------------------------------------------------
(* The goroutine of ExportEpoch and SaveEpoch *)

MuxFree == \A g \in Savers : savers[g].pc \in {"idle", "waiting"}

SaverEnds(g) == savers' = [savers EXCEPT ![g] = IdleSaver]

\* SaveEpoch finds in its cache that these roots were saved last.
SkipUnchanged(g) ==
    /\ savers[g].pc = "waiting"
    /\ MuxFree
    /\ cache[savers[g].epoch] = savers[g].data
    /\ SaverEnds(g)
    /\ UNCHANGED <<node, tables, loop, running, checks, cache, blacklist, used>>

\* Faulty: the upsert also writes the finalized column.
SaveEpochResets(g) ==
    LET e == savers[g].epoch
        data == savers[g].data
    IN  /\ savers[g].pc = "waiting"
        /\ MuxFree
        /\ blocks' = SaveBlocks(blocks, data)
        /\ duties' = AssignProposers(SaveBlockDuties(duties, blocks, data),
                                     SlotsOf(e))
        /\ epochs' = [epochs EXCEPT ![e] = "open"]
        /\ savers' = [savers EXCEPT ![g].pc = "delete00"]
        /\ UNCHANGED <<node, loop, running, checks, cache, blacklist, used>>

\* The transaction of SaveEpoch, with saveEpochMux held until the goroutine ends.
\* It also runs on unchanged roots, when the cache entry is older than an hour.
SaveEpoch(g) ==
    LET e == savers[g].epoch
        data == savers[g].data
    IN  /\ savers[g].pc = "waiting"
        /\ MuxFree
        /\ blocks' = SaveBlocks(blocks, data)
        /\ duties' = AssignProposers(SaveBlockDuties(duties, blocks, data),
                                     SlotsOf(e))
        /\ epochs' = [epochs EXCEPT ![e] = IF @ = "absent" THEN "open" ELSE @]
        /\ savers' = [savers EXCEPT ![g].pc = "delete00"]
        /\ UNCHANGED <<node, loop, running, checks, cache, blacklist, used>>

\* Faulty: the error return leaves saveEpochMux locked.
CleanupRefusedLocked(g) ==
    /\ savers[g].pc = "delete00"
    /\ savers[g].epoch < CleanupBack
    /\ UNCHANGED vars

\* The cleanup: data.Epoch-3 is unsigned, and the driver refuses the huge
\* number an early epoch gives, so that SaveEpoch ends with an error.
CleanupRefused(g) ==
    /\ savers[g].pc = "delete00"
    /\ savers[g].epoch < CleanupBack
    /\ SaverEnds(g)
    /\ UNCHANGED <<node, tables, loop, running, checks, cache, blacklist, used>>

DeleteScheduled(g) ==
    /\ savers[g].pc = "delete00"
    /\ savers[g].epoch >= CleanupBack
    /\ blocks' = DeleteDuplicates(blocks, savers[g].epoch - CleanupBack, Root00)
    /\ savers' = [savers EXCEPT ![g].pc = "delete01"]
    /\ UNCHANGED <<node, duties, epochs, loop, running, checks, cache,
                   blacklist, used>>

\* Faulty: only the scheduled placeholders are cleaned up.
DeleteMissedForgotten(g) ==
    /\ savers[g].pc = "delete01"
    /\ cache' = [cache EXCEPT ![savers[g].epoch] = savers[g].data]
    /\ SaverEnds(g)
    /\ UNCHANGED <<node, tables, loop, running, checks, blacklist, used>>

DeleteMissed(g) ==
    /\ savers[g].pc = "delete01"
    /\ blocks' = DeleteDuplicates(blocks, savers[g].epoch - CleanupBack, Root01)
    /\ cache' = [cache EXCEPT ![savers[g].epoch] = savers[g].data]
    /\ SaverEnds(g)
    /\ UNCHANGED <<node, duties, epochs, loop, running, checks, blacklist, used>>

\* Bigtable, the transaction or a cleanup statement fails: it is only logged.
SaverFails(g) ==
    /\ savers[g].pc # "idle"
    /\ savers[g].pc = "waiting" => MuxFree
    /\ used.faults < MaxFaults
    /\ SaverEnds(g)
    /\ used' = [used EXCEPT !.faults = @ + 1]
    /\ UNCHANGED <<node, tables, loop, running, checks, cache, blacklist>>

-----------------------------------------------------------------------------
\* The process dies and starts again; head events while it is down are lost.
Crash ==
    /\ used.crashes < MaxCrashes
    /\ announce' \in {FALSE, announce}
    /\ newBlocks' = <<>>
    /\ inHand' = <<>>
    /\ lastSlot' = 0
    /\ running' = 0
    /\ checks' = [c \in Checkers |-> IdleCheck]
    /\ savers' = [g \in Savers |-> IdleSaver]
    /\ cache' = [e \in Epochs |-> <<>>]
    /\ blacklist' = [e \in Epochs |-> 0]
    /\ used' = [used EXCEPT !.crashes = @ + 1]
    /\ UNCHANGED <<clock, chain, finalized, tables>>

-----------------------------------------------------------------------------
NodeStep == Tick \/ Reorg \/ Finalize
LoopStep ==
    PushHead \/ DropHead \/ ReceiveBlock \/ SaveBlock \/ SaveBlockFails
CheckStep(c) ==
    \/ LoadRunning(c) \/ StoreRunning(c) \/ ReadHead(c) \/ ReadDb(c)
    \/ ReadNode(c) \/ Plan(c) \/ ExportEpoch(c)
    \/ SkipBlacklisted(c) \/ MarkOrphanedBlocks(c)
    \/ UpdateEpochFinalization(c)
CheckFault(c) == RequestFails(c) \/ ExportFails(c) \/ MarkFails(c)
SaverStep(g) ==
    \/ SkipUnchanged(g) \/ SaveEpoch(g) \/ CleanupRefused(g)
    \/ DeleteScheduled(g) \/ DeleteMissed(g)

Next ==
    \/ NodeStep
    \/ LoopStep
    \/ \E c \in Checkers : CheckStep(c) \/ CheckFault(c)
    \/ \E g \in Savers : SaverStep(g) \/ SaverFails(g)
    \/ Crash

Spec == Init /\ [][Next]_vars

(***************************************************************************)
(* The Go scheduler runs every goroutine that is not blocked, and a mutex  *)
(* waiter is not starved (the starvation mode of sync.Mutex), which asks   *)
(* for strong fairness of the saver that may find the mutex taken.         *)
(***************************************************************************)
Fairness ==
    /\ \A c \in Checkers : WF_vars(CheckStep(c))
    /\ \A g \in Savers : SF_vars(SaverStep(g))
    /\ WF_vars(SaveBlock)
    /\ WF_vars(ReceiveBlock)

FairSpec == Spec /\ Fairness

-----------------------------------------------------------------------------
(* Properties *)

\* Every variable stays in the set of values its Go type and column allow.
TypeOK ==
    /\ clock \in Slots
    /\ chain \in [Slots -> BlockRoots \cup {NoBlock}]
    /\ finalized \in Epochs
    /\ announce \in BOOLEAN
    /\ blocks \in [Slots -> [Roots -> BlockStatus]]
    /\ duties \in [Slots -> DutyStatus]
    /\ epochs \in [Epochs -> {"absent", "open", "finalized"}]
    /\ newBlocks \in Seq(Block)
    /\ inHand \in Seq(Block)
    /\ lastSlot \in Slots
    /\ running \in {0, 1}
    /\ checks \in [Checkers -> CheckState]
    /\ savers \in [Savers -> SaverState]
    /\ cache \in [Epochs -> EpochData \cup {<<>>}]
    /\ blacklist \in [Epochs -> Nat]
    /\ used \in [reorgs : Nat, faults : Nat, crashes : Nat]

\* An epoch the database lists has a row for each of its slots, whatever the
\* loop, the checks and the cleanup of other epochs did since it was saved:
\* the placeholder of a slot is only deleted for another row of that slot.
ListedEpochComplete ==
    \A e \in ExportedEpochs : \A s \in SlotsOf(e) : Present(blocks[s]) # {}

\* The placeholder insert of saveBlocks replaces the earlier placeholder, so a
\* slot never holds the row "scheduled" and the row "missed" together.
OnePlaceholder ==
    \A s \in Slots : Cardinality(Present(blocks[s]) \cap Placeholders) <= 1

\* The status column agrees with the kind of row: UpdateCanonicalBlocks turns
\* proposed blocks into orphaned ones and back, and never touches placeholders.
StatusMatchesRoot ==
    \A s \in Slots : \A r \in Roots :
        blocks[s][r] \in IF r \in Placeholders
                         THEN {"absent", StatusOf(r)}
                         ELSE {"absent", "proposed", "orphaned"}

\* A proposed block beside a placeholder is seen only while the saver that put
\* the placeholder there has not finished its cleanup, unless the cleanup was
\* refused (first epochs), failed or died.
NoStrayPlaceholder ==
    used.faults = 0 /\ used.crashes = 0 =>
        \A s \in Slots :
            \/ EpochOfSlot(s) < CleanupBack
            \/ Present(blocks[s]) \cap Placeholders = {}
            \/ Present(blocks[s]) \cap BlockRoots = {}
            \/ \E g \in Savers : /\ savers[g].pc \in {"delete00", "delete01"}
                                 /\ savers[g].epoch = EpochOfSlot(s)

\* A row flagged finalized is an epoch the node has finalized, even when the
\* flag is set by a check that started long ago or by a slow one after a crash.
FlaggedIsFinalized ==
    \A e \in Epochs : epochs[e] = "finalized" /\ e > 0 => e <= finalized

\* No step loses a proposed block, and no step takes a finalized flag back:
\* an epoch exported again by a stale check keeps its flag.
KeepsBlocksAndFlags ==
    [][/\ \A s \in Slots : \A r \in BlockRoots :
            blocks[s][r] # "absent" => blocks'[s][r] # "absent"
       /\ \A e \in Epochs : epochs[e] = "finalized" => epochs'[e] = "finalized"
      ]_vars

\* A full check that was launched ends, whatever the node answers: the loop
\* that waits for a free goroutine is the only wait in it.
CheckTerminates ==
    \A c \in Checkers : checks[c].pc # "off" ~> checks[c].pc = "off"

\* A goroutine of ExportEpoch gets saveEpochMux and ends.
SaverTerminates ==
    \A g \in Savers : savers[g].pc # "idle" ~> savers[g].pc = "idle"

\* No goroutine of the export stays: neither a full check, which would leave
\* fullCheckRunning set, nor a saver, which would leave the mutex locked.
GoroutinesEnd == CheckTerminates /\ SaverTerminates

\* Whatever is interleaved, fails or crashes, the tables change as EpochTable
\* says: a block or a whole epoch at a time, nothing lost, and no listed epoch
\* left out below a flag that is set later (UpdateEpochFinalization).
Table == INSTANCE EpochTable WITH
    listed  <- ExportedEpochs,
    flagged <- {e \in Epochs : epochs[e] = "finalized"},
    shown   <- {s \in Slots : Present(blocks[s]) # {}},
    known   <- {b \in Block : blocks[b[1]][b[2]] # "absent"}

ImplementsEpochTable == Table!Spec

-----------------------------------------------------------------------------
(* What comments of the code say and the code does not do *)

\* tables.sql, proposal_assignments.status: the duty of a slot whose block the
\* table holds as proposed is "executed".
ProposedIsExecuted ==
    \A s \in Slots :
        (\E r \in BlockRoots : blocks[s][r] = "proposed") =>
            duties[s] = "proposed"
=============================================================================
