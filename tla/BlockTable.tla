----------------------------- MODULE BlockTable -----------------------------
(***************************************************************************)
(* The tables of db/db.go that the beacon chain exporter writes, and the   *)
(* statements it runs on them: `blocks` (primary key slot, blockroot) and  *)
(* `proposal_assignments` (one row per proposer slot).                     *)
(*                                                                         *)
(* A table is a function and a statement is an operator from a table to    *)
(* the table after it.  A block is named by its slot and its root; its     *)
(* body is left out.  The roots 0x00 and 0x01 are the placeholders that    *)
(* stand for a slot still to come and for a slot without a block.          *)
(***************************************************************************)
EXTENDS Integers

CONSTANTS
    MaxSlot,        \* bound: the last slot of the modelled chain
    SlotsPerEpoch,  \* Config.Chain.Config.SlotsPerEpoch
    BlockRoots,     \* the roots a proposed block of a slot can have
    CleanupBack     \* 3 in the code: how many epochs back the cleanup looks

ASSUME SlotAssumption ==
    /\ MaxSlot \in Nat
    /\ SlotsPerEpoch \in Nat \ {0}
    /\ CleanupBack \in Nat

Root00 == "root 0x00"
Root01 == "root 0x01"
NoBlock == "no block"

ASSUME RootAssumption == {Root00, Root01, NoBlock} \cap BlockRoots = {}

Slots == 0 .. MaxSlot
EpochOfSlot(s) == s \div SlotsPerEpoch
Epochs == 0 .. EpochOfSlot(MaxSlot)
SlotsOf(e) == {s \in Slots : EpochOfSlot(s) = e}

Placeholders == {Root00, Root01}
Roots == BlockRoots \cup Placeholders

\* blocks.status and proposal_assignments.status; "absent" is a row not there
BlockStatus == {"absent", "scheduled", "proposed", "missed", "orphaned"}
DutyStatus == {"absent", "scheduled", "proposed", "missed"}

\* The status a block carries when the client hands it to the database.
StatusOf(r) ==
    CASE r = Root00 -> "scheduled"
      [] r = Root01 -> "missed"
      [] OTHER -> "proposed"

EmptyBlocks == [s \in Slots |-> [r \in Roots |-> "absent"]]
EmptyDuties == [s \in Slots |-> "absent"]

Present(rows) == {r \in Roots : rows[r] # "absent"}

\* Faulty: the placeholders of the slot are not deleted.
InsertBlockBeside(rows, r) ==
    IF rows[r] # "absent" THEN rows ELSE [rows EXCEPT ![r] = StatusOf(r)]

(***************************************************************************)
(* saveBlocks on the rows of one slot: a root already there is skipped;    *)
(* otherwise the placeholders of the slot are deleted and the row is       *)
(* inserted with the status the block carries.                             *)
(***************************************************************************)
InsertBlock(rows, r) ==
    IF rows[r] # "absent"
    THEN rows
    ELSE [q \in Roots |->
            IF q = r THEN StatusOf(r)
            ELSE IF q \in Placeholders THEN "absent"
            ELSE rows[q]]

\* saveBlocks, the assignment's half: written only for a row just inserted.
RecordDuty(duty, rows, r) ==
    IF rows[r] # "absent" THEN duty ELSE StatusOf(r)

\* saveBlocks for the blocks of `data`, a function from slots to roots.
SaveBlocks(table, data) ==
    [s \in Slots |->
        IF s \in DOMAIN data THEN InsertBlock(table[s], data[s]) ELSE table[s]]

SaveBlockDuties(duties, table, data) ==
    [s \in Slots |->
        IF s \in DOMAIN data
        THEN RecordDuty(duties[s], table[s], data[s])
        ELSE duties[s]]

\* saveValidatorProposalAssignments: ON CONFLICT DO NOTHING.
AssignProposers(duties, slots) ==
    [s \in Slots |->
        IF s \in slots /\ duties[s] = "absent" THEN "scheduled" ELSE duties[s]]

\* Faulty: without the count of the rows of the slot.
DeleteAll(table, fromEpoch, placeholder) ==
    [s \in Slots |->
        IF EpochOfSlot(s) >= fromEpoch
        THEN [table[s] EXCEPT ![placeholder] = "absent"]
        ELSE table[s]]

(***************************************************************************)
(* The two DELETEs that end SaveEpoch: the placeholder row of a slot goes  *)
(* when the slot has another row.                                          *)
(***************************************************************************)
DeleteDuplicates(table, fromEpoch, placeholder) ==
    [s \in Slots |->
        IF /\ EpochOfSlot(s) >= fromEpoch
           /\ \E q \in Roots \ {placeholder} : table[s][q] # "absent"
        THEN [table[s] EXCEPT ![placeholder] = "absent"]
        ELSE table[s]]

\* Faulty: every row of the window is orphaned first, placeholders included.
UpdateCanonicalBlocksAll(table, startEpoch, endEpoch, seen) ==
    [s \in Slots |-> [r \in Roots |->
        IF table[s][r] = "absent" THEN "absent"
        ELSE IF <<s, r>> \in seen THEN "proposed"
        ELSE IF /\ EpochOfSlot(s) \in startEpoch .. endEpoch
                /\ \E b \in seen : s <= b[1]
             THEN "orphaned"
             ELSE table[s][r]]]

\* Faulty: a block that became canonical again stays orphaned.
UpdateCanonicalBlocksOnce(table, startEpoch, endEpoch, seen) ==
    [s \in Slots |-> [r \in Roots |->
        IF /\ EpochOfSlot(s) \in startEpoch .. endEpoch
           /\ table[s][r] = "proposed"
           /\ <<s, r>> \notin seen
           /\ \E b \in seen : s <= b[1]
        THEN "orphaned"
        ELSE table[s][r]]]

(***************************************************************************)
(* UpdateCanonicalBlocks: `seen` is the set of <<slot, root>> the node     *)
(* answered.  Nothing happens when the node answered no block; rows above  *)
(* the last slot it answered are left alone.                               *)
(***************************************************************************)
UpdateCanonicalBlocks(table, startEpoch, endEpoch, seen) ==
    [s \in Slots |-> [r \in Roots |->
        IF <<s, r>> \in seen /\ table[s][r] # "absent" THEN "proposed"
        ELSE IF /\ EpochOfSlot(s) \in startEpoch .. endEpoch
                /\ table[s][r] \in {"proposed", "orphaned"}
                /\ \E b \in seen : s <= b[1]
             THEN "orphaned"
             ELSE table[s][r]]]

\* GetLastPendingAndProposedBlocks: every row of the epochs but the missed.
PendingAndProposed(table, startEpoch, endEpoch) ==
    {b \in Slots \X (Roots \ {Root01}) :
        /\ EpochOfSlot(b[1]) \in startEpoch .. endEpoch
        /\ table[b[1]][b[2]] # "absent"}
=============================================================================
