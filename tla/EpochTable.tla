----------------------------- MODULE EpochTable -----------------------------
(***************************************************************************)
(* What the exporter promises to those who read the tables `epochs` and    *)
(* `blocks` (the web pages, the statistics, the notifications): rows are   *)
(* added one block or one whole epoch at a time and are never lost, and    *)
(* the finalized flags follow the node without leaving an epoch out.       *)
(* Goroutines, requests and crashes have no place here; ChainSync          *)
(* implements this specification.                                          *)
(***************************************************************************)
EXTENDS Integers

CONSTANTS
    MaxSlot,        \* bound: the last slot of the modelled chain
    SlotsPerEpoch,
    BlockRoots      \* the roots a proposed block of a slot can have

EpochTableAssumption ==
    /\ MaxSlot \in Nat
    /\ SlotsPerEpoch \in Nat \ {0}

Slots == 0 .. MaxSlot
Epochs == 0 .. MaxSlot \div SlotsPerEpoch
SlotsOf(e) == {s \in Slots : s \div SlotsPerEpoch = e}
NoBlock == "no block"

VARIABLES
    finalized,  \* the epoch the node has finalized
    listed,     \* the epochs that have a row
    flagged,    \* those whose row says finalized
    shown,      \* the slots that have a row, be it a placeholder
    known       \* the blocks that have a row, as <<slot, root>>

vars == <<finalized, listed, flagged, shown, known>>

\* An empty database, or one that was stopped after epoch 0.
Init ==
    /\ finalized = 0
    /\ listed \in {{}, {0}}
    /\ flagged = listed
    /\ shown = IF listed = {} THEN {} ELSE SlotsOf(0)
    /\ known = {}

Finalize ==
    /\ finalized' = finalized + 1
    /\ UNCHANGED <<listed, flagged, shown, known>>

\* A head block is saved.
AddBlock(s, r) ==
    /\ shown' = shown \cup {s}
    /\ known' = known \cup {<<s, r>>}
    /\ UNCHANGED <<finalized, listed, flagged>>

\* An epoch is saved: at most one new block for a slot, a row for every slot.
AddEpoch(e) ==
    /\ listed' = listed \cup {e}
    /\ shown' = shown \cup SlotsOf(e)
    /\ \E data \in [SlotsOf(e) -> BlockRoots \cup {NoBlock}] :
        known' = known \cup {b \in SlotsOf(e) \X BlockRoots : data[b[1]] = b[2]}
    /\ UNCHANGED <<finalized, flagged>>

\* The flags are set from the last one on up to a finalized epoch, with every
\* listed epoch between them.
Flag(last) ==
    /\ last <= finalized
    /\ \E first \in flagged :
        /\ \A e \in flagged : e <= first
        /\ flagged' = flagged \cup {e \in listed : first <= e /\ e <= last}
    /\ UNCHANGED <<finalized, listed, shown, known>>

Next ==
    \/ Finalize
    \/ \E s \in Slots, r \in BlockRoots : AddBlock(s, r)
    \/ \E e \in Epochs : AddEpoch(e) \/ Flag(e)

Spec == Init /\ [][Next]_vars
=============================================================================
