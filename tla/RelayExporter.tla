--------------------------- MODULE RelayExporter ---------------------------
(***************************************************************************)
(* exporter/relays.go, for one relay: exportRelayBlocks walks the payloads *)
(* the relay has delivered, newest first, page by page, and stores those   *)
(* whose block is in the blocks table.  The newest payload stored tells    *)
(* the next walk how far down it has to go.                                *)
(*                                                                         *)
(* A payload is named by its slot.                                         *)
(***************************************************************************)
EXTENDS Integers, FiniteSetsExt

CONSTANTS
  MaxPayload,     \* bound: slots 1 .. MaxPayload have a payload
  PageSize,       \* payloads in an answer, 100 in the code
  Overlap,        \* slots below the newest stored payload that are walked again, 10
  MaxRelayFaults  \* bound: calls and statements that fail

VARIABLES
  delivered,      \* relay: payloads it lists
  blocks,         \* table blocks: slots whose block is stored
  used,           \* table relays_blocks (and blocks_tags): payloads stored
  walk,           \* "idle", "new" (from the head), "old" (below the oldest one)
  low, offset,    \* low_bound and the cursor of retrieveAndInsertPayloadsFromRelay
  inserted,       \* rows of its open transaction
  due,            \* history: payloads the walk has to find
  relayFaults

RelayAssumption ==
  {MaxPayload, Overlap, MaxRelayFaults} \subseteq Nat /\ PageSize \in Nat \ {0}

relayVars == <<delivered, blocks, used, walk, low, offset, inserted, due, relayFaults>>

Payloads == 1 .. MaxPayload
Newest == IF used = {} THEN 0 ELSE Max(used)

TypeOK ==
  /\ delivered \subseteq Payloads /\ blocks \subseteq Payloads
  /\ used \subseteq delivered \cap blocks /\ inserted \subseteq delivered \cap blocks
  /\ walk \in {"idle", "new", "old"}
  /\ low \in 0 .. MaxPayload /\ offset \in 0 .. MaxPayload
  /\ due \subseteq Payloads /\ relayFaults \in 0 .. MaxRelayFaults

Init ==
  /\ delivered = {} /\ blocks = {} /\ used = {}
  /\ walk = "idle" /\ low = 0 /\ offset = 0 /\ inserted = {}
  /\ due = {} /\ relayFaults = 0

\* The relay lists a payload newer than those it has.
Deliver(s) ==
  /\ \A p \in delivered : p < s
  /\ delivered' = delivered \cup {s}
  /\ UNCHANGED <<blocks, used, walk, low, offset, inserted, due, relayFaults>>

\* The chain export stores a block; an epoch that failed comes late.
StoreBlock(s) ==
  /\ s \notin blocks
  /\ blocks' = blocks \cup {s}
  /\ UNCHANGED <<delivered, used, walk, low, offset, inserted, due, relayFaults>>

MinSlot == IF low > Overlap THEN low - Overlap ELSE 0

\* The payloads this walk has to store: those whose block is there, from the
\* slots it walks again or below the oldest one stored.
Due == {p \in delivered \cap blocks :
          p + Overlap >= Newest \/ \A q \in used : p < q}

\* exportRelayBlocks.  When the newest row cannot be read, none is assumed.
Start(readFails) ==
  /\ walk = "idle"
  /\ IF readFails THEN relayFaults < MaxRelayFaults /\ relayFaults' = relayFaults + 1
                  ELSE UNCHANGED relayFaults
  /\ walk' = "new" /\ offset' = 0 /\ inserted' = {}
  /\ low' = IF readFails THEN 0 ELSE Newest
  /\ due' = Due
  /\ UNCHANGED <<delivered, blocks, used>>

\* An answer: the newest payloads up to the cursor.
Page ==
  LET listed == {p \in delivered : offset = 0 \/ p <= offset}
  IN {p \in listed : Cardinality({q \in listed : q > p}) < PageSize}

\* The walk is over when the page reaches below the slots it is for, or is not full.
LastPage == Cardinality(Page) < PageSize \/ \E p \in Page : p < MinSlot

\* A page that is not the last one.  A slot has one payload of a relay, so a
\* full page ends below its cursor; relays.go:209 gives up when it does not.
Walk ==
  /\ walk # "idle" /\ ~LastPage
  /\ inserted' = inserted \cup (Page \cap blocks)
  /\ offset' = Min(Page)
  /\ UNCHANGED <<delivered, blocks, used, walk, low, due, relayFaults>>

\* The last page and the commit; the walk from the head is followed by one
\* from the oldest payload stored down to the first.
Finish ==
  /\ walk # "idle" /\ LastPage
  /\ used' = used \cup inserted \cup (Page \cap blocks)
  /\ IF walk = "new" /\ used' # {}
     THEN walk' = "old" /\ low' = 0 /\ offset' = Min(used')
     ELSE walk' = "idle" /\ low' = 0 /\ offset' = 0
  /\ inserted' = {}
  /\ UNCHANGED <<delivered, blocks, due, relayFaults>>

\* A request, a statement or the commit fails: the transaction is rolled back
\* and the next walk, a minute later, starts again.  The second walk can also
\* be left out, when the oldest row cannot be read.
Fail ==
  /\ walk # "idle"
  /\ relayFaults < MaxRelayFaults /\ relayFaults' = relayFaults + 1
  /\ walk' = "idle" /\ low' = 0 /\ offset' = 0 /\ inserted' = {} /\ due' = {}
  /\ UNCHANGED <<delivered, blocks, used>>

Export == Start(FALSE) \/ Walk \/ Finish

Next ==
  \/ \E s \in Payloads : Deliver(s) \/ StoreBlock(s)
  \/ Export \/ Start(TRUE) \/ Fail

\* A walk that ends well has stored every payload that was listed, with its
\* block, in the slots it is to cover when it began: pages that overlap in
\* their border payload and payloads that are delivered meanwhile leave none
\* out (relays.go:132-134, :199-211).
WalkIsComplete == walk = "idle" => due \subseteq used

\* Again and again every payload is stored whose block came in time, while the
\* newest one stored was not more than Overlap slots ahead, or that is below the
\* oldest one.  One that comes later is in a gap no walk goes to again.
InTimeIsStored == []<>(walk = "idle" /\ Due \subseteq used)
=============================================================================
