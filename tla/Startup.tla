------------------------------ MODULE Startup ------------------------------
(***************************************************************************)
(* What the exporter does before its monitoring loop (exporter.go, Start): *)
(* it waits for the node and then runs the repairs its configuration asks  *)
(* for, one after the other.  An epoch is one slot here, and the node's    *)
(* chain does not change.  ExportEpoch leaves the save of an epoch to a    *)
(* goroutine that goes on while Start continues; the saves take a lock,    *)
(* and their errors are only logged.                                       *)
(*                                                                         *)
(* Epochs are unsigned: the loop of the canon check counts down and its    *)
(* condition holds for every number, so it never ends.                     *)
(***************************************************************************)
EXTENDS Integers, FiniteSetsExt

CONSTANTS
  HeadOfNode,   \* the epoch of the node's head
  MaxRepairs,   \* bound: repairs that are switched on at once
  MaxLapses     \* bound: failed requests and saves

StartupAssumption == HeadOfNode \in Nat \ {0} /\ {MaxRepairs, MaxLapses} \subseteq Nat

AllEpochs == 0 .. HeadOfNode

\* The root of a block, the placeholder of a slot to come and that of a missed one.
RootKinds == {"block", "scheduled", "missed"}

VARIABLES
  config,    \* the repairs that are switched on
  chainOf,   \* the node: the epochs that have a block
  rowsOf,    \* blocks: the roots of the rows of each epoch
  epochRows, \* epochs: those that have a row
  rated,     \* epochs whose row holds the participation
  stepOf,    \* where Start is
  agenda,    \* the epochs it is still going to export, in their order
  saving,    \* the goroutines of ExportEpoch: the epochs they save
  knownThen, \* history: epochRows when the missing epochs were looked for
  lapses, lapsed   \* failures, and history: the epochs whose export or save failed

startVars == <<config, chainOf, rowsOf, epochRows, rated, stepOf, agenda, saving, knownThen, lapses,
              lapsed>>
startTables == <<rowsOf, epochRows, rated>>

Repairs == {"full", "canon", "missing", "check", "statistics"}
Phases == <<"wait", "full", "canon", "missing", "check", "statistics", "loop">>

Rest ==
  /\ rated = {} /\ stepOf = "wait" /\ agenda = {} /\ saving = {}
  /\ knownThen = {} /\ lapses = 0 /\ lapsed = {}

\* The variables of a run about other components.
Idle ==
  /\ config = {} /\ chainOf = AllEpochs /\ epochRows = {} /\ rowsOf = [e \in AllEpochs |-> {}]
  /\ Rest

\* A scheduled row was written before its slot; a block need not be canonical.
Init ==
  /\ config \in UNION {kSubset(n, Repairs) : n \in 0 .. MaxRepairs}
  /\ chainOf \in {c \in SUBSET AllEpochs : {0, HeadOfNode} \subseteq c}
  /\ epochRows \in SUBSET AllEpochs
  /\ rowsOf \in [AllEpochs -> {{}, {"block"}, {"scheduled"}, {"missed"}}]
  /\ \A e \in AllEpochs :
       /\ rowsOf[e] = {} <=> e \notin epochRows
       /\ "scheduled" \in rowsOf[e] => e = HeadOfNode
  /\ Rest

Lapse(epochs) == lapses < MaxLapses /\ lapses' = lapses + 1 /\ lapsed' = lapsed \cup epochs
NoLapse == UNCHANGED <<lapses, lapsed>>

\* The repair that is run after one, or the loop; statistics end in it.
NextPhase(phase) ==
  LET at == CHOOSE i \in DOMAIN Phases : Phases[i] = phase
  IN Phases[Min({i \in DOMAIN Phases : i > at /\ (Phases[i] \in config \/ Phases[i] = "loop")})]

----------------------------------------------------------------------------
(* What each repair exports *)
\* Slip: an epoch that is missing next to another one that is missing is left out.
OddGaps(known) ==
  {e \in AllEpochs : e \notin known /\ e - 1 \in known /\ e + 1 \in known}

\* Each gap between two epochs of the table, with both its ends.  Epoch 0 is
\* exported by itself when the table begins later, and then counts as known.
MissingIn(known) ==
  LET first == IF known # {} /\ 0 \notin known THEN {0} ELSE {}
      all == known \cup first
      Gap(e, f) == e + 1 < f /\ (e + 1 .. f - 1) \cap all = {}
  IN first \cup UNION {p[1] .. p[2] : p \in {q \in all \X all : Gap(q[1], q[2])}}

\* The check compares every row that is not of a missed slot with the blocks of the
\* node, from epoch 1 on; the root of a row that only the table has is compared
\* with that of no block when it is the placeholder of a scheduled slot.
Compared == 1 .. HeadOfNode
Strays == {e \in Compared : "scheduled" \in rowsOf[e]}
Differing ==
  {e \in Compared : (e \in chainOf) # ("block" \in rowsOf[e])}

Planned(phase) ==
  CASE phase = "full" -> Compared
    [] phase = "missing" -> MissingIn(epochRows)
    [] phase = "check" -> Differing
    [] phase = "statistics" -> AllEpochs
    [] OTHER -> {}

Enter(phase) ==
  /\ stepOf' = phase /\ agenda' = Planned(phase)
  /\ knownThen' = IF phase = "missing" THEN epochRows ELSE knownThen

----------------------------------------------------------------------------
(* Start *)
\* A request for the head that fails is repeated before the first repair.
NodeAnswers ==
  /\ stepOf = "wait" /\ Enter(NextPhase("wait"))
  /\ UNCHANGED <<config, chainOf, startTables, saving, lapses, lapsed>>

\* The check stops the process with a nil block of the node when it meets the
\* row of a scheduled slot.
CheckPanics ==
  /\ stepOf = "check" /\ Strays # {} /\ stepOf' = "down" /\ agenda' = {} /\ saving' = {}
  /\ UNCHANGED <<config, chainOf, knownThen, startTables, lapses, lapsed>>

\* Each repair asks for the head or the tables first, and an error is fatal.
RepairFails ==
  /\ stepOf \in Repairs /\ Lapse({})
  /\ stepOf' = "down" /\ agenda' = {} /\ saving' = {}
  /\ UNCHANGED <<config, chainOf, knownThen, startTables>>

Exporting == {"full", "missing", "check"}
Survives == stepOf = "check" => Strays = {}

\* ExportEpoch, in the order of the epochs.
ExportNext ==
  /\ stepOf \in Exporting /\ Survives /\ agenda # {}
  /\ \/ saving' = saving \cup {Min(agenda)} /\ NoLapse
     \/ Lapse({Min(agenda)}) /\ UNCHANGED saving
  /\ agenda' = agenda \ {Min(agenda)}
  /\ UNCHANGED <<config, chainOf, knownThen, startTables, stepOf>>

RepairEnds ==
  /\ stepOf \in Exporting \cup {"statistics"} /\ Survives /\ agenda = {}
  /\ Enter(NextPhase(stepOf))
  /\ UNCHANGED <<config, chainOf, startTables, saving, lapses, lapsed>>

\* The node client has no statuses to give, so that no row is changed.
FixCanon ==
  stepOf = "canon" /\ UNCHANGED startVars

\* updateEpochStatus: the head and an epoch that cannot be read are left out; an
\* error of the update is fatal.  The row may not be there.
Rate ==
  /\ stepOf = "statistics" /\ agenda # {}
  /\ \/ /\ NoLapse /\ agenda' = agenda \ {Min(agenda)}
        /\ rated' = rated \cup (({Min(agenda)} \cap epochRows) \ {HeadOfNode})
     \/ Lapse({Min(agenda)}) /\ agenda' = agenda \ {Min(agenda)} /\ UNCHANGED rated
  /\ UNCHANGED <<config, chainOf, knownThen, rowsOf, epochRows, stepOf, saving>>

\* A save: the placeholders of the epoch go, what the node said is written.
\* The participation of the epoch is written with it.
SaveExported ==
  \E e \in saving :
    /\ saving' = saving \ {e}
    /\ \/ /\ rowsOf' = [rowsOf EXCEPT ![e] =
               (@ \cap {"block"}) \cup {IF e \in chainOf THEN "block" ELSE "missed"}]
          /\ epochRows' = epochRows \cup {e}
          /\ rated' = IF e = HeadOfNode THEN rated ELSE rated \cup {e}
          /\ NoLapse
       \/ Lapse({e}) /\ UNCHANGED startTables
    /\ UNCHANGED <<config, chainOf, knownThen, stepOf, agenda>>

Starting ==
  \/ NodeAnswers \/ CheckPanics \/ ExportNext \/ RepairEnds \/ FixCanon \/ Rate \/ RepairFails
Next == Starting \/ SaveExported

----------------------------------------------------------------------------
(* The variables have their types.                                         *)
TypeOK ==
  /\ config \subseteq Repairs /\ chainOf \subseteq AllEpochs /\ epochRows \subseteq AllEpochs
  /\ rowsOf \in [AllEpochs -> SUBSET RootKinds] /\ rated \subseteq epochRows
  /\ stepOf \in {Phases[i] : i \in DOMAIN Phases} \cup {"down"}
  /\ agenda \cup saving \cup lapsed \subseteq AllEpochs /\ lapses \in 0 .. MaxLapses

Unsaved == saving \cup lapsed

(* When the loop begins, the repairs that ran have done their work on each *)
(* epoch that neither failed nor is still being saved: no gap is left of   *)
(* those the table had when it was read, the blocks of the node have rows  *)
(* except in epoch 0, and every finished epoch has its participation       *)
(* (exporter.go:69-215).  The saves of the repair before may be under way  *)
(* when the table is read, and the check can leave a new gap.              *)
RepairsAreDone ==
  stepOf = "loop" =>
    /\ knownThen # {} => (0 .. Max(knownThen)) \ epochRows \subseteq Unsaved
    /\ "check" \in config =>
         \A e \in (Compared \cap chainOf) \ Unsaved : "block" \in rowsOf[e]
    /\ "full" \in config => Compared \ epochRows \subseteq Unsaved
    /\ "statistics" \in config => epochRows \ (rated \cup {HeadOfNode}) \subseteq Unsaved

(* Start reaches its loop or stops the process, unless the canon check is  *)
(* switched on; and no save is left (exporter.go:80-99).                   *)
StartReaches == "canon" \notin config => <>(stepOf \in {"loop", "down"} /\ saving = {})
=============================================================================
