----------------------------- MODULE Statistics -----------------------------
(***************************************************************************)
(* The statistics program: its loop (cmd/statistics/main.go), its run over *)
(* given days that an operator starts beside it, and the export of a day   *)
(* (WriteStatisticsForDay, db/statistics.go), while epochs are indexed.    *)
(*                                                                         *)
(* The rows of a day are the epochs that were there when they were read.   *)
(* A deposit is the slot of its block.                                     *)
(***************************************************************************)
EXTENDS Integers, FiniteSetsExt

CONSTANTS
  MaxDay,
  EpochsPerDay, SlotsPerEpoch,
  Ahead,          \* bound: an epoch may be indexed this many before its turn
  Seeded,         \* sets of days a database may start with
  MaxTools,       \* bound: runs over given days
  MaxStatFaults   \* bound: queries that fail, and programs that stop

StatisticsAssumption ==
  /\ {MaxDay, EpochsPerDay, SlotsPerEpoch, Ahead} \subseteq Nat \ {0}
  /\ {MaxTools, MaxStatFaults} \subseteq Nat
  /\ Seeded \subseteq SUBSET (0 .. MaxDay)

Days == 0 .. MaxDay
FirstEpoch(d) == d * EpochsPerDay
LastEpoch(d) == (d + 1) * EpochsPerDay - 1
EpochsOf(d) == FirstEpoch(d) .. LastEpoch(d)
\* Slip: the range ends with the first slot of the next day.
DepositsToNext(d) == FirstEpoch(d) * SlotsPerEpoch .. (LastEpoch(d) + 1) * SlotsPerEpoch
\* block_slot >= $1 * 32 and block_slot <= $2 * 32, of day 1 and later.
Deposits(d) == FirstEpoch(d) * SlotsPerEpoch .. LastEpoch(d) * SlotsPerEpoch

Idle == [pc |-> "idle", day |-> 0, upto |-> 0, read |-> {}]

VARIABLES
  indexed,    \* the epochs table, and the epochs' rows in Bigtable
  finished,   \* validator_stats_status
  stats,      \* validator_stats: the epochs that a day's rows were made of
  program,    \* the loop and the run over given days
  excused,    \* ghost: days that failed, and that a run over days passed over
  toolRuns, statFaults

vars == <<indexed, finished, stats, program, excused, toolRuns, statFaults>>

Programs == {"loop", "tool"}
DaysBelow(S) == {d \in Days : d \notin S /\ \E x \in S : x > d}
LatestEpoch == Max(indexed \cup {0})

Init ==
  \E S \in Seeded :
    /\ finished = S /\ excused = DaysBelow(S)
    /\ indexed = UNION {EpochsOf(d) : d \in S}
    /\ stats = [d \in Days |-> IF d \in S THEN EpochsOf(d) ELSE {}]
    /\ program = [p \in Programs |-> Idle]
    /\ toolRuns = 0 /\ statFaults = 0

Fault == statFaults < MaxStatFaults /\ statFaults' = statFaults + 1

\* The exporter saves epochs as they come, and those it misses later.
Index(e) ==
  /\ e \notin indexed /\ e <= LatestEpoch + 1 + Ahead
  /\ indexed' = indexed \cup {e}
  /\ UNCHANGED <<finished, stats, program, excused, toolRuns, statFaults>>

----------------------------------------------------------------------------
(* The loop and the run over given days *)

\* lastExportedDay, which is 0 for no day and for day 0.
FirstDay(last) == IF last = 0 THEN 0 ELSE last + 1
\* Slip: < for <=.
DueLater(first, previous) == first < previous
\* The days from lastExportedDay to previousDay, if any.
Due(first, previous) == first <= previous
\* COALESCE(max(day), 0), and 0 when the query fails.
Round ==
  LET previous == LatestEpoch \div EpochsPerDay - 1
      Starts(first) ==
        /\ Due(first, previous)
        /\ program' = [program EXCEPT !["loop"] =
             [pc |-> "day", day |-> first, upto |-> previous, read |-> {}]]
  IN /\ program["loop"].pc = "idle" /\ LatestEpoch >= EpochsPerDay
     /\ \/ Starts(FirstDay(Max(finished \cup {0}))) /\ UNCHANGED statFaults
        \/ Starts(FirstDay(0)) /\ Fault
     /\ UNCHANGED <<indexed, finished, stats, excused, toolRuns>>

StartTool(first, last) ==
  /\ program["tool"].pc = "idle" /\ toolRuns < MaxTools
  /\ program' = [program EXCEPT !["tool"] =
       [pc |-> "reset", day |-> first, upto |-> last, read |-> {}]]
  /\ toolRuns' = toolRuns + 1
  /\ UNCHANGED <<indexed, finished, stats, excused, statFaults>>

\* The run ends when the row cannot be deleted (Fatalf).
Reset ==
  /\ program["tool"].pc = "reset"
  /\ \/ /\ finished' = finished \ {program["tool"].day}
        /\ excused' = excused \cup {program["tool"].day}
        /\ program' = [program EXCEPT !["tool"].pc = "day"] /\ UNCHANGED statFaults
     \/ Fault /\ program' = [program EXCEPT !["tool"] = Idle] /\ UNCHANGED <<finished, excused>>
  /\ UNCHANGED <<indexed, stats, toolRuns>>

----------------------------------------------------------------------------
(* WriteStatisticsForDay *)

\* A day that is over, with an error or without: the next one.
NextDay(p) ==
  LET r == program[p]
  IN program' = [program EXCEPT ![p] =
       IF r.day = r.upto THEN Idle
       ELSE [r EXCEPT !.day = @ + 1, !.pc = IF p = "tool" THEN "reset" ELSE "day", !.read = {}]]

\* lastEpoch > latestDbEpoch delays the day.
HasEnded(d) == LastEpoch(d) <= LatestEpoch

\* The history of the epochs down to startEpoch - endEpoch is read with
\* i >= 0 for day 0: an unsigned i does not get there.
Read(p) ==
  LET d == program[p].day
  IN /\ program[p].pc = "day" /\ HasEnded(d)
     /\ program' = [program EXCEPT ![p].pc = IF d = 0 THEN "stuck" ELSE "write",
                                   ![p].read = indexed \cap EpochsOf(d)]
     /\ UNCHANGED <<indexed, finished, stats, excused, toolRuns, statFaults>>

\* The day has not ended, or a query of it fails.
FailDay(p) ==
  LET d == program[p].day
  IN /\ program[p].pc \in {"day", "write"}
     /\ IF program[p].pc = "day" /\ ~HasEnded(d) THEN UNCHANGED statFaults ELSE Fault
     /\ excused' = excused \cup {d}
     /\ NextDay(p)
     /\ UNCHANGED <<indexed, finished, stats, toolRuns>>

\* A day the tool has done excuses those before it.
Excuse(p, d) == IF p = "tool" THEN excused \cup 0 .. d - 1 ELSE excused

\* Slip: on conflict do nothing.
WriteDayAnyway(p) ==
  LET d == program[p].day
  IN /\ program[p].pc = "write"
     /\ finished' = finished \cup {d}
     /\ stats' = [stats EXCEPT ![d] = program[p].read]
     /\ excused' = Excuse(p, d)
     /\ NextDay(p)
     /\ UNCHANGED <<indexed, toolRuns, statFaults>>
\* The transaction: the rows of the day and its row in the status table,
\* whose primary key is the day.
WriteDay(p) ==
  LET d == program[p].day
  IN /\ program[p].pc = "write"
     /\ IF d \in finished
        THEN excused' = excused \cup {d} /\ UNCHANGED <<finished, stats>>
        ELSE /\ finished' = finished \cup {d}
             /\ stats' = [stats EXCEPT ![d] = program[p].read]
             /\ excused' = Excuse(p, d)
     /\ NextDay(p)
     /\ UNCHANGED <<indexed, toolRuns, statFaults>>

StopProgram(p) ==
  /\ program[p].pc # "idle" /\ Fault
  /\ program' = [program EXCEPT ![p] = Idle]
  /\ UNCHANGED <<indexed, finished, stats, excused, toolRuns>>

Loop == Round \/ Read("loop") \/ WriteDay("loop") \/ FailDay("loop")
Next ==
  \/ \E e \in 0 .. FirstEpoch(MaxDay + 1) : Index(e)
  \/ Loop \/ Reset \/ Read("tool") \/ WriteDay("tool") \/ FailDay("tool")
  \/ \E first, last \in Days : first <= last /\ StartTool(first, last)
  \/ \E p \in Programs : StopProgram(p)

\* The loop goes round every minute; a day's queries return.
Fairness == WF_vars(Loop)
Spec == Init /\ [][Next]_vars /\ Fairness

----------------------------------------------------------------------------
(* Types; day 0 has no rows but those it started with.                     *)
TypeOK ==
  /\ indexed \subseteq 0 .. FirstEpoch(MaxDay + 1) /\ finished \subseteq Days
  /\ \A p \in Programs : /\ program[p].pc \in {"idle", "reset", "day", "write", "stuck"}
                         /\ program[p].day <= program[p].upto
                         /\ program[p].pc = "stuck" => program[p].day = 0
                         /\ program[p].pc = "write" => program[p].day # 0
  /\ stats \in [Days -> SUBSET indexed]

(* The rows and the status of a day are written together, after its last   *)
(* epoch was indexed, and stay until an operator resets the day, whoever   *)
(* else exports it meanwhile (statistics.go:33-35, statistics.go:257-266). *)
DayWrittenOnce ==
  [][\A d \in Days :
       /\ stats'[d] # stats[d] => d \in finished' \ finished
       /\ d \in finished' \ finished => HasEnded(d)]_vars

(* A day before one that is finished is finished, or an attempt at it      *)
(* failed, or an operator took the days up himself (main.go:125-141).      *)
GapsAreExcused == DaysBelow(finished) \ {0} \subseteq excused

(* No deposit is counted on two days (statistics.go:223).                  *)
DepositsOnce ==
  \A c, d \in finished \ {0} : c # d => Deposits(c) \cap Deposits(d) = {}

(* The loop gets to every day that has ended, unless it has passed over it *)
(* to a later one, or hangs in day 0 (main.go:102-145).                    *)
Hangs == program["loop"].pc = "stuck"
DaysAreExported ==
  \A d \in Days \ {0} :
    HasEnded(d) /\ d < LatestEpoch \div EpochsPerDay
      ~> d \in finished \cup DaysBelow(finished) \/ Hangs

(* "delaying statistics export as epoch %v has not yet been indexed"       *)
(* (statistics.go:34): a day that is marked as completed has the           *)
(* statistics of all its epochs.                                           *)
AllEpochsCounted == \A d \in finished : EpochsOf(d) \subseteq stats[d]

=============================================================================
