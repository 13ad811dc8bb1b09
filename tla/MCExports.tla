----------------------------- MODULE MCExports -----------------------------
(***************************************************************************)
(* The components behind the export of an epoch, which share no state in   *)
(* these models, checked in one run: Init picks one of them, and only it   *)
(* moves.                                                                  *)
(***************************************************************************)
EXTENDS Integers

CONSTANTS
  MaxEpoch, Versions, Exports, Writes, OfflineAfter, MaxSavers, MaxFaults,
  MaxDay, EpochsPerDay, SlotsPerEpoch, Ahead, Seeded, MaxTools, MaxStatFaults,
  MaxClock, SlotVizBack, RelaysBack, SyncLag, MaxCacheFaults,
  MaxSlot, Validators, InclusionDelay, MaxShown, MaxKey,
  HeadOfNode, MaxRepairs, MaxLapses,
  Callers, EpochsAsked, ForkEpoch, Holes, CacheSize, MaxSwitches, MaxErrors

VARIABLES
  active,
  pc, data, err, write, bigtable, seen, saved, cached, savers, validator, hidden, faults,
  indexed, finished, stats, program, excused, toolRuns, statFaults,
  clock, table, storeDays, local, remote, charts, turn, started, lost, cacheFaults,
  family, cells, assigned, included,
  config, chainOf, rowsOf, epochRows, rated, stepOf, agenda, saving, knownThen, lapses, lapsed,
  fork, headAt, switches, duties, fetch, latestHead, call, errors

ofWrites == <<pc, data, err, write, bigtable, seen, saved, cached, savers, validator, hidden,
              faults>>
ofStatistics == <<indexed, finished, stats, program, excused, toolRuns, statFaults>>
ofCaches == <<clock, table, storeDays, local, remote, charts, turn, started, lost, cacheFaults>>
ofHistory == <<family, cells, assigned, included>>
ofStartup == <<config, chainOf, rowsOf, epochRows, rated, stepOf, agenda, saving, knownThen,
               lapses, lapsed>>
ofClient == <<fork, headAt, switches, duties, fetch, latestHead, call, errors>>
vars == <<active, ofWrites, ofStatistics, ofCaches, ofHistory, ofStartup, ofClient>>

W == INSTANCE EpochWrites
S == INSTANCE Statistics
C == INSTANCE FrontendCaches
H == INSTANCE ValidatorHistory
U == INSTANCE Startup
N == INSTANCE NodeClient

ASSUME ExportsAssumption ==
  /\ W!EpochWritesAssumption /\ S!StatisticsAssumption
  /\ C!FrontendCachesAssumption /\ H!HistoryAssumption
  /\ U!StartupAssumption /\ N!ClientAssumption

Init ==
  /\ active \in {"writes", "statistics", "caches", "history", "startup", "client"}
  /\ W!Init /\ S!Init /\ C!Init /\ N!Init
  /\ IF active = "history" THEN H!Init ELSE H!Idle
  /\ IF active = "startup" THEN U!Init ELSE U!Idle

Writing(Step) ==
  /\ active = "writes" /\ Step
  /\ UNCHANGED <<active, ofStatistics, ofCaches, ofHistory, ofStartup, ofClient>>
Counting(Step) ==
  /\ active = "statistics" /\ Step
  /\ UNCHANGED <<active, ofWrites, ofCaches, ofHistory, ofStartup, ofClient>>
Caching(Step) ==
  /\ active = "caches" /\ Step
  /\ UNCHANGED <<active, ofWrites, ofStatistics, ofHistory, ofStartup, ofClient>>
Keeping(Step) ==
  /\ active = "history" /\ Step
  /\ UNCHANGED <<active, ofWrites, ofStatistics, ofCaches, ofStartup, ofClient>>
Repairing(Step) ==
  /\ active = "startup" /\ Step
  /\ UNCHANGED <<active, ofWrites, ofStatistics, ofCaches, ofHistory, ofClient>>
Asking(Step) ==
  /\ active = "client" /\ Step
  /\ UNCHANGED <<active, ofWrites, ofStatistics, ofCaches, ofHistory, ofStartup>>
Next ==
  \/ Writing(W!Next) \/ Counting(S!Next) \/ Caching(C!Next) \/ Keeping(H!Next)
  \/ Repairing(U!Next) \/ Asking(N!Next)

\* Each component is fair to its own steps.  Only one component moves in a
\* behaviour, so fair steps of different components share a conjunct.
Fairness ==
  /\ \A j \in Exports : WF_vars(Writing(W!Export(j))) /\ SF_vars(Writing(W!Lock(j)))
  /\ WF_vars(Writing(W!Save) \/ Counting(S!Loop) \/ Caching(C!UpdateEpoch)
             \/ Repairing(U!Starting) \/ Asking(N!FetchStep))
  /\ WF_vars(Caching(C!UpdateSlot) \/ Repairing(U!SaveExported))
  /\ \A c \in Callers : WF_vars(Asking(N!CallerStep(c)))
  /\ WF_vars(Caching(C!UpdateBlock)) /\ WF_vars(Caching(C!UpdateSlotViz))
  /\ WF_vars(Caching(C!UpdatePools)) /\ WF_vars(Caching(C!UpdateRelays))
  /\ WF_vars(Caching(C!UpdateCharts))
Spec == Init /\ [][Next]_vars /\ Fairness

\* The rows of a day are written with its status, after its last epoch.
DayWrittenOnce == S!DayWrittenOnce
\* The loop gets to every day that has ended, or has passed over it.
DaysAreExported == S!DaysAreExported
\* A day counts each missed attestation and each balance of its epochs once.
DayIsCounted == H!DayIsCounted
\* The pages call finality late only when it is.
DelayIsReal == C!TypeOK /\ C!DelayIsReal

\* An export that reported success, or left out an epoch as saved, has all its
\* data in Bigtable and in the tables; the data the node client gave it is of one
\* branch and complete; and the repairs before the first export leave nothing out.
SavesAreWhole ==
  /\ W!TypeOK /\ W!SkippedIsSaved /\ W!SavedIsExported
  /\ N!TypeOK /\ N!DutiesAreOfOneBranch /\ N!EpochDataIsSound
  /\ U!TypeOK /\ U!RepairsAreDone

\* Every export ends, and so do the calls for its data and the repairs at the start.
ExportsEnd == W!ExportsEnd /\ N!CallsEnd /\ (active = "startup" => U!StartReaches)

\* A day is only passed over for a reason, and a deposit counts for one day.
DaysAreSound == S!TypeOK /\ S!GapsAreExcused /\ S!DepositsOnce

\* A validator is shown as it was: as offline only when its attestations stay out,
\* and with what became of each of its duties.
ValidatorsAsTheyWere == W!OfflineIsOffline /\ H!TypeOK /\ H!HistoryIsTrue

\* Neither the slot a validator was last seen at nor a number the pages show
\* goes back, in whatever order exports and updaters get to write it.
NothingGoesBack == W!LastSeenGrows /\ C!NumbersGrow

\* The frontend starts, and its charts follow the chain.
PagesFollow == C!InitReturns /\ C!ChartsFollow
=============================================================================
