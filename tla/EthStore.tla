------------------------------ MODULE EthStore ------------------------------
(***************************************************************************)
(* exporter/ethstore.go: the exporter of the daily eth.store figures.  It  *)
(* counts the days in eth_store_stats, and when one is missing computes    *)
(* the missing ones, newest first.                                         *)
(***************************************************************************)
EXTENDS Integers, FiniteSetsExt

CONSTANTS
  MaxToday,        \* bound: days of the chain
  MaxStoreFaults   \* bound: days that cannot be computed or written

VARIABLES
  today,        \* the day of the latest finalized epoch in the epochs table
  storeRows,    \* days in eth_store_stats and historical_pool_performance
  todo,         \* daysToExportArray
  filling,      \* the map of the days to export is filled up to 2^64 - 1
  storeFaults

EthStoreAssumption == {MaxToday, MaxStoreFaults} \subseteq Nat

storeVars == <<today, storeRows, todo, filling, storeFaults>>

TypeOK ==
  /\ today \in 0 .. MaxToday
  /\ storeRows \subseteq 0 .. MaxToday /\ todo \subseteq 0 .. MaxToday
  /\ filling \in BOOLEAN /\ storeFaults \in 0 .. MaxStoreFaults

Init == today = 0 /\ storeRows = {} /\ todo = {} /\ filling = FALSE /\ storeFaults = 0

FinalizeDay ==
  /\ today < MaxToday
  /\ today' = today + 1
  /\ UNCHANGED <<storeRows, todo, filling, storeFaults>>

LatestDay == today - 1

\* The days missing are looked for when there are too few.
Missing == IF Cardinality(storeRows) <= LatestDay THEN (0 .. LatestDay) \ storeRows ELSE {}

\* Run, from DBCHECK to the days to export.  The latest day is unsigned: on
\* day 0 it is the largest integer and the loop over the days does not end.
Check ==
  /\ ~filling /\ todo = {}
  /\ IF today = 0
     THEN filling' = TRUE /\ UNCHANGED todo
     ELSE todo' = Missing /\ UNCHANGED filling
  /\ UNCHANGED <<today, storeRows, storeFaults>>

\* ExportDay, in one transaction.
ExportDay ==
  /\ todo # {}
  /\ storeRows' = storeRows \cup {Max(todo)}
  /\ todo' = todo \ {Max(todo)}
  /\ UNCHANGED <<today, filling, storeFaults>>

\* It fails: the days that are left are looked for anew.
ExportFails ==
  /\ todo # {}
  /\ storeFaults < MaxStoreFaults /\ storeFaults' = storeFaults + 1
  /\ todo' = {}
  /\ UNCHANGED <<today, storeRows, filling>>

Exporting == Check \/ ExportDay
Next == FinalizeDay \/ Exporting \/ ExportFails

\* A day is exported when it is over and final, not while it runs (ethstore.go:145).
DaysAreOver == storeRows \subseteq 0 .. today - 1

\* Again and again every day that is over is exported, whichever days failed
\* before it, unless the exporter was started on the first day (ethstore.go:145, :165).
StoreDaysSaved == []<>(0 .. today - 1 \subseteq storeRows \/ filling)
=============================================================================
