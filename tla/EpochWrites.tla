---------------------------- MODULE EpochWrites ----------------------------
(***************************************************************************)
(* What an export of an epoch does once its data is there: the goroutine   *)
(* at the end of ExportEpoch (exporter/exporter.go) that writes to         *)
(* Bigtable and to the last attestation cache, and SaveEpoch with the      *)
(* goroutine that saves the validators (db/db.go).  ChainSync has the rows *)
(* of the blocks table and takes the rest of an export as one step; here   *)
(* the blocks of an epoch are a version of it.                             *)
(*                                                                         *)
(* Exports are goroutines that ran into saveEpochMux.  One validator       *)
(* stands for all.  Epochs are recent, so that SaveEpoch saves validators. *)
(***************************************************************************)
EXTENDS Integers, FiniteSetsExt

CONSTANTS
  MaxEpoch,
  Versions,      \* what a reorganisation leaves of an epoch
  Exports,
  Writes,        \* the writes of an errgroup, seven in the code
  OfflineAfter,  \* epochs without attestation, 64 slots in the code
  MaxSavers,     \* bound: an epoch is fetched when fewer validators' goroutines wait
  MaxFaults      \* bound: calls that fail, and crashes

Cache == "last attestations"  \* SetLastAttestationSlots, one of the writes

EpochWritesAssumption ==
  /\ {MaxEpoch, OfflineAfter, MaxSavers, MaxFaults} \subseteq Nat
  /\ Cache \in Writes

Epochs == 1 .. MaxEpoch
None == "none"
Unused == [k \in Writes |-> "todo"]
NoData == [epoch |-> 0, version |-> None, attested |-> 0]

VARIABLES
  pc,         \* where an export is
  data,       \* its epoch, the version and when the validator attested in it
  err,        \* the variable the goroutines of the errgroup share
  write,      \* how far each of them is
  bigtable,   \* the writes that were done for an epoch
  seen,       \* lastAttestationCache
  saved,      \* versions of an epoch that are committed
  cached,     \* epochsCache
  savers,     \* goroutines of saveValidators and what they have read
  validator,  \* its row
  hidden,     \* ghost: epochs with an error that a success was assigned over
  faults

vars == <<pc, data, err, write, bigtable, seen, saved, cached, savers, validator, hidden, faults>>
tables == <<bigtable, seen, saved, validator, hidden>>

Init ==
  /\ pc = [j \in Exports |-> "idle"] /\ data = [j \in Exports |-> NoData]
  /\ err = [j \in Exports |-> FALSE]
  /\ write = [j \in Exports |-> Unused]
  /\ bigtable = [e \in Epochs |-> {}] /\ seen = 0
  /\ saved = [e \in Epochs |-> {}] /\ cached = [e \in Epochs |-> None]
  /\ savers = {} /\ validator = [last |-> 0, offline |-> FALSE]
  /\ hidden = {} /\ faults = 0

Fault == faults < MaxFaults /\ faults' = faults + 1
Ends(j) ==
  /\ pc' = [pc EXCEPT ![j] = "idle"] /\ data' = [data EXCEPT ![j] = NoData]
  /\ err' = [err EXCEPT ![j] = FALSE] /\ write' = [write EXCEPT ![j] = Unused]

----------------------------------------------------------------------------
\* ExportEpoch has the data; the validator may not have attested (0).
Fetch(j, e, v) ==
  /\ pc[j] = "idle" /\ Cardinality(savers) < MaxSavers
  /\ pc' = [pc EXCEPT ![j] = "waiting"]
  /\ \E a \in {0, e} : data' = [data EXCEPT ![j] = [epoch |-> e, version |-> v, attested |-> a]]
  /\ UNCHANGED <<err, write, tables, cached, savers, faults>>

Holding == {"writing", "saving", "committed"}
\* Slip: Bigtable is written before the mutex is taken.
LockLater(j) ==
  /\ pc[j] = "waiting"
  /\ pc' = [pc EXCEPT ![j] = "writing"]
  /\ UNCHANGED <<data, err, write, tables, cached, savers, faults>>

Lock(j) ==
  /\ pc[j] = "waiting" /\ \A i \in Exports : pc[i] \notin Holding
  /\ pc' = [pc EXCEPT ![j] = "writing"]
  /\ UNCHANGED <<data, err, write, tables, cached, savers, faults>>

\* Slip: an attestation of an older epoch replaces a newer one.
SeenLast(old, new) == IF new = 0 THEN old ELSE new
\* SetLastAttestationSlots puts a slot above the cached one.
SeenNext(old, new) == IF new > old THEN new ELSE old

\* "err = ..." of one goroutine: the captured variable is assigned ...
Assign(j, k) ==
  /\ pc[j] = "writing" /\ write[j][k] = "todo"
  /\ write' = [write EXCEPT ![j][k] = "assigned"]
  /\ \/ /\ bigtable' = [bigtable EXCEPT ![data[j].epoch] = @ \cup {k}]
        /\ seen' = IF k = Cache THEN SeenNext(seen, data[j].attested) ELSE seen
        /\ err' = [err EXCEPT ![j] = FALSE]
        /\ hidden' = IF err[j] THEN hidden \cup {data[j].epoch} ELSE hidden
        /\ UNCHANGED faults
     \/ err' = [err EXCEPT ![j] = TRUE] /\ Fault /\ UNCHANGED <<bigtable, seen, hidden>>
  /\ UNCHANGED <<pc, data, saved, cached, savers, validator>>

\* ... and tested by the same goroutine, whoever assigned it last.
Test(j, k) ==
  /\ pc[j] = "writing" /\ write[j][k] = "assigned"
  /\ write' = [write EXCEPT ![j][k] = IF err[j] THEN "failed" ELSE "done"]
  /\ UNCHANGED <<pc, data, err, tables, cached, savers, faults>>

\* Slip: the mutex is unlocked by hand, and not on this path.
WaitAndKeep(j) ==
  /\ pc[j] = "writing" /\ \A k \in Writes : write[j][k] = "done"
  /\ pc' = [pc EXCEPT ![j] = "saving"]
  /\ UNCHANGED <<data, err, write, tables, cached, savers, faults>>

\* Slip: the error of the group is logged, the export goes on.
WaitAnyway(j) ==
  /\ pc[j] = "writing" /\ \A k \in Writes : write[j][k] \in {"done", "failed"}
  /\ pc' = [pc EXCEPT ![j] = "saving"]
  /\ UNCHANGED <<data, err, write, tables, cached, savers, faults>>

\* g.Wait: an error of any of them ends the export.
Wait(j) ==
  /\ pc[j] = "writing" /\ \A k \in Writes : write[j][k] \in {"done", "failed"}
  /\ IF \E k \in Writes : write[j][k] = "failed" THEN Ends(j)
     ELSE pc' = [pc EXCEPT ![j] = "saving"] /\ UNCHANGED <<data, err, write>>
  /\ UNCHANGED <<tables, cached, savers, faults>>

----------------------------------------------------------------------------
(* SaveEpoch *)
Skip(j) ==
  /\ pc[j] = "saving" /\ cached[data[j].epoch] = data[j].version
  /\ Ends(j)
  /\ UNCHANGED <<tables, cached, savers, faults>>

\* The validators' goroutine is started and the transaction commits or is
\* rolled back, which the goroutine does not know.
Saver(j) == [epoch |-> data[j].epoch, last |-> data[j].attested, latest |-> -1]
Commit(j) ==
  LET e == data[j].epoch
  IN /\ pc[j] = "saving" /\ cached[e] # data[j].version
     /\ savers' = savers \cup {Saver(j)}
     /\ \/ /\ saved' = [saved EXCEPT ![e] = @ \cup {data[j].version}] /\ UNCHANGED faults
           /\ pc' = [pc EXCEPT ![j] = "committed"] /\ UNCHANGED <<data, err, write>>
        \/ Fault /\ Ends(j) /\ UNCHANGED saved
     /\ UNCHANGED <<bigtable, seen, cached, validator, hidden>>

\* The duplicate rows are deleted, then the epoch is in the cache.
CleanUp(j) ==
  LET e == data[j].epoch
  IN /\ pc[j] = "committed" /\ Ends(j)
     /\ \/ cached' = [cached EXCEPT ![e] = data[j].version] /\ UNCHANGED faults
        \/ Fault /\ UNCHANGED cached
     /\ UNCHANGED <<tables, savers>>

----------------------------------------------------------------------------
(* saveValidators, in the order in which the goroutines get the lock *)
Latest == IF \E e \in Epochs : saved[e] # {} THEN Max({e \in Epochs : saved[e] # {}}) ELSE 0

\* Takes saveValidatorsMux and reads the latest block.
ReadLatest(s) ==
  /\ \A t \in savers : t.latest = -1
  /\ savers' = (savers \ {s}) \cup {[s EXCEPT !.latest = Latest]}
  /\ UNCHANGED <<pc, data, err, write, tables, cached, faults>>

\* Slip: the status looks at the epoch's attestations alone.
UpsertOfEpoch(row, s) ==
  [last |-> Max({row.last, s.last}), offline |-> s.last < s.latest - OfflineAfter]
\* The last attestation and the status in the INSERT ... ON CONFLICT, of a
\* validator that is active and has no exit epoch.
Upsert(row, s) ==
  LET last == Max({row.last, s.last})
  IN [last |-> last, offline |-> last < s.latest - OfflineAfter]

SaveValidators(s) ==
  /\ s.latest # -1
  /\ savers' = savers \ {s}
  /\ \/ validator' = Upsert(validator, s) /\ UNCHANGED faults
     \/ Fault /\ UNCHANGED validator
  /\ UNCHANGED <<pc, data, err, write, bigtable, seen, saved, cached, hidden>>

\* The process is killed, or ends itself when saveBlocks fails (Fatalf).
Crash ==
  /\ Fault
  /\ pc' = [j \in Exports |-> "idle"] /\ data' = [j \in Exports |-> NoData]
  /\ err' = [j \in Exports |-> FALSE] /\ write' = [j \in Exports |-> Unused]
  /\ cached' = [e \in Epochs |-> None] /\ savers' = {}
  /\ UNCHANGED tables

Export(j) ==
  \/ Lock(j) \/ Wait(j) \/ Skip(j) \/ Commit(j) \/ CleanUp(j)
  \/ \E k \in Writes : Assign(j, k) \/ Test(j, k)
Save == \E s \in savers : ReadLatest(s) \/ SaveValidators(s)
Next ==
  \/ \E j \in Exports, e \in Epochs, v \in Versions : Fetch(j, e, v)
  \/ \E j \in Exports : Export(j)
  \/ Save
  \/ Crash

\* Go's scheduler runs every goroutine, and its mutexes starve none.
Fairness ==
  /\ \A j \in Exports : WF_vars(Export(j)) /\ SF_vars(Lock(j))
  /\ WF_vars(Save)
Spec == Init /\ [][Next]_vars /\ Fairness

----------------------------------------------------------------------------
(* Types; one export writes at a time.                                     *)
TypeOK ==
  /\ pc \in [Exports -> Holding \cup {"idle", "waiting"}]
  /\ \A i, j \in Exports : pc[i] \in Holding /\ pc[j] \in Holding => i = j
  /\ write \in [Exports -> [Writes -> {"todo", "assigned", "failed", "done"}]]
  /\ err \in [Exports -> BOOLEAN] /\ cached \in [Epochs -> Versions \cup {None}]
  /\ bigtable \in [Epochs -> SUBSET Writes]
  /\ \A s, t \in savers : s.latest # -1 /\ t.latest # -1 => s = t
  /\ {seen, validator.last} \subseteq 0 .. MaxEpoch

(* SaveEpoch skips only what is committed: the epoch's version is in its   *)
(* cache after the transaction and the clean up (db.go:715, db.go:889).    *)
SkippedIsSaved == \A e \in Epochs : cached[e] # None => cached[e] \in saved[e]

(* Epochs are saved in any order, again, and by two goroutines; the last   *)
(* attestation of a validator never goes back, in its row and in the cache *)
(* (db.go:1280, lastAttestationCache.go:53).                               *)
LastSeenGrows == [][seen' >= seen /\ validator'.last >= validator.last]_vars

(* A validator shown as offline has not attested for so long, counted from *)
(* the latest block that is saved: not when an older epoch is saved after  *)
(* a newer one, nor when the latest block was read a while ago             *)
(* (db.go:999-1010, db.go:1280-1291).                                      *)
OfflineIsOffline == validator.offline => validator.last < Latest - OfflineAfter

(* An export that has its data is saved, skipped or given up: no error     *)
(* leaves saveEpochMux locked (exporter.go:506-586).                       *)
ExportsEnd == \A j \in Exports : pc[j] # "idle" ~> pc[j] = "idle"

(* An error of Bigtable ends an export before SaveEpoch: what is saved has *)
(* been written, unless a goroutine that had no error assigned the shared  *)
(* variable before the one that had it tested it (exporter.go:512-518,     *)
(* exporter.go:574-578).                                                   *)
SavedIsExported ==
  \A e \in Epochs : saved[e] # {} => bigtable[e] = Writes \/ e \in hidden

=============================================================================
