--------------------------- MODULE FrontendCaches ---------------------------
(***************************************************************************)
(* The process that keeps the caches of the web pages (services.Init of    *)
(* services/services.go, with the updaters of the charts and of the latest *)
(* execution block) and the tiered cache it writes through (cache/): a     *)
(* local copy over a Redis or Bigtable that outlives the process.          *)
(*                                                                         *)
(* Time and slots are counted in epochs.  A page is the epoch it was made  *)
(* in.  The tables are of ChainSync and may be behind the clock.           *)
(***************************************************************************)
EXTENDS Integers

CONSTANTS
  MaxClock,
  SlotVizBack,     \* epochs the slot view looks back, 4 in the code
  RelaysBack,      \* the 180 days of the relays page
  SyncLag,         \* 20 minutes
  MaxCacheFaults   \* bound: calls that fail, and restarts

FrontendCachesAssumption ==
  {MaxClock, SlotVizBack, RelaysBack, SyncLag, MaxCacheFaults} \subseteq Nat

Miss == -1
Numbers == {"finalized", "epoch", "slot", "eth1"}
\* One page stands for those of the index, the pools and the statistics.
Updaters == {"epoch", "slot", "eth1", "slotViz", "pools", "relays", "charts"}

VARIABLES
  clock,       \* the epoch of the wall clock
  table,       \* the latest and the latest finalized epoch in the tables
  storeDays,   \* eth_store_stats has a row
  local, remote,  \* the two tiers; the remote one of the numbers this process reads
  charts,      \* the page in the remote tier, and prevEpoch
  turn,        \* how far epochUpdater is in its round
  started,     \* updaters that called wg.Done
  lost,        \* ghost: a number or the charts could not be read or cached
  cacheFaults

vars == <<clock, table, storeDays, local, remote, charts, turn, started, lost, cacheFaults>>

Read == {"epoch", "slot"}
Nothing(S) == [k \in S |-> Miss]
Init ==
  /\ clock = 0 /\ table = [epoch |-> 0, finalized |-> 0] /\ storeDays = FALSE
  /\ local = Nothing(Numbers) /\ remote = Nothing(Read) /\ charts = [page |-> Miss, prev |-> 0]
  /\ turn = 1 /\ started = {} /\ lost = {} /\ cacheFaults = 0

Fault == cacheFaults < MaxCacheFaults /\ cacheFaults' = cacheFaults + 1

\* The world: time, the exporter, and the exporter of ETH.STORE.
Tick ==
  /\ clock < MaxClock /\ clock' = clock + 1
  /\ UNCHANGED <<table, storeDays, local, remote, charts, turn, started, lost, cacheFaults>>
Indexed ==
  /\ \/ table.epoch < clock /\ table' = [table EXCEPT !.epoch = @ + 1]
     \/ table.finalized < table.epoch /\ table' = [table EXCEPT !.finalized = @ + 1]
  /\ UNCHANGED <<clock, storeDays, local, remote, charts, turn, started, lost, cacheFaults>>
StoreDay ==
  /\ ~storeDays /\ storeDays' = TRUE
  /\ UNCHANGED <<clock, table, local, remote, charts, turn, started, lost, cacheFaults>>
world == <<clock, table, storeDays>>

----------------------------------------------------------------------------
(* The tiered cache *)

\* SetUint64: the local tier takes the value whatever the remote one does.
SetNumber(k, value) ==
  /\ local' = [local EXCEPT ![k] = value]
  /\ \/ /\ remote' = [j \in Read |-> IF j = k THEN value ELSE remote[j]]
        /\ UNCHANGED cacheFaults
     \/ Fault /\ UNCHANGED remote

\* GetUint64WithLocalTimeout, of which an error makes 0: a value of the
\* remote tier is kept for five seconds, which is no time here.
Readings(k) ==
  IF local[k] # Miss THEN {local[k]} ELSE {0} \cup ({remote[k]} \ {Miss})

Done(u) == started' = started \cup {u}

----------------------------------------------------------------------------
(* The updaters *)

\* Slip: the latest epoch is read before the finalized one.
EpochFirst(n) == <<"epoch", "finalized">>[n]
\* epochUpdater: the finalized epoch, then the latest one.
Turn(n) == <<"finalized", "epoch">>[n]

UpdateEpoch ==
  LET k == Turn(turn)
  IN /\ turn' = 3 - turn
     /\ \/ SetNumber(k, table[k]) /\ lost' = lost \ {k}
           /\ IF k = "epoch" THEN Done("epoch") ELSE UNCHANGED started
        \/ Fault /\ lost' = lost \cup {k} /\ UNCHANGED <<local, remote, started>>
     /\ UNCHANGED <<world, charts>>

\* A query that fails leaves the number as it was.
UpdateSlot ==
  /\ \/ SetNumber("slot", table.epoch) /\ Done("slot")
     \/ Fault /\ UNCHANGED <<local, remote, started>>
  /\ UNCHANGED <<world, charts, turn, lost>>

\* A query that fails is logged and the number of no block, 0, is cached.
UpdateBlock ==
  /\ \/ SetNumber("eth1", table.epoch) /\ lost' = lost \ {"eth1"}
     \/ /\ Fault /\ lost' = lost \cup {"eth1"}
        /\ local' = [local EXCEPT !["eth1"] = 0] /\ UNCHANGED remote
  /\ Done("eth1")
  /\ UNCHANGED <<world, charts, turn>>

\* latestEpoch - 4 wraps on a younger chain and the query refuses it.
UpdateSlotViz ==
  /\ \E latest \in Readings("epoch") : latest > 0 /\ latest >= SlotVizBack
  /\ Done("slotViz")
  /\ UNCHANGED <<world, local, remote, charts, turn, lost, cacheFaults>>

\* The Get of the last day of ETH.STORE fails when there is none.
UpdatePools ==
  /\ storeDays /\ Done("pools")
  /\ UNCHANGED <<world, local, remote, charts, turn, lost, cacheFaults>>

\* LatestSlot() less 7, 31 and 180 days wraps and the query refuses it.
UpdateRelays ==
  /\ \E latest \in Readings("slot") : latest >= RelaysBack
  /\ Done("relays")
  /\ UNCHANGED <<world, local, remote, charts, turn, lost, cacheFaults>>

Syncing(latest) == clock - latest > SyncLag
\* Slip: prevEpoch is read from the tables when the page is done.
ChartsAsOfNow(latest) ==
  /\ charts' = [page |-> latest, prev |-> table.epoch] /\ lost' = lost \ {"charts"}
  /\ Done("charts") /\ UNCHANGED cacheFaults
\* The page and prevEpoch; the error of the cache is dropped.
ChartsOf(latest) ==
  /\ \/ charts' = [page |-> latest, prev |-> latest] /\ lost' = lost \ {"charts"}
        /\ UNCHANGED cacheFaults
     \/ charts' = [charts EXCEPT !.prev = latest] /\ lost' = lost \cup {"charts"} /\ Fault
  /\ Done("charts")

UpdateCharts ==
  /\ \E latest \in Readings("epoch") :
       (charts.prev < latest \/ latest = 0) /\ ~Syncing(latest) /\ ChartsOf(latest)
  /\ UNCHANGED <<world, local, remote, turn>>

Restart ==
  /\ Fault
  /\ local' = Nothing(Numbers) /\ turn' = 1 /\ started' = {}
  /\ charts' = [charts EXCEPT !.prev = 0]
  /\ UNCHANGED <<world, remote, lost>>

World == Tick \/ Indexed \/ StoreDay
Update ==
  \/ UpdateEpoch \/ UpdateSlot \/ UpdateBlock \/ UpdateSlotViz
  \/ UpdatePools \/ UpdateRelays \/ UpdateCharts
Next == World \/ Update \/ Restart

\* The updaters never stop; the tables and the clock may stand still.
Fairness ==
  /\ WF_vars(UpdateEpoch) /\ WF_vars(UpdateSlot) /\ WF_vars(UpdateBlock)
  /\ WF_vars(UpdateSlotViz) /\ WF_vars(UpdatePools) /\ WF_vars(UpdateRelays)
  /\ WF_vars(UpdateCharts)
Spec == Init /\ [][Next]_vars /\ Fairness
----------------------------------------------------------------------------
(* Types; what an updater has set before it called wg.Done stays.          *)
TypeOK ==
  /\ local \in [Numbers -> Miss .. MaxClock] /\ remote \in [Read -> Miss .. MaxClock]
  /\ charts \in [page : Miss .. MaxClock, prev : 0 .. MaxClock]
  /\ started \subseteq Updaters
  /\ \A k \in started \cap Numbers : local[k] # Miss

(* The numbers in the cache of the process do not go back, whatever fails, *)
(* but for the execution block's, which is cached when its query failed    *)
(* (services.go:264-326, execution_layer.go:17-22).                        *)
NumbersGrow ==
  [][\A k \in Numbers :
       local'[k] < local[k] => Restart \/ (k = "eth1" /\ k \in lost')]_vars

(* The delay of finality, latestEpoch - latestFinalized of two numbers     *)
(* cached apart, does not wrap once epochUpdater has been round, unless    *)
(* the query of the latest epoch failed (services.go:266-294, 785-787).    *)
DelayIsReal ==
  turn = 1 /\ "epoch" \notin lost => local["finalized"] <= local["epoch"]

(* services.Init returns on a chain that is old enough, in sync and has a  *)
(* day of ETH.STORE, after any restart and with calls that fail: no        *)
(* updater waits for good for one that comes later (services.go:32-68).    *)
CanStart ==
  /\ storeDays /\ clock = MaxClock /\ ~Syncing(table.epoch)
  /\ table.epoch > 0 /\ table.epoch >= SlotVizBack /\ table.epoch >= RelaysBack
InitReturns == CanStart ~> started = Updaters

(* The charts get to the latest epoch, unless the page could not be cached *)
(* (charts_updater.go:58-99).                                              *)
ChartsFollow ==
  clock = MaxClock /\ table.epoch = MaxClock
    ~> charts.page = MaxClock \/ "charts" \in lost

=============================================================================
