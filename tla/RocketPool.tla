----------------------------- MODULE RocketPool -----------------------------
(***************************************************************************)
(* exporter/rocketpool.go: the loop that reads the Rocket Pool contracts   *)
(* into memory (Update) and writes what it holds to the database (Save).   *)
(*                                                                         *)
(* Two things are carried from one round to the next: the reward trees,    *)
(* one per reward interval, downloaded once and kept, and the rewards of   *)
(* each node, which are summed over the trees that are in the database.    *)
(* A sum is the set of the intervals it is made of.  The tables that only  *)
(* repeat the contracts' last answer (minipools, proposals, votes, members *)
(* and statistics) are the other parts that can fail a round.              *)
(***************************************************************************)
EXTENDS Integers, FiniteSetsExt

CONSTANTS
  Nodes,          \* node operators
  OldTrees,       \* intervals below this one are found on the previous rewards pool only
  MaxTrees,       \* bound: intervals that come to an end
  TreesEvery,     \* rounds between two looks for trees, 8 in the code
  NodesEvery,     \* rounds between two sums of a node's rewards, 12 in the code
  MaxRpFaults,    \* bound: failing calls
  MaxRpRestarts   \* bound: restarts of the exporter

VARIABLES
  published,      \* chain: intervals 0 .. published - 1 have a rewards snapshot
  registered,     \* chain: registered nodes
  claims,         \* chain: the intervals a node has claimed
  count,          \* Run: rounds that succeeded, modulo the two periods
  phase,          \* Run: "update", "save" or "stopped"
  lastTree,       \* LastRewardTree
  queue,          \* RocketpoolRewardTreesDownloadQueue
  treeData,       \* RocketpoolRewardTreeData
  lookOld,        \* RocketpoolLookForOldTrees
  nodes,          \* NodesByAddress: the sums of the nodes in memory
  treeRows,       \* table rocketpool_reward_tree
  nodeRows,       \* table rocketpool_nodes
  rpFaults, rpRestarts

onChain == <<published, registered, claims>>
inMemory == <<count, phase, lastTree, queue, treeData, lookOld, nodes>>
inTables == <<treeRows, nodeRows>>
rocketVars == <<onChain, inMemory, inTables, rpFaults, rpRestarts>>

RocketPoolAssumption ==
  {OldTrees, MaxTrees, MaxRpFaults, MaxRpRestarts} \subseteq Nat
    /\ {TreesEvery, NodesEvery} \subseteq Nat \ {0}

Intervals == 0 .. published - 1
Sums == [claimed : SUBSET (0 .. MaxTrees - 1), unclaimed : SUBSET (0 .. MaxTrees - 1)]
Zero == [claimed |-> {}, unclaimed |-> {}]
NoNodes == [n \in {} |-> Zero]

TypeOK ==
  /\ published \in 0 .. MaxTrees /\ registered \subseteq Nodes
  /\ claims \in [Nodes -> SUBSET (0 .. MaxTrees - 1)]
  /\ count \in 0 .. TreesEvery * NodesEvery - 1
  /\ phase \in {"update", "save", "stopped"}
  /\ lastTree \in 0 .. MaxTrees
  /\ queue \subseteq 0 .. MaxTrees - 1 /\ treeData \subseteq 0 .. MaxTrees - 1
  /\ lookOld \in BOOLEAN
  /\ treeRows \subseteq 0 .. MaxTrees - 1
  /\ DOMAIN nodes \subseteq registered /\ DOMAIN nodeRows \subseteq registered
  /\ \A n \in DOMAIN nodes : nodes[n] \in Sums
  /\ \A n \in DOMAIN nodeRows : nodeRows[n] \in Sums
  /\ rpFaults \in 0 .. MaxRpFaults /\ rpRestarts \in 0 .. MaxRpRestarts

Init ==
  /\ published = 0 /\ registered = {} /\ claims = [n \in Nodes |-> {}]
  /\ count = 0 /\ phase = "update" /\ lastTree = 0 /\ queue = {} /\ treeData = {}
  /\ lookOld = TRUE /\ nodes = NoNodes
  /\ treeRows = {} /\ nodeRows = NoNodes
  /\ rpFaults = 0 /\ rpRestarts = 0

-----------------------------------------------------------------------------
(* The contracts. *)

Publish ==
  /\ published < MaxTrees
  /\ published' = published + 1
  /\ UNCHANGED <<registered, claims, inMemory, inTables, rpFaults, rpRestarts>>

Register(n) ==
  /\ registered' = registered \cup {n} /\ registered' # registered
  /\ UNCHANGED <<published, claims, inMemory, inTables, rpFaults, rpRestarts>>

Claim(n, i) ==
  /\ n \in registered /\ i \notin claims[n]
  /\ claims' = [claims EXCEPT ![n] = @ \cup {i}]
  /\ UNCHANGED <<published, registered, inMemory, inTables, rpFaults, rpRestarts>>

-----------------------------------------------------------------------------
(* Update.  Its parts run side by side and share nothing, so they are one  *)
(* step; each ends well or leaves what it had done when a call failed.     *)

\* The snapshots the scan comes across: the previous address is asked only
\* while lookOld holds, and the first interval that is not found ends it.
Scan == IF lookOld \/ lastTree >= OldTrees THEN lastTree .. published - 1 ELSE {}

\* lastTree after a scan of the intervals found: behind the last one that is known.
Behind(found) == IF found \cap treeData = {} THEN lastTree ELSE Max(found \cap treeData) + 1

\* Slip: a failure drops the intervals that were queued.
SlipForgetQueue(ok) ==
  \E scanned \in lastTree .. published, had \in 0 .. published :
    LET found == {i \in Scan : i < scanned}
        missing == found \ (treeData \cup queue)
        got == IF scanned = published THEN {i \in missing : i < had} ELSE {}
    IN /\ ok = (scanned = published /\ got = missing)
       /\ lookOld' = (lookOld /\ \A i \in found : i < OldTrees)
       /\ queue' = IF ok THEN queue \cup got ELSE {}
       /\ lastTree' = Max({Behind(found)} \cup got)

\* DownloadMissingRewardTrees, with the interval at which the scan failed
\* or the interval whose file could not be had.
DownloadTrees(ok) ==
  \E scanned \in lastTree .. published, had \in 0 .. published :
    LET found == {i \in Scan : i < scanned}
        missing == found \ (treeData \cup queue)
        got == IF scanned = published THEN {i \in missing : i < had} ELSE {}
    IN /\ ok = (scanned = published /\ got = missing)
       /\ lookOld' = (lookOld /\ \A i \in found : i < OldTrees)
       /\ queue' = queue \cup got
       /\ lastTree' = Max({Behind(found)} \cup got)

\* GetClaimStatus: what a node can still claim.
Unclaimed(n) == Intervals \ claims[n]

\* Slip: nodes are summed also while no tree is known.
SlipSummed(n, all) ==
  IF all \/ n \notin DOMAIN nodes
  THEN [claimed |-> claims[n] \cap treeData,
        unclaimed |-> Unclaimed(n) \cap treeData]
  ELSE nodes[n]

\* Slip: a node is summed when it is new and never again.
SlipSummedOnce(n, all) ==
  IF n \in DOMAIN nodes THEN nodes[n]
  ELSE [claimed |-> claims[n] \cap treeData,
        unclaimed |-> Unclaimed(n) \cap treeData]

\* RocketpoolNode.Update: nothing is summed while no tree is known.
Summed(n, all) ==
  IF treeData # {} /\ (all \/ n \notin DOMAIN nodes)
  THEN [claimed |-> claims[n] \cap treeData,
        unclaimed |-> Unclaimed(n) \cap treeData]
  ELSE IF n \in DOMAIN nodes THEN nodes[n] ELSE Zero

UpdateNodes(ok) ==
  \E read \in SUBSET registered :
    /\ ok = (read = registered)
    /\ nodes' = [n \in DOMAIN nodes \cup read |->
                   IF n \in read THEN Summed(n, count % NodesEvery = 0) ELSE nodes[n]]

Update ==
  \E trees, sums, others \in BOOLEAN :
    /\ phase = "update"
    /\ IF count % TreesEvery = 0
       THEN DownloadTrees(trees)
       ELSE trees /\ UNCHANGED <<queue, lastTree, lookOld>>
    /\ UpdateNodes(sums)
    /\ IF trees /\ sums /\ others
       THEN phase' = "save" /\ UNCHANGED rpFaults
       ELSE /\ rpFaults < MaxRpFaults /\ rpFaults' = rpFaults + 1
            /\ UNCHANGED phase
    /\ UNCHANGED <<onChain, count, treeData, inTables, rpRestarts>>

-----------------------------------------------------------------------------
(* Save.  Every table is a transaction of its own: a failure leaves the    *)
(* tables before it written and the round is done again from Update.       *)

Upserted == [n \in DOMAIN nodeRows \cup DOMAIN nodes |->
               IF n \in DOMAIN nodes THEN nodes[n] ELSE nodeRows[n]]

SaveFails(nodesWritten) ==
  /\ phase = "save"
  /\ rpFaults < MaxRpFaults /\ rpFaults' = rpFaults + 1
  /\ nodeRows' = IF nodesWritten THEN Upserted ELSE nodeRows
  /\ phase' = "update"
  /\ UNCHANGED <<onChain, count, lastTree, queue, treeData, lookOld, nodes,
                 treeRows, rpRestarts>>

\* SaveRewardTrees keeps the queue when the trees cannot be read back, and
\* has then replaced the trees it held.
RefreshFails ==
  /\ phase = "save" /\ queue # {}
  /\ rpFaults < MaxRpFaults /\ rpFaults' = rpFaults + 1
  /\ nodeRows' = Upserted
  /\ treeRows' = treeRows \cup queue
  /\ treeData' = {}
  /\ phase' = "update"
  /\ UNCHANGED <<onChain, count, lastTree, queue, lookOld, nodes, rpRestarts>>

Save ==
  /\ phase = "save"
  /\ nodeRows' = Upserted
  /\ treeRows' = treeRows \cup queue
  /\ treeData' = IF queue = {} THEN treeData ELSE treeRows'
  /\ queue' = {}
  /\ count' = (count + 1) % (TreesEvery * NodesEvery)
  /\ phase' = "update"
  /\ UNCHANGED <<onChain, lastTree, lookOld, nodes, rpFaults, rpRestarts>>

\* NewRocketpoolExporter and the start of Run.  When a call fails there, Run
\* returns and nothing starts it again.
Restart(ok) ==
  /\ rpRestarts < MaxRpRestarts /\ rpRestarts' = rpRestarts + 1
  /\ IF ok THEN UNCHANGED rpFaults
     ELSE rpFaults < MaxRpFaults /\ rpFaults' = rpFaults + 1
  /\ phase' = IF ok THEN "update" ELSE "stopped"
  /\ count' = 0 /\ queue' = {} /\ lookOld' = TRUE /\ nodes' = NoNodes
  /\ treeData' = treeRows
  /\ lastTree' = IF treeRows = {} THEN 0 ELSE Max(treeRows)
  /\ UNCHANGED <<onChain, inTables>>

Loop == Update \/ Save \/ RefreshFails \/ \E written \in BOOLEAN : SaveFails(written)

Next ==
  \/ Publish
  \/ \E n \in Nodes : Register(n) \/ \E i \in Intervals : Claim(n, i)
  \/ Loop
  \/ \E ok \in BOOLEAN : Restart(ok)

-----------------------------------------------------------------------------
\* The trees in the table are those of the first intervals, without a gap,
\* however downloads and writes fail and the exporter restarts: a restart
\* looks for trees from the highest interval in the table on, so one missing
\* below it would stay missing (rocketpool.go:257-260, :569).
TreesHaveNoGap == treeRows = 0 .. Cardinality(treeRows) - 1

\* The rewards in a node's row are summed over trees that are in the table,
\* and none is counted both as claimed and as unclaimed (rocketpool.go:1644-1673).
RowsHaveTrees ==
  \A n \in DOMAIN nodeRows :
    /\ nodeRows[n].claimed \cup nodeRows[n].unclaimed \subseteq treeRows
    /\ nodeRows[n].claimed \cap nodeRows[n].unclaimed = {}

\* The cumulative rewards of a node never go down, though the trees in memory
\* are lost when they cannot be read back, and the nodes at a restart
\* (rocketpool.go:1194-1201, :1617).
RewardsGrow ==
  [][\A n \in DOMAIN nodeRows :
       n \in DOMAIN nodeRows' /\ nodeRows[n].claimed \subseteq nodeRows'[n].claimed]_nodeRows

\* A tree is looked for on the previous address until one was found on the
\* new one; when a download fails in that round, those of the previous
\* address that are missing are not looked for again (rocketpool.go:580, :608).
OldTreesLost == ~lookOld /\ lastTree < OldTrees

Registered(n, i) == n \in registered /\ i \in claims[n]
Counted(n, i) == n \in DOMAIN nodeRows /\ i \in nodeRows[n].claimed

\* Again and again everything the nodes claimed is part of the cumulative rewards
\* of their rows, unless Run has returned or old trees were given up.
ClaimsCounted ==
  []<>(\/ \A n \in Nodes, i \in 0 .. MaxTrees - 1 : Registered(n, i) => Counted(n, i)
       \/ phase = "stopped" \/ OldTreesLost)
=============================================================================
