------------------------------ MODULE MCRounds ------------------------------
(***************************************************************************)
(* Loops that run on a timer beside the export: the rounds that look for   *)
(* the events of a subscription and the exporters of relays, ETH.STORE,    *)
(* validator tags and Rocket Pool.  They share no state in these models:   *)
(* Init picks one of them, and only it moves.                              *)
(***************************************************************************)
EXTENDS Integers, FiniteSetsExt

CONSTANTS
  Kinds, MaxEpoch, MinThreshold, Repeat, Window, LookBack, TooFarBehind,
  EpochGap, TimeGap, MaxProposals, MaxStalls, MaxMishaps, MaxEdits,
  MaxPayload, PageSize, Overlap, MaxRelayFaults, MaxToday, MaxStoreFaults,
  Keys, Minipools, PoolKeys,
  Nodes, OldTrees, MaxTrees, TreesEvery, NodesEvery, MaxRpFaults, MaxRpRestarts,
  Timelines

\* Pauses of a few epochs, of one and two lengths.
MCEpochGap == [k \in {"machine", "collateral"} |-> IF k = "machine" THEN 1 ELSE 2]
MCTimeGap == [k \in {"network", "fee", "claim", "sync", "client", "tax"} |->
                IF k \in {"network", "claim"} THEN 2 ELSE 3]

\* Chains of up to six blocks at unequal distances, and a long one, on which the
\* bisection can leave the chain.
MCTimelines ==
  LET Sum(gaps, n) == MapThenSumSet(LAMBDA g : gaps[g], 1 .. n)
  IN UNION {{[b \in 1 .. latest + 1 |-> Sum(gaps, b - 1)] : gaps \in [1 .. latest -> {1, 3}]}
              : latest \in 2 .. 5}
     \cup {[b \in 1 .. 19 |-> 2 * (b - 1)]}

VARIABLES
  active,
  head, fin, attested, proposed, slashed, alarm, sub, pc, found, stamps, told,
  believed, spent,
  delivered, blocks, used, walk, low, offset, inserted, due, relayFaults,
  today, storeRows, todo, filling, storeFaults,
  network, tags, answer,
  published, registered, claims, count, phase, lastTree, queue, treeData, lookOld,
  nodes, treeRows, nodeRows, rpFaults, rpRestarts,
  times, wanted, candidate, pivot, best, nearest, result

ofEvents == <<head, fin, attested, proposed, slashed, alarm, sub, pc, found, stamps, told,
              believed, spent>>
ofRelays == <<delivered, blocks, used, walk, low, offset, inserted, due, relayFaults>>
ofEthStore == <<today, storeRows, todo, filling, storeFaults>>
ofTags == <<network, tags, answer>>
ofRocketPool == <<published, registered, claims, count, phase, lastTree, queue, treeData,
                  lookOld, nodes, treeRows, nodeRows, rpFaults, rpRestarts>>
ofSearch == <<times, wanted, candidate, pivot, best, nearest, result>>
vars == <<active, ofEvents, ofRelays, ofEthStore, ofTags, ofRocketPool, ofSearch>>

N == INSTANCE NotificationCollectors
L == INSTANCE RelayExporter
E == INSTANCE EthStore
T == INSTANCE ValidatorTags
P == INSTANCE RocketPool
B == INSTANCE BlockSearch

ASSUME RoundsAssumption ==
  /\ N!CollectorsAssumption /\ L!RelayAssumption /\ E!EthStoreAssumption
  /\ T!TagsAssumption /\ P!RocketPoolAssumption /\ B!BlockSearchAssumption

\* A component that is not picked rests in one of its initial states.
Init ==
  /\ active \in {"events", "relays", "ethstore", "tags", "rocketpool", "search"}
  /\ N!Init /\ L!Init /\ E!Init /\ T!Init /\ P!Init /\ B!Init
  /\ active # "events" => sub.kind = "slashed" /\ sub.threshold = MinThreshold
  /\ active # "search" => times = (CHOOSE t \in Timelines : TRUE) /\ wanted = 0

Collecting(Step) == active = "events" /\ Step
  /\ UNCHANGED <<active, ofRelays, ofEthStore, ofTags, ofRocketPool, ofSearch>>
Relaying(Step) == active = "relays" /\ Step
  /\ UNCHANGED <<active, ofEvents, ofEthStore, ofTags, ofRocketPool, ofSearch>>
Storing(Step) == active = "ethstore" /\ Step
  /\ UNCHANGED <<active, ofEvents, ofRelays, ofTags, ofRocketPool, ofSearch>>
Tagging(Step) == active = "tags" /\ Step
  /\ UNCHANGED <<active, ofEvents, ofRelays, ofEthStore, ofRocketPool, ofSearch>>
Pooling(Step) == active = "rocketpool" /\ Step
  /\ UNCHANGED <<active, ofEvents, ofRelays, ofEthStore, ofTags, ofSearch>>
Searching(Step) == active = "search" /\ Step
  /\ UNCHANGED <<active, ofEvents, ofRelays, ofEthStore, ofTags, ofRocketPool>>
Next ==
  \/ Collecting(N!Next) \/ Relaying(L!Next) \/ Storing(E!Next) \/ Tagging(T!Next)
  \/ Pooling(P!Next) \/ Searching(B!Next)

\* Each component is fair to its own steps.  Only one component moves in a
\* behaviour, so fair steps of different components share a conjunct.
Fairness ==
  /\ WF_vars(Collecting(N!Collect) \/ Relaying(L!Export) \/ Storing(E!Exporting)
               \/ Tagging(T!TagValidators) \/ Pooling(P!Loop) \/ Searching(B!Step))
  /\ WF_vars(Collecting(N!Queue) \/ Tagging(T!UpdatePubkeyTag))
  /\ WF_vars(Collecting(N!Stamp)) /\ WF_vars(Collecting(N!StoreState))
Spec == Init /\ [][Next]_vars /\ Fairness

\* Types of every component's variables.
TypeOK ==
  N!TypeOK /\ L!TypeOK /\ E!TypeOK /\ T!TypeOK /\ P!TypeOK /\ B!TypeOK

\* Nobody is told of an event too often, nor of the end of what was not told.
NotTooOften == N!NotTooOften

\* The cumulative rewards in a node's row never go down.
RewardsGrow == P!RewardsGrow

\* No slashing, no proposal and no end of an offline time is forgotten.
EventsTold == N!EventsTold

\* What each exporter has stored is right, whatever failed on the way: no
\* payload of a walk is missing, no day is stored before it is over, no tag is
\* older than the last answer, no tree is skipped and none is counted before it
\* is stored, and the block of a time is the nearest one.
ExportersSound ==
  L!WalkIsComplete /\ E!DaysAreOver /\ T!SsvIsLastAnswer
    /\ P!TreesHaveNoGap /\ P!RowsHaveTrees /\ B!FoundIsNearest

\* What a failed round left out is stored by a later one.
ExportersCatchUp ==
  /\ L!InTimeIsStored /\ E!StoreDaysSaved /\ P!ClaimsCounted
  /\ active = "tags" => T!TagsComeBack
  /\ active = "search" => B!SearchEnds
=============================================================================
