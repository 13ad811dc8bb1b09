SPECIFICATION Spec
CONSTANTS
  Kinds = {"slashed", "proposal", "attestation", "offline", "machine", "collateral", "network", "fee", "claim", "sync", "client", "tax"}
  MaxEpoch = 7
  MinThreshold = 2
  Repeat = 2
  Window = 2
  LookBack = 4
  TooFarBehind = 3
  EpochGap <- MCEpochGap
  TimeGap <- MCTimeGap
  MaxProposals = 2
  MaxStalls = 1
  MaxMishaps = 1
  MaxEdits = 1
  MaxPayload = 5
  PageSize = 2
  Overlap = 2
  MaxRelayFaults = 1
  MaxToday = 3
  MaxStoreFaults = 1
  Keys = {k1, k2, k3}
  Minipools = {k1}
  PoolKeys = {k2}
  Nodes = {n1}
  OldTrees = 1
  MaxTrees = 3
  TreesEvery = 2
  NodesEvery = 3
  MaxRpFaults = 1
  MaxRpRestarts = 1
  Timelines <- MCTimelines
INVARIANTS TypeOK ExportersSound
PROPERTIES NotTooOften RewardsGrow  ExportersCatchUp
CHECK_DEADLOCK FALSE
