SPECIFICATION Spec
CONSTANTS
  MaxEpoch = 1
  Versions = {v1}
  Exports = {x1, x2}
  Writes = {"last attestations"}
  OfflineAfter = 1
  MaxSavers = 1
  MaxFaults = 1
  MaxDay = 3
  EpochsPerDay = 1
  SlotsPerEpoch = 1
  Ahead = 1
  Seeded = {{1}}
  MaxTools = 1
  MaxStatFaults = 1
  MaxClock = 1
  SlotVizBack = 1
  RelaysBack = 1
  SyncLag = 1
  MaxSlot = 1
  Validators = {1}
  InclusionDelay = 2
  MaxShown = 0
  MaxKey = 100
  MaxCacheFaults = 1
  HeadOfNode = 2
  MaxRepairs = 1
  MaxLapses = 1
  Callers = {c1}
  EpochsAsked = 2
  ForkEpoch = 1
  Holes = {2}
  CacheSize = 1
  MaxSwitches = 1
  MaxErrors = 1
PROPERTIES ExportsEnd DaysAreExported PagesFollow
CHECK_DEADLOCK FALSE
