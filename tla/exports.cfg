SPECIFICATION Spec
CONSTANTS
  MaxEpoch = 2
  Versions = {v1}
  Exports = {x1, x2}
  Writes = {w1, "last attestations"}
  OfflineAfter = 1
  MaxSavers = 1
  MaxFaults = 1
  MaxDay = 2
  EpochsPerDay = 2
  SlotsPerEpoch = 2
  Ahead = 1
  Seeded = {{1}}
  MaxTools = 1
  MaxStatFaults = 1
  MaxClock = 2
  SlotVizBack = 1
  RelaysBack = 2
  SyncLag = 1
  MaxSlot = 6
  Validators = {1}
  InclusionDelay = 2
  MaxShown = 3
  MaxKey = 100
  MaxCacheFaults = 1
  HeadOfNode = 2
  MaxRepairs = 2
  MaxLapses = 1
  Callers = {c1, c2}
  EpochsAsked = 2
  ForkEpoch = 1
  Holes = {2}
  CacheSize = 2
  MaxSwitches = 1
  MaxErrors = 1
INVARIANTS     DayIsCounted
PROPERTIES DayWrittenOnce NothingGoesBack
CHECK_DEADLOCK FALSE
