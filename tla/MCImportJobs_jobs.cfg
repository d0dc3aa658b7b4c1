CONSTANTS
  site = site
  rack = rack
  Names = {site, rack}
  None = None
  Files <- MCFiles
  Jobs = {j1, j2}
  BatchSize = 2
  QueueDepth = 1
  MaxSaves = 2
  MaxCrashes = 1
SPECIFICATION FairSpec
CHECK_DEADLOCK FALSE
INVARIANT ImportIsSound
PROPERTIES ValidationIsExact UndisturbedIsWhole EveryJobStops
