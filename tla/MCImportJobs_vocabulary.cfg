CONSTANTS
  site = site
  rack = rack
  Names = {site, rack}
  None = None
  Files <- MCFiles
  Jobs = {j1}
  BatchSize = 2
  QueueDepth = 1
  MaxSaves = 0
  MaxCrashes = 0
SPECIFICATION FairSpec
CHECK_DEADLOCK FALSE
PROPERTY UndisturbedSucceeds
