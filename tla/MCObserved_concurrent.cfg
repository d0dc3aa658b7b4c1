CONSTANTS
  States = {up, down, degraded}
  None = None
  Requests = {r1, r2}
  MaxTime = 4
  FlapThreshold = 1
  Serialised = TRUE
  MaxCrashes = 1
SPECIFICATION Spec
SYMMETRY Symmetry
CHECK_DEADLOCK FALSE
INVARIANTS LedgerIsTrue EveryChangeAccounted
PROPERTY ReportsKept
