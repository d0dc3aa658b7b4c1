SPECIFICATION Spec
CONSTANTS
  Ports = {1, 2, 3, 4, 5, 6, 7, 8, 9}
  AssetOf <- MCAssetOf
  Positions = {1, 2}
  Media = {m1, m2}
  Engines = {"sqlite", "postgres"}
  Plants <- MCPlants
  BusyPorts = {1, 2, 4, 7, 9}
  BusyAssets = {"switch", "b"}
  MaxStrands = 2
  Requests = {r1, r2}
  MaxStarted = 2
  MaxRows = 12
  Attempts = 2
  HopLimit = 6
  NodeBudget = 11
SYMMETRY MCSymmetry
CHECK_DEADLOCK FALSE
INVARIANTS PortsAreSound BreakoutAgrees TraceIsTrue
