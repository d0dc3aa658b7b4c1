CONSTANTS
  Assets = {a1, a2, a3, a4}
  Names = {n1, n2}
  Null = Null
  Requests = {r1}
  Engine = "sqlite"
  MaxVersion = 2
SPECIFICATION Spec
SYMMETRY Symmetry
CHECK_DEADLOCK FALSE
INVARIANT ClosureExact
PROPERTY ImplementsForest
