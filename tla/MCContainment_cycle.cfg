CONSTANTS
  Assets = {a1, a2}
  Names = {n1, n2}
  Null = Null
  Requests = {r1, r2}
  Engine = "postgres"
  MaxVersion = 3
SPECIFICATION Spec
SYMMETRY Symmetry
CHECK_DEADLOCK FALSE
INVARIANT NoContainmentCycle
