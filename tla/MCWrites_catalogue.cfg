SPECIFICATION FairSpec
CONSTANTS
  Scenarios <- MCScenarios
  Engines = {"sqlite", "postgres"}
  Requests = {r1, r2}
  MaxStarted = 2
  Attempts = 2
  Members = {1, 2}
  Indexed <- MCIndexed
  Promised <- MCPromised
  Exempt <- MCExempt
CHECK_DEADLOCK FALSE
INVARIANTS RecordsAgree NothingDangles
PROPERTIES NoLostUpdate CommitKeepsItsWord RequestsEnd
