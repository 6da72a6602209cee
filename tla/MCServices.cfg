SPECIFICATION Spec
CONSTANTS
  Triggers = {1, 2}
  Asked <- MCAsked
  Registered <- MCRegistered
  MaxRuns = 2
  Editors = {1, 2, 3, 4}
  Callers = {1, 2, 3, 4}
  NoToken = 0
  Requests = {1, 2}
  Ids = {1, 2, 3}
  MaxClock = 2
  Limits = {1, 2}
  Files = {1, 2}
  PathHints <- MCPathHints
  Contents <- MCContents
  Query <- MCQuery
  LinesPerChunk = 2
  OverlapLines = 1
  Budgets = {1, 3, 4}
  MaxAttempts = 3
  MaxChunks = 3
  Streams <- MCStreams
  Values = {1, 3}
  MaxRows <- MCMaxRows
INVARIANTS
  ServicesTypeOK GateJudgesTheResult EvaluatedRunsAreFinal NumbersHaveNoGaps
    PackageIsSound CallerGetsOneAnswer SummariesAgree
PROPERTIES
  TriggerIsWhole ActiveVersionStays UpdatesAsIfAlone
CHECK_DEADLOCK FALSE
