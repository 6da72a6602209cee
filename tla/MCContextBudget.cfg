SPECIFICATION ContextSpec
CONSTANTS
  Files = {1, 2}
  PathHints <- MCPathHints
  Contents <- MCContents
  Query <- MCQuery
  LinesPerChunk = 2
  OverlapLines = 1
  Budgets = {1, 3, 4}
INVARIANT AssembledWithinBudget
CHECK_DEADLOCK FALSE
