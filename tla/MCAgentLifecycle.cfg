\* The default of two automatic retries, the agent used for two runs, two heartbeats in each.
CONSTANTS
  MaxAttempts = 3
  MaxRuns = 2
  MaxBeats = 2
SPECIFICATION FairSpec
INVARIANTS
  TypeOK
  CancelHonoured
  OneStory
  RetriesEarned
PROPERTIES
  NoHookAfterCancel
  RunEnds
\* An agent whose runs are used up stays as it is.
CHECK_DEADLOCK FALSE
