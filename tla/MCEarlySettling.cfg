\* An agent that returns before the request that launched it has committed.
CONSTANTS
  Requests = {q1, q2}
  Ops = {"start"}
  MaxFaults = 0
  HandsOff = TRUE
  Overlap = FALSE
  Timely = FALSE
SPECIFICATION FairSpec
INVARIANT RowPrecedesSettling
CHECK_DEADLOCK FALSE
