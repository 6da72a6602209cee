\* A user edits a task while its run settles.
CONSTANTS
  Requests = {q1, q2, q3}
  Ops = {"start", "cancel", "patch"}
  MaxFaults = 0
  HandsOff = FALSE
  Overlap = FALSE
  Timely = TRUE
SPECIFICATION FairSpec
PROPERTY TerminalStays
CHECK_DEADLOCK FALSE
