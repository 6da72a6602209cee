CONSTANTS
  Requests = {q1, q2, q3}
  Ops = {"start", "retry", "cancel", "move", "patch"}
  MaxFaults = 1
  HandsOff = TRUE
  Overlap = FALSE
  Timely = TRUE
SPECIFICATION FairSpec
INVARIANTS
  TypeOK
  RunMirrorsTask
  LiveRunIsTracked
PROPERTIES
  HistoryTellsTheTruth
  TerminalStays
  RunSettles
\* Requests run out.
CHECK_DEADLOCK FALSE
