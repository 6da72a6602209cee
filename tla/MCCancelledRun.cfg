\* A user moves a task on whose run is being cancelled.
CONSTANTS
  Requests = {q1, q2, q3}
  Ops = {"start", "cancel", "move"}
  MaxFaults = 0
  HandsOff = FALSE
  Overlap = FALSE
  Timely = TRUE
SPECIFICATION FairSpec
PROPERTY CancelledRunSettles
CHECK_DEADLOCK FALSE
