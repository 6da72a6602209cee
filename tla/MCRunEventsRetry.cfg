CONSTANTS
  Clients = {c1}
  MaxLaunches = 2
  MaxAttempts = 1
  MaxBeats = 0
SPECIFICATION FairSpec
PROPERTY StreamEndsOnFinalRow
