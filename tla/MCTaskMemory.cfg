\* Two tasks, long enough lives for one failed run, a second one and a merge.
CONSTANTS
  Tasks = {t1, t2}
  MaxHistory = 9
SYMMETRY Symmetry
SPECIFICATION Spec
INVARIANTS
  TypeOK
  NoMutualWait
  HistoryIsWalk
  TwoGates
  GateHeld
PROPERTY HistoryOnlyGrows
CHECK_DEADLOCK FALSE
