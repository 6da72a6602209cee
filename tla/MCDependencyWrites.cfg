\* Three tasks, so that a cycle may be longer than an edge and its reverse, and
\* two requests at a time.
CONSTANTS
  Tasks = {t1, t2, t3}
  Sessions = {s1, s2}
SPECIFICATION FairSpec
INVARIANTS
  TypeOK
  SearchSound
  CycleNeedsRace
PROPERTIES
  
  SearchEnds
