\* Two requests that add an edge and its reverse.
CONSTANTS
  Tasks = {t1, t2}
  Sessions = {s1, s2}
SPECIFICATION Spec
INVARIANT CycleFree
