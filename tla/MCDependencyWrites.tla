------------------------- MODULE MCDependencyWrites --------------------------
(* A small instance of DependencyWrites for TLC, and two checks of the     *)
(* operators of TaskGraph against independent definitions.                 *)
EXTENDS DependencyWrites

Relations == INSTANCE Relation

\* Acyclic is the absence of a path from a task to itself, and LeadsTo is
\* the reflexive transitive closure of the edges: for every graph over Tasks.
ASSUME GraphOperatorsMeanPaths ==
  \A graph \in SUBSET Pairs :
    LET path == Relations!TransitiveClosure(
                  [x, y \in Tasks |-> <<x, y>> \in graph], Tasks)
    IN
    /\ Acyclic(graph) <=> \A t \in Tasks : ~ path[t, t]
    /\ \A d, t \in Tasks : LeadsTo(graph, d, t) <=> (d = t \/ path[d, t])

==============================================================================
