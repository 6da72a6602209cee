------------------------------ MODULE TaskGraph ------------------------------
(***************************************************************************)
(* The dependency graph between tasks.  Nothing here has state: TaskMemory *)
(* and DependencyWrites build on these operators.  An edge <<t, d>> says   *)
(* that task t depends on task d.                                          *)
(***************************************************************************)
CONSTANT Tasks      \* the tasks of the graph, by identifier

DependsOn(edges, t) == {d \in Tasks : <<t, d>> \in edges}

\* A set of tasks that contains everything its members depend on.
Closed(edges, S) == \A t \in S : DependsOn(edges, t) \subseteq S

LeadsToReversed(edges, d, t) ==     \* faulty variant: starts at the wrong end
  \A S \in SUBSET Tasks : t \in S /\ Closed(edges, S) => d \in S

\* d leads back to t along the dependencies: every closed set that holds d
\* holds t.  This is what the search of _would_create_cycle decides.
LeadsTo(edges, d, t) ==
  \A S \in SUBSET Tasks : d \in S /\ Closed(edges, S) => t \in S

\* No group of tasks waits for itself: each group has a member that depends
\* on no member of the group.  On a finite graph this is cycle-freedom.
Acyclic(edges) ==
  \A U \in (SUBSET Tasks) \ {{}} : \E t \in U : DependsOn(edges, t) \cap U = {}

==============================================================================
