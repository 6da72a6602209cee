-------------------------- MODULE DependencyWrites ---------------------------
(***************************************************************************)
(* add_dependency and remove_dependency as concurrent requests run them.   *)
(* Every request has a database session of its own and PostgreSQL's        *)
(* default isolation (READ COMMITTED): each statement sees what had been   *)
(* committed when it started.  The cycle search of _would_create_cycle is  *)
(* one SELECT per task it visits, so the graph may change between two      *)
(* steps of a search, and between the search and the INSERT.               *)
(***************************************************************************)
EXTENDS TaskGraph

CONSTANT Sessions       \* requests that may be open at the same time

VARIABLES
  edges,      \* committed rows of task_dependencies, <<task, depends_on>>
  pc,         \* where the request of a session is
  req,        \* the edge a session adds or removes
  visited,    \* local variable of the search
  frontier,   \* local variable of the search
  stale,      \* auxiliary: another add has committed while this one was open
  raced       \* auxiliary: some add has committed while stale

vars == <<edges, pc, req, visited, frontier, stale, raced>>

Pairs == Tasks \X Tasks

NoEdge == << >>

\* The statement a session runs next.  A session at inserted or removed has
\* flushed an INSERT or DELETE that only its own transaction sees.
Step == {"idle", "exists", "search", "insert", "inserted", "removed"}

Adding == {"exists", "search", "insert", "inserted"}

\* An uncommitted INSERT or DELETE of an edge makes others wait: the unique
\* constraint uq_task_dependencies_edge, or the lock on the deleted row.
Locked(e) == \E s \in Sessions : pc[s] \in {"inserted", "removed"} /\ req[s] = e

Goto(s, step) == pc' = [pc EXCEPT ![s] = step]

\* A request that is over takes its local variables with it.
Forget(s) ==
  /\ Goto(s, "idle")
  /\ req' = [req EXCEPT ![s] = NoEdge]
  /\ visited' = [visited EXCEPT ![s] = {}]
  /\ frontier' = [frontier EXCEPT ![s] = {}]

------------------------------------------------------------------------------

Init ==
  /\ edges = {}
  /\ pc = [s \in Sessions |-> "idle"]
  /\ req = [s \in Sessions |-> NoEdge]
  /\ visited = [s \in Sessions |-> {}]
  /\ frontier = [s \in Sessions |-> {}]
  /\ stale = [s \in Sessions |-> FALSE]
  /\ raced = FALSE

\* The two get_task calls find their tasks: no operation deletes one.
BeginAdd(s, e) ==
  /\ pc[s] = "idle"
  /\ e[1] # e[2]                                \* SelfDependencyError
  /\ Goto(s, "exists")
  /\ req' = [req EXCEPT ![s] = e]
  /\ UNCHANGED <<edges, visited, frontier, stale, raced>>

\* DuplicateDependencyError, CyclicDependencyError, the IntegrityError of the
\* unique constraint, or any other exception: get_db_session rolls back.
Rollback(s) ==
  /\ pc[s] # "idle"
  /\ Forget(s)
  /\ stale' = [stale EXCEPT ![s] = FALSE]
  /\ UNCHANGED <<edges, raced>>

CheckExists(s) ==
  /\ pc[s] = "exists"
  /\ \/ req[s] \in edges /\ Rollback(s)
     \/ /\ req[s] \notin edges
        /\ Goto(s, "search")
        /\ visited' = [visited EXCEPT ![s] = {}]
        /\ frontier' = [frontier EXCEPT ![s] = {req[s][2]}]
        /\ UNCHANGED <<edges, req, stale, raced>>

\* Faulty variants of the search: no specification uses them.
VisitWithoutMemory(s, c) ==         \* forgets what it has seen
  /\ pc[s] = "search"
  /\ c \in frontier[s]
  /\ \/ c = req[s][1] /\ Rollback(s)
     \/ /\ c # req[s][1]
        /\ frontier' = [frontier EXCEPT ![s] = (@ \ {c}) \cup DependsOn(edges, c)]
        /\ UNCHANGED <<edges, pc, req, visited, stale, raced>>

VisitNeighboursOnly(s, c) ==        \* looks one edge deep
  /\ pc[s] = "search"
  /\ c \in frontier[s]
  /\ \/ c = req[s][1] /\ Rollback(s)
     \/ /\ c # req[s][1]
        /\ frontier' = [frontier EXCEPT ![s] = @ \ {c}]
        /\ UNCHANGED <<edges, pc, req, visited, stale, raced>>

VisitAppendingRows(s, c) ==         \* frontier.append(dependency)
  /\ pc[s] = "search"
  /\ c \in frontier[s]
  /\ \/ c = req[s][1] /\ Rollback(s)
     \/ /\ c # req[s][1]
        /\ frontier' = [frontier EXCEPT ![s] = (@ \ {c}) \cup {e \in edges : e[1] = c}]
        /\ UNCHANGED <<edges, pc, req, visited, stale, raced>>

\* One turn of the loop.  The code's frontier is a stack with repetitions; in
\* what order it is emptied makes no difference to what is visited.
Visit(s, c) ==
  /\ pc[s] = "search"
  /\ c \in frontier[s]
  /\ \/ c = req[s][1] /\ Rollback(s)
     \/ /\ c # req[s][1]
        /\ c \in visited[s]
        /\ frontier' = [frontier EXCEPT ![s] = @ \ {c}]
        /\ UNCHANGED <<edges, pc, req, visited, stale, raced>>
     \/ /\ c # req[s][1]
        /\ c \notin visited[s]
        /\ visited' = [visited EXCEPT ![s] = @ \cup {c}]
        /\ frontier' = [frontier EXCEPT ![s] = (@ \ {c}) \cup DependsOn(edges, c)]
        /\ UNCHANGED <<edges, pc, req, stale, raced>>

EndSearch(s) ==
  /\ pc[s] = "search"
  /\ frontier[s] = {}
  /\ Goto(s, "insert")
  /\ visited' = [visited EXCEPT ![s] = {}]
  /\ UNCHANGED <<edges, req, frontier, stale, raced>>

Insert(s) ==
  /\ pc[s] = "insert"
  /\ ~ Locked(req[s])
  /\ \/ req[s] \in edges /\ Rollback(s)
     \/ /\ req[s] \notin edges
        /\ Goto(s, "inserted")
        /\ UNCHANGED <<edges, req, visited, frontier, stale, raced>>

CommitAdd(s) ==
  /\ pc[s] = "inserted"
  /\ Forget(s)
  /\ edges' = edges \cup {req[s]}
  /\ stale' = [o \in Sessions |-> o # s /\ (stale[o] \/ pc[o] \in Adding)]
  /\ raced' = (raced \/ stale[s])

\* remove_dependency up to the flush of its DELETE.  A session that finds the
\* row gone, at once or after waiting for its lock, changes nothing.
Remove(s, e) ==
  /\ pc[s] = "idle"
  /\ e \in edges
  /\ ~ Locked(e)
  /\ Goto(s, "removed")
  /\ req' = [req EXCEPT ![s] = e]
  /\ UNCHANGED <<edges, visited, frontier, stale, raced>>

CommitRemove(s) ==
  /\ pc[s] = "removed"
  /\ Forget(s)
  /\ edges' = edges \ {req[s]}
  /\ UNCHANGED <<stale, raced>>

Search(s) == (\E c \in Tasks : Visit(s, c)) \/ EndSearch(s)

Next ==
  \E s \in Sessions :
    \/ \E e \in Pairs : BeginAdd(s, e) \/ Remove(s, e)
    \/ CheckExists(s) \/ Search(s) \/ Insert(s)
    \/ CommitAdd(s) \/ CommitRemove(s) \/ Rollback(s)

Spec == Init /\ [][Next]_vars

\* A search that has started is run: the event loop resumes the request when
\* the answer to its SELECT is there.
FairSpec == Spec /\ \A s \in Sessions : WF_vars(Search(s))

------------------------------------------------------------------------------
(***************************************************************************)
(* Properties                                                              *)
(***************************************************************************)

TypeOK ==
  /\ edges \in SUBSET Pairs
  /\ pc \in [Sessions -> Step]
  /\ req \in [Sessions -> Pairs \cup {NoEdge}]
  /\ \A s \in Sessions : pc[s] # "idle" => req[s] \in Pairs
  /\ visited \in [Sessions -> SUBSET Tasks]
  /\ frontier \in [Sessions -> SUBSET Tasks]
  /\ stale \in [Sessions -> BOOLEAN]
  /\ raced \in BOOLEAN

\* The documented invariant of the graph: no cycle, ever.  The code does not
\* keep it: of two adds that search before either commits, both may succeed.
CycleFree == Acyclic(edges)

\* While no other add overtakes it, what a search has read stays good enough
\* whatever is removed: the tasks visited depend only on tasks visited or
\* still to visit, and a search that is over has shown that the new edge does
\* not lead back to where it starts.
SearchSound ==
  \A s \in Sessions : ~ stale[s] =>
    /\ pc[s] = "search" =>
         /\ req[s] \notin edges
         /\ req[s][1] \notin visited[s]
         /\ req[s][2] \in visited[s] \cup frontier[s]
         /\ \A v \in visited[s] : DependsOn(edges, v) \subseteq visited[s] \cup frontier[s]
    /\ pc[s] \in {"insert", "inserted"} =>
         /\ req[s] \notin edges
         /\ ~ LeadsTo(edges, req[s][2], req[s][1])

\* What the code does keep: a cycle needs an add that commits after another
\* add has committed behind its back.  Removals between the steps of a search
\* and any number of adds that are rolled back do no harm.
CycleNeedsRace == ~ raced => Acyclic(edges)

\* An add that no other add overtook takes effect as if it had run alone at
\* the moment of its commit: the edge is new and closes no cycle in the graph
\* as it is then, whatever was removed since the search read it.
AddsAsIfAlone ==
  [][\A s \in Sessions :
       pc[s] = "inserted" /\ edges' = edges \cup {req[s]} /\ ~ stale[s]
         => req[s] \notin edges /\ ~ LeadsTo(edges, req[s][2], req[s][1])]_vars

\* Every search ends, on a graph that a race has made cyclic and that others
\* change while it runs.
SearchEnds == \A s \in Sessions : pc[s] = "search" ~> pc[s] # "search"

==============================================================================
