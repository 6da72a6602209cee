----------------------------- MODULE TaskMemory ------------------------------
(***************************************************************************)
(* What the Task Memory Service promises: tasks with a status, a graph of  *)
(* dependencies that stays free of cycles, and an append-only history of   *)
(* every status change.  Each operation of TaskService is one action, as   *)
(* it is when no two sessions overlap; RunSessions and DependencyWrites    *)
(* take the same operations apart into their database statements.          *)
(***************************************************************************)
EXTENDS TaskStates, TaskGraph, Naturals, Sequences

CONSTANT MaxHistory     \* bound for TLC: entries in the history of a task

ASSUME MaxHistoryIsNat == MaxHistory \in Nat

VARIABLES
  status,    \* status of each task, Absent before create_task
  deps,      \* rows of task_dependencies
  history,   \* rows of execution_history, per task in order of insertion
  gate       \* auxiliary: the blockers a task had when it last started

vars == <<status, deps, history, gate>>

Absent == "absent"

DependencyType == {"blocks", "informs"}

Dependency == [task : Tasks, depends_on : Tasks, type : DependencyType]

HistoryEntry == [from : TaskStatus, to : TaskStatus]

Existing == {t \in Tasks : status[t] # Absent}

\* The graph the cycle search walks: edges of either type.
Edges == {<<e.task, e.depends_on>> : e \in deps}

Blockers(t) == {e.depends_on : e \in {x \in deps : x.task = t /\ x.type = "blocks"}}

\* Faulty variants, as in TaskStates: no specification uses them.
DependenciesApproved(t) == \A d \in Blockers(t) : status[d] \in {"approved", "merged"}

DependenciesSatisfied(t) == \A d \in Blockers(t) : status[d] = "merged"

------------------------------------------------------------------------------

Init ==
  /\ status = [t \in Tasks |-> Absent]
  /\ deps = {}
  /\ history = [t \in Tasks |-> <<>>]
  /\ gate = [t \in Tasks |-> {}]

CreateTaskAsDraft(t) ==
  /\ status[t] = Absent
  /\ status' = [status EXCEPT ![t] = "draft"]
  /\ UNCHANGED <<deps, history, gate>>

CreateTask(t) ==
  /\ status[t] = Absent
  /\ status' = [status EXCEPT ![t] = "pending"]
  /\ UNCHANGED <<deps, history, gate>>

AddDependency(t, d, type) ==
  /\ t # d                                      \* SelfDependencyError
  /\ {t, d} \subseteq Existing                  \* TaskNotFoundError
  /\ <<t, d>> \notin Edges                      \* DuplicateDependencyError
  /\ ~ LeadsTo(Edges, d, t)                     \* CyclicDependencyError
  /\ deps' = deps \cup {[task |-> t, depends_on |-> d, type |-> type]}
  /\ UNCHANGED <<status, history, gate>>

RemoveDependency(e) ==
  /\ deps' = deps \ {e}
  /\ UNCHANGED <<status, history, gate>>

TransitionRecordedAfterUpdate(t, to) ==
  /\ t \in Existing
  /\ Len(history[t]) < MaxHistory
  /\ IsLegalTaskTransition(status[t], to)
  /\ RequiresDependenciesSatisfied(to) => DependenciesSatisfied(t)
  /\ status' = [status EXCEPT ![t] = to]
  /\ history' = [history EXCEPT ![t] = Append(@, [from |-> status'[t], to |-> to])]
  /\ gate' = IF to = "running" THEN [gate EXCEPT ![t] = Blockers(t)] ELSE gate
  /\ UNCHANGED deps

TransitionStatus(t, to) ==
  /\ t \in Existing
  /\ Len(history[t]) < MaxHistory
  /\ IsLegalTaskTransition(status[t], to)
  /\ RequiresDependenciesSatisfied(to) => DependenciesSatisfied(t)
  /\ status' = [status EXCEPT ![t] = to]
  /\ history' = [history EXCEPT ![t] = Append(@, [from |-> status[t], to |-> to])]
  /\ gate' = IF to = "running" THEN [gate EXCEPT ![t] = Blockers(t)] ELSE gate
  /\ UNCHANGED deps

Next ==
  \/ \E t \in Tasks : CreateTask(t)
  \/ \E t, d \in Tasks, type \in DependencyType : AddDependency(t, d, type)
  \/ \E e \in deps : RemoveDependency(e)
  \/ \E t \in Tasks, to \in TaskStatus : TransitionStatus(t, to)

Spec == Init /\ [][Next]_vars

------------------------------------------------------------------------------
(***************************************************************************)
(* Properties                                                              *)
(***************************************************************************)

TypeOK ==
  /\ status \in [Tasks -> TaskStatus \cup {Absent}]
  /\ deps \in SUBSET Dependency
  /\ history \in [Tasks -> Seq(HistoryEntry)]
  /\ gate \in [Tasks -> SUBSET Tasks]

\* No group of tasks ends up with each member waiting for another one: the
\* check in add_dependency keeps the graph free of cycles over any sequence
\* of additions and removals.
NoMutualWait == Acyclic(Edges)

IsWalk(h, current) ==
  /\ \A i \in 1..Len(h) :
       /\ IsLegalTaskTransition(h[i].from, h[i].to)
       /\ h[i].from = IF i = 1 THEN "pending" ELSE h[i - 1].to
  /\ h # <<>> => current = h[Len(h)].to
  /\ h = <<>> => current \in {"pending", Absent}

\* The history of a task is a walk through the state machine that starts at
\* pending, never skips a step and ends at the status the task has now, so
\* the timeline the dashboard draws is the life the task really had.
HistoryIsWalk == \A t \in Tasks : IsWalk(history[t], status[t])

\* The two gates of the pipeline: a merged task was started, evaluated, put
\* up for approval and approved, in this order and with nothing in between.
TwoGates ==
  \A t \in Tasks : \A i \in 1..Len(history[t]) :
    LET h == history[t] IN
    h[i].to = "merged" =>
      /\ i >= 6
      /\ h[i - 1].to = "approved"
      /\ h[i - 2].to = "awaiting_approval"
      /\ h[i - 3].to = "evaluating"
      /\ h[i - 4].to = "running"

\* The tasks that blocked a task when it started were merged then and are
\* merged still: what an agent builds on is never taken back.
GateHeld == \A t \in Tasks : \A d \in gate[t] : status[d] = "merged"

\* Nothing leaves a terminal status, and history is only ever appended to.
HistoryOnlyGrows ==
  [][\A t \in Tasks :
       /\ status[t] \in TerminalStatus => status'[t] = status[t]
       /\ Len(history'[t]) >= Len(history[t])
       /\ \A i \in 1..Len(history[t]) : history'[t][i] = history[t][i]]_vars

==============================================================================
