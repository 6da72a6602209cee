--------------------------- MODULE TaskMemoryProofs --------------------------
(***************************************************************************)
(* The invariants of TaskMemory, for any set of tasks and any length of    *)
(* their history.                                                          *)
(***************************************************************************)
EXTENDS TaskMemory, TaskGraphProofs, TLAPS

\* Appending keeps what was there and adds the new entry at the end.
LEMMA AppendEntry ==
  ASSUME NEW h \in Seq(HistoryEntry), NEW e \in HistoryEntry
  PROVE  /\ Append(h, e) \in Seq(HistoryEntry)
         /\ Len(Append(h, e)) = Len(h) + 1
         /\ Append(h, e)[Len(h) + 1] = e
         /\ \A i \in 1..Len(h) : Append(h, e)[i] = h[i]
  OBVIOUS

\* Every action keeps the variables in their types.
THEOREM TypeCorrect == Spec => []TypeOK
<1>1. Init => TypeOK
  BY DEF Init, TypeOK, Absent
<1>2. TypeOK /\ [Next]_vars => TypeOK'
  <2> SUFFICES ASSUME TypeOK, [Next]_vars PROVE TypeOK'
    OBVIOUS
  <2>1. ASSUME NEW t \in Tasks, CreateTask(t) PROVE TypeOK'
    BY <2>1 DEF CreateTask, TypeOK, TaskStatus, Absent
  <2>2. ASSUME NEW t \in Tasks, NEW d \in Tasks, NEW type \in DependencyType,
               AddDependency(t, d, type)
        PROVE  TypeOK'
    BY <2>2 DEF AddDependency, TypeOK, Dependency
  <2>3. ASSUME NEW e \in deps, RemoveDependency(e) PROVE TypeOK'
    BY <2>3 DEF RemoveDependency, TypeOK
  <2>4. ASSUME NEW t \in Tasks, NEW to \in TaskStatus, TransitionStatus(t, to)
        PROVE  TypeOK'
    <3>1. status[t] \in TaskStatus
      BY <2>4 DEF TransitionStatus, TypeOK, Existing
    <3>2. status' \in [Tasks -> TaskStatus \cup {Absent}]
      BY <2>4 DEF TransitionStatus, TypeOK
    <3>3. [from |-> status[t], to |-> to] \in HistoryEntry
      BY <3>1 DEF HistoryEntry
    <3>4. history' \in [Tasks -> Seq(HistoryEntry)]
      BY <2>4, <3>3, AppendEntry DEF TransitionStatus, TypeOK
    <3>5. Blockers(t) \subseteq Tasks
      BY DEF Blockers, TypeOK, Dependency
    <3>6. gate' \in [Tasks -> SUBSET Tasks]
      BY <2>4, <3>5 DEF TransitionStatus, TypeOK
    <3>. QED  BY <2>4, <3>2, <3>4, <3>6 DEF TransitionStatus, TypeOK
  <2>5. CASE UNCHANGED vars
    BY <2>5 DEF vars, TypeOK
  <2>. QED  BY <2>1, <2>2, <2>3, <2>4, <2>5 DEF Next
<1>. QED  BY <1>1, <1>2, PTL DEF Spec

\* add_dependency and remove_dependency keep the graph free of cycles, over
\* any sequence of calls.
THEOREM MutualWaitFree == Spec => []NoMutualWait
<1>1. Init => NoMutualWait
  <2>1. Init => Edges = {}
    BY DEF Init, Edges
  <2>. QED  BY <2>1, NoEdgesAcyclic DEF NoMutualWait
<1>2. NoMutualWait /\ [Next]_vars => NoMutualWait'
  <2> SUFFICES ASSUME NoMutualWait, [Next]_vars PROVE NoMutualWait'
    OBVIOUS
  <2>1. ASSUME NEW t \in Tasks, NEW d \in Tasks, NEW type \in DependencyType,
               AddDependency(t, d, type)
        PROVE  NoMutualWait'
    <3> DEFINE new == [task |-> t, depends_on |-> d, type |-> type]
    <3>1. Edges' = Edges \cup {<<t, d>>}
      <4>1. deps' = deps \cup {new} /\ new.task = t /\ new.depends_on = d
        BY <2>1 DEF AddDependency
      <4> HIDE DEF new
      <4>. QED  BY <4>1 DEF Edges
    <3>2. ~ LeadsTo(Edges, d, t)
      BY <2>1 DEF AddDependency
    <3>. QED  BY <3>1, <3>2, NewEdgeAcyclic DEF NoMutualWait
  <2>2. ASSUME NEW e \in deps, RemoveDependency(e) PROVE NoMutualWait'
    <3>1. Edges' \subseteq Edges
      BY <2>2 DEF RemoveDependency, Edges
    <3>. QED  BY <3>1, FewerEdgesAcyclic DEF NoMutualWait
  <2>3. CASE UNCHANGED deps
    <3>1. Edges' = Edges
      BY <2>3 DEF Edges
    <3>. QED  BY <3>1 DEF NoMutualWait
  <2>. QED
    BY <2>1, <2>2, <2>3 DEF Next, CreateTask, TransitionStatus, vars
<1>. QED  BY <1>1, <1>2, PTL DEF Spec

\* A walk that has not begun is the empty history.
LEMMA AbsentHasNoHistory ==
  ASSUME NEW h \in Seq(HistoryEntry), IsWalk(h, Absent)
  PROVE  h = <<>>
<1> SUFFICES ASSUME h # <<>> PROVE FALSE
  OBVIOUS
<1>1. Len(h) \in Nat /\ Len(h) # 0
  OBVIOUS
<1>2. h[Len(h)] \in HistoryEntry
  BY <1>1
<1>3. h[Len(h)].to \in TaskStatus
  BY <1>2 DEF HistoryEntry
<1>4. Absent \notin TaskStatus
  BY DEF Absent, TaskStatus
<1>. QED  BY <1>3, <1>4 DEF IsWalk

\* A legal transition recorded at the end of a walk makes a longer walk.
LEMMA LongerWalk ==
  ASSUME NEW h \in Seq(HistoryEntry), NEW e \in HistoryEntry,
         IsWalk(h, e.from), e.from # Absent,
         IsLegalTaskTransition(e.from, e.to)
  PROVE  IsWalk(Append(h, e), e.to)
<1> DEFINE g == Append(h, e)
           n == Len(h)
<1>1. /\ n \in Nat
      /\ Len(g) = n + 1
      /\ g[n + 1] = e
      /\ \A i \in 1..n : g[i] = h[i]
  BY AppendEntry
<1>2. n = 0 => h = <<>>
  OBVIOUS
<1>3. n > 0 => h # <<>>
  OBVIOUS
<1>4. /\ n = 0 => e.from = "pending"
      /\ n > 0 => e.from = h[n].to
  BY <1>1, <1>2, <1>3 DEF IsWalk
<1>5. \A i \in 1..n :
        /\ IsLegalTaskTransition(h[i].from, h[i].to)
        /\ h[i].from = IF i = 1 THEN "pending" ELSE h[i - 1].to
  BY DEF IsWalk
<1>6. g # <<>>
  BY <1>1
<1> HIDE DEF g, n
<1>7. ASSUME NEW i \in 1..Len(g)
      PROVE  /\ IsLegalTaskTransition(g[i].from, g[i].to)
             /\ g[i].from = IF i = 1 THEN "pending" ELSE g[i - 1].to
  <2>1. CASE i = n + 1
    <3>1. n > 0 => n \in 1..n
      BY <1>1
    <3>2. i - 1 = n
      BY <1>1, <2>1
    <3>. QED  BY <1>1, <1>4, <2>1, <3>1, <3>2
  <2>2. CASE i \in 1..n
    <3>1. i # 1 => i - 1 \in 1..n
      BY <1>1, <2>2
    <3>. QED  BY <1>1, <1>5, <2>2, <3>1
  <2>. QED  BY <1>1, <2>1, <2>2
<1>8. g[Len(g)].to = e.to
  BY <1>1
<1>. QED  BY <1>6, <1>7, <1>8 DEF IsWalk, g

\* The history of every task is a walk: see LongerWalk for the one action
\* that extends it.
THEOREM HistoryWalks == Spec => []HistoryIsWalk
<1>1. Init => HistoryIsWalk
  <2>1. Len(<<>>) = 0 /\ 1..0 = {}
    OBVIOUS
  <2>. QED  BY <2>1 DEF Init, HistoryIsWalk, IsWalk
<1>2. TypeOK /\ HistoryIsWalk /\ [Next]_vars => HistoryIsWalk'
  <2> SUFFICES ASSUME TypeOK, HistoryIsWalk, [Next]_vars PROVE HistoryIsWalk'
    OBVIOUS
  <2>0. \A x \in Tasks : history[x] \in Seq(HistoryEntry) /\ IsWalk(history[x], status[x])
    BY DEF TypeOK, HistoryIsWalk
  <2>1. ASSUME NEW t \in Tasks, CreateTask(t) PROVE HistoryIsWalk'
    <3>1. history[t] = <<>>
      BY <2>0, <2>1, AbsentHasNoHistory DEF CreateTask
    <3>2. history' = history /\ \A x \in Tasks \ {t} : status'[x] = status[x]
      BY <2>1 DEF CreateTask, TypeOK
    <3>3. status'[t] = "pending"
      BY <2>1 DEF CreateTask, TypeOK
    <3>4. IsWalk(history'[t], status'[t])
      <4>1. Len(<<>>) = 0 /\ 1..0 = {}
        OBVIOUS
      <4>. QED  BY <3>1, <3>2, <3>3, <4>1 DEF IsWalk
    <3>. QED  BY <2>0, <3>2, <3>4 DEF HistoryIsWalk
  <2>2. ASSUME NEW t \in Tasks, NEW to \in TaskStatus, TransitionStatus(t, to)
        PROVE  HistoryIsWalk'
    <3> DEFINE e == [from |-> status[t], to |-> to]
    <3>1. /\ status[t] \in TaskStatus /\ status[t] # Absent
          /\ IsLegalTaskTransition(status[t], to)
      BY <2>2 DEF TransitionStatus, TypeOK, Existing
    <3>2. e \in HistoryEntry /\ e.from = status[t] /\ e.to = to
      BY <3>1 DEF HistoryEntry
    <3>3. history' = [history EXCEPT ![t] = Append(history[t], e)]
      BY <2>2 DEF TransitionStatus
    <3>4. status' = [status EXCEPT ![t] = to]
      BY <2>2 DEF TransitionStatus
    <3> HIDE DEF e
    <3>5. IsWalk(Append(history[t], e), to)
      BY <2>0, <3>1, <3>2, LongerWalk
    <3>6. history'[t] = Append(history[t], e) /\ status'[t] = to
      BY <3>3, <3>4 DEF TypeOK
    <3>7. \A x \in Tasks \ {t} : history'[x] = history[x] /\ status'[x] = status[x]
      BY <3>3, <3>4 DEF TypeOK
    <3>. QED  BY <2>0, <3>5, <3>6, <3>7 DEF HistoryIsWalk
  <2>3. CASE UNCHANGED <<status, history>>
    BY <2>0, <2>3 DEF HistoryIsWalk
  <2>. QED
    BY <2>1, <2>2, <2>3 DEF Next, AddDependency, RemoveDependency, vars
<1>. QED  BY <1>1, <1>2, TypeCorrect, PTL DEF Spec

\* Only approved leads to merged, only awaiting_approval to approved, and so
\* on: a walk that reaches merged has passed both gates.
THEOREM GatesPassed == Spec => []TwoGates
<1>1. TypeOK /\ HistoryIsWalk => TwoGates
  <2> SUFFICES ASSUME TypeOK, HistoryIsWalk,
                      NEW t \in Tasks, NEW i \in 1..Len(history[t]),
                      history[t][i].to = "merged"
               PROVE  /\ i >= 6
                      /\ history[t][i - 1].to = "approved"
                      /\ history[t][i - 2].to = "awaiting_approval"
                      /\ history[t][i - 3].to = "evaluating"
                      /\ history[t][i - 4].to = "running"
    BY DEF TwoGates
  <2> DEFINE h == history[t]
             n == Len(h)
             OnlyFrom(to, from) == \A x : <<x, to>> \in TaskTransitions => x = from
  <2>1. n \in Nat
    BY DEF TypeOK
  <2>2. \A j \in 1..n :
          /\ <<h[j].from, h[j].to>> \in TaskTransitions
          /\ j = 1 => h[j].from = "pending"
          /\ j # 1 => h[j].from = h[j - 1].to
    BY DEF HistoryIsWalk, IsWalk, IsLegalTaskTransition
  <2> HIDE DEF h, n, OnlyFrom
  <2>3. ASSUME NEW j \in 1..n, NEW from, NEW to, h[j].to = to, from # "pending",
               OnlyFrom(to, from)
        PROVE  j > 1 /\ j - 1 \in 1..n /\ h[j - 1].to = from
    <3>1. <<h[j].from, to>> \in TaskTransitions
      BY <2>2, <2>3
    <3>2. h[j].from = from
      BY <2>3, <3>1 DEF OnlyFrom
    <3>3. j # 1
      BY <2>2, <2>3, <3>2
    <3>4. j > 1 /\ j - 1 \in 1..n
      BY <2>1, <3>3
    <3>. QED  BY <2>2, <3>2, <3>3, <3>4
  <2>4. /\ OnlyFrom("merged", "approved")
        /\ OnlyFrom("approved", "awaiting_approval")
        /\ OnlyFrom("awaiting_approval", "evaluating")
        /\ OnlyFrom("evaluating", "running")
        /\ OnlyFrom("running", "ready")
    BY DEF OnlyFrom, TaskTransitions
  <2>5. i \in 1..n /\ h[i].to = "merged"
    BY DEF h, n
  <2>6. i - 1 \in 1..n /\ h[i - 1].to = "approved"
    BY <2>3, <2>4, <2>5
  <2>7. i - 2 \in 1..n /\ h[i - 2].to = "awaiting_approval"
    <3>1. i - 1 - 1 = i - 2
      BY <2>1
    <3>. QED  BY <2>3, <2>4, <2>6, <3>1
  <2>8. i - 3 \in 1..n /\ h[i - 3].to = "evaluating"
    <3>1. i - 2 - 1 = i - 3
      BY <2>1
    <3>. QED  BY <2>3, <2>4, <2>7, <3>1
  <2>9. i - 4 \in 1..n /\ h[i - 4].to = "running"
    <3>1. i - 3 - 1 = i - 4
      BY <2>1
    <3>. QED  BY <2>3, <2>4, <2>8, <3>1
  <2>10. i - 4 > 1
    BY <2>3, <2>4, <2>9
  <2>. QED  BY <2>1, <2>6, <2>7, <2>8, <2>9, <2>10 DEF h
<1>. QED  BY <1>1, TypeCorrect, HistoryWalks, PTL

\* No action touches a terminal status or an entry already written.
THEOREM HistoryGrows == Spec => HistoryOnlyGrows
<1> DEFINE Grows ==
      \A t \in Tasks :
        /\ status[t] \in TerminalStatus => status'[t] = status[t]
        /\ Len(history'[t]) >= Len(history[t])
        /\ \A i \in 1..Len(history[t]) : history'[t][i] = history[t][i]
<1>1. TypeOK /\ [Next]_vars => [Grows]_vars
  <2> SUFFICES ASSUME TypeOK, Next PROVE Grows
    OBVIOUS
  <2>1. \A t \in Tasks : Len(history[t]) \in Nat
    BY DEF TypeOK
  <2>2. ASSUME NEW t \in Tasks, CreateTask(t) PROVE Grows
    BY <2>1, <2>2 DEF CreateTask, TypeOK, TerminalStatus, Absent
  <2>3. ASSUME NEW t \in Tasks, NEW to \in TaskStatus, TransitionStatus(t, to)
        PROVE  Grows
    <3> DEFINE e == [from |-> status[t], to |-> to]
    <3>1. status[t] \in TaskStatus /\ status[t] \notin TerminalStatus
      BY <2>3 DEF TransitionStatus, TypeOK, Existing, IsLegalTaskTransition,
                  TaskTransitions, TerminalStatus
    <3>2. history[t] \in Seq(HistoryEntry) /\ e \in HistoryEntry
      BY <3>1 DEF TypeOK, HistoryEntry
    <3>3. history' = [history EXCEPT ![t] = Append(history[t], e)]
      BY <2>3 DEF TransitionStatus
    <3> HIDE DEF e
    <3>4. history'[t] = Append(history[t], e)
      BY <3>3 DEF TypeOK
    <3>5. /\ Len(history'[t]) = Len(history[t]) + 1
          /\ \A i \in 1..Len(history[t]) : history'[t][i] = history[t][i]
      BY <3>2, <3>4, AppendEntry
    <3>6. \A x \in Tasks \ {t} : history'[x] = history[x] /\ status'[x] = status[x]
      BY <2>3, <3>3 DEF TransitionStatus, TypeOK
    <3>. QED  BY <2>1, <3>1, <3>5, <3>6
  <2>4. CASE UNCHANGED <<status, history>>
    BY <2>1, <2>4
  <2>. QED
    BY <2>2, <2>3, <2>4 DEF Next, AddDependency, RemoveDependency
<1>. QED  BY <1>1, TypeCorrect, PTL DEF Spec, HistoryOnlyGrows

\* The blockers of a started task stay merged, because merged is terminal.
THEOREM GateStays == Spec => []GateHeld
<1>1. Init => GateHeld
  BY DEF Init, GateHeld
<1>2. TypeOK /\ GateHeld /\ [Next]_vars => GateHeld'
  <2> SUFFICES ASSUME TypeOK, GateHeld, [Next]_vars PROVE GateHeld'
    OBVIOUS
  <2>1. ASSUME NEW t \in Tasks, CreateTask(t) PROVE GateHeld'
    BY <2>1 DEF CreateTask, GateHeld, TypeOK, Absent
  <2>2. ASSUME NEW t \in Tasks, NEW to \in TaskStatus, TransitionStatus(t, to)
        PROVE  GateHeld'
    <3>1. status[t] # "merged"
      BY <2>2 DEF TransitionStatus, IsLegalTaskTransition, TaskTransitions
    <3>2. \A d \in Tasks : status[d] = "merged" => status'[d] = "merged"
      BY <2>2, <3>1 DEF TransitionStatus, TypeOK
    <3>3. to = "running" => \A d \in Blockers(t) : status[d] = "merged"
      BY <2>2 DEF TransitionStatus, RequiresDependenciesSatisfied, DependenciesSatisfied
    <3>4. Blockers(t) \subseteq Tasks
      BY DEF Blockers, TypeOK, Dependency
    <3>5. \A x \in Tasks : gate'[x] = gate[x] \/ (x = t /\ to = "running" /\ gate'[x] = Blockers(t))
      BY <2>2 DEF TransitionStatus, TypeOK
    <3>. QED  BY <3>2, <3>3, <3>4, <3>5 DEF GateHeld, TypeOK
  <2>3. CASE UNCHANGED <<status, gate>>
    BY <2>3 DEF GateHeld
  <2>. QED
    BY <2>1, <2>2, <2>3 DEF Next, AddDependency, RemoveDependency, vars
<1>. QED  BY <1>1, <1>2, TypeCorrect, PTL DEF Spec

==============================================================================
