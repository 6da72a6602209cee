----------------------- MODULE DependencyWritesProofs ------------------------
(***************************************************************************)
(* What add_dependency keeps for any set of tasks and any number of        *)
(* concurrent requests.                                                    *)
(***************************************************************************)
EXTENDS DependencyWrites, TaskGraphProofs, TLAPS

\* An edge is a pair of tasks, and its ends are tasks.
LEMMA EndsOfAnEdge ==
  ASSUME NEW e \in Pairs
  PROVE  e[1] \in Tasks /\ e[2] \in Tasks /\ e = <<e[1], e[2]>>
  BY DEF Pairs

\* Every action keeps the variables in their types.
THEOREM TypeCorrect == Spec => []TypeOK
<1>1. Init => TypeOK
  BY DEF Init, TypeOK, Step
<1>2. TypeOK /\ [Next]_vars => TypeOK'
  <2> SUFFICES ASSUME TypeOK, [Next]_vars PROVE TypeOK'
    OBVIOUS
  <2>0. ASSUME NEW s \in Sessions, Rollback(s) PROVE TypeOK'
    BY <2>0 DEF Rollback, TypeOK, Step, Goto, Forget
  <2>1. ASSUME NEW s \in Sessions, NEW e \in Pairs, BeginAdd(s, e) PROVE TypeOK'
    BY <2>1 DEF BeginAdd, TypeOK, Step, Goto
  <2>2. ASSUME NEW s \in Sessions, CheckExists(s) PROVE TypeOK'
    <3>1. CASE ~ Rollback(s)
      <4>1. /\ pc' = [pc EXCEPT ![s] = "search"]
            /\ frontier' = [frontier EXCEPT ![s] = {req[s][2]}]
            /\ visited' = [visited EXCEPT ![s] = {}]
            /\ UNCHANGED <<edges, req, stale, raced>>
        BY <2>2, <3>1 DEF CheckExists, Goto
      <4>2. req[s] \in Pairs
        BY <2>2 DEF CheckExists, TypeOK
      <4>3. req[s][2] \in Tasks
        BY <4>2, EndsOfAnEdge
      <4>. QED  BY <4>1, <4>2, <4>3 DEF TypeOK, Step
    <3>. QED  BY <2>0, <3>1
  <2>3. ASSUME NEW s \in Sessions, NEW c \in Tasks, Visit(s, c) PROVE TypeOK'
    <3>1. CASE ~ Rollback(s)
      <4>1. DependsOn(edges, c) \subseteq Tasks
        BY DEF DependsOn
      <4>2. /\ UNCHANGED <<edges, pc, req, stale, raced>>
            /\ \/ visited' = [visited EXCEPT ![s] = @ \cup {c}]
               \/ visited' = visited
            /\ \/ frontier' = [frontier EXCEPT ![s] = @ \ {c}]
               \/ frontier' = [frontier EXCEPT ![s] = (@ \ {c}) \cup DependsOn(edges, c)]
        BY <2>3, <3>1 DEF Visit
      <4>3. visited' \in [Sessions -> SUBSET Tasks]
        BY <4>2 DEF TypeOK
      <4>4. frontier' \in [Sessions -> SUBSET Tasks]
        BY <4>1, <4>2 DEF TypeOK
      <4>. QED  BY <4>2, <4>3, <4>4 DEF TypeOK
    <3>. QED  BY <2>0, <3>1
  <2>4. ASSUME NEW s \in Sessions, EndSearch(s) PROVE TypeOK'
    BY <2>4 DEF EndSearch, TypeOK, Step, Goto
  <2>5. ASSUME NEW s \in Sessions, Insert(s) PROVE TypeOK'
    <3>1. CASE ~ Rollback(s)
      BY <2>5, <3>1 DEF Insert, TypeOK, Step, Goto
    <3>. QED  BY <2>0, <3>1
  <2>6. ASSUME NEW s \in Sessions, CommitAdd(s) PROVE TypeOK'
    <3>1. stale' \in [Sessions -> BOOLEAN] /\ raced' \in BOOLEAN
      BY <2>6 DEF CommitAdd, TypeOK
    <3>2. edges' \in SUBSET Pairs
      BY <2>6 DEF CommitAdd, TypeOK
    <3>. QED  BY <2>6, <3>1, <3>2 DEF CommitAdd, TypeOK, Step, Goto, Forget
  <2>7. ASSUME NEW s \in Sessions, NEW e \in Pairs, Remove(s, e) PROVE TypeOK'
    BY <2>7 DEF Remove, TypeOK, Step, Goto
  <2>8. ASSUME NEW s \in Sessions, CommitRemove(s) PROVE TypeOK'
    BY <2>8 DEF CommitRemove, TypeOK, Step, Goto, Forget
  <2>9. CASE UNCHANGED vars
    BY <2>9 DEF vars, TypeOK
  <2>. QED
    BY <2>0, <2>1, <2>2, <2>3, <2>4, <2>5, <2>6, <2>7, <2>8, <2>9 DEF Next, Search
<1>. QED  BY <1>1, <1>2, PTL DEF Spec

\* Removing edges opens no new way from a task to another.
LEMMA FewerEdgesLeadNowhere ==
  ASSUME NEW E, NEW F, F \subseteq E, NEW d, NEW t, ~ LeadsTo(E, d, t)
  PROVE  ~ LeadsTo(F, d, t)
<1>1. PICK S \in SUBSET Tasks : d \in S /\ Closed(E, S) /\ t \notin S
  BY DEF LeadsTo
<1>2. Closed(F, S)
  BY <1>1 DEF Closed, DependsOn
<1>. QED  BY <1>1, <1>2 DEF LeadsTo

\* The loop invariant of the search, kept by every step of every session: a
\* commit of an add makes the open adds stale, and all else only removes.
THEOREM SearchIsSound == Spec => []SearchSound
<1> DEFINE Sound(s) ==
      ~ stale[s] =>
        /\ pc[s] = "search" =>
             /\ req[s] \notin edges
             /\ req[s][1] \notin visited[s]
             /\ req[s][2] \in visited[s] \cup frontier[s]
             /\ \A v \in visited[s] :
                  DependsOn(edges, v) \subseteq visited[s] \cup frontier[s]
        /\ pc[s] \in {"insert", "inserted"} =>
             /\ req[s] \notin edges
             /\ ~ LeadsTo(edges, req[s][2], req[s][1])
<1>0. SearchSound <=> \A s \in Sessions : Sound(s)
  BY DEF SearchSound
<1>1. Init => SearchSound
  BY DEF Init, SearchSound
<1>2. TypeOK /\ SearchSound /\ [Next]_vars => SearchSound'
  <2> SUFFICES ASSUME TypeOK, SearchSound, [Next]_vars, NEW o \in Sessions
               PROVE  Sound(o)'
    BY DEF SearchSound
  <2>0. Sound(o)
    BY <1>0
  \* A session other than o, of which only the graph and staleness matter.
  <2>1. ASSUME UNCHANGED <<pc[o], req[o], visited[o], frontier[o], stale[o]>>,
               edges' \subseteq edges
        PROVE  Sound(o)'
    <3>1. ASSUME pc[o] \in {"insert", "inserted"}, ~ stale[o]
          PROVE  ~ LeadsTo(edges', req[o][2], req[o][1])
      BY <2>0, <2>1, <3>1, FewerEdgesLeadNowhere
    <3>2. \A v : DependsOn(edges', v) \subseteq DependsOn(edges, v)
      BY <2>1 DEF DependsOn
    <3>. QED  BY <2>0, <2>1, <3>1, <3>2
  <2>2. ASSUME pc'[o] \notin {"search", "insert", "inserted"} PROVE Sound(o)'
    BY <2>2
  <2>3. ASSUME NEW s \in Sessions, Rollback(s) PROVE Sound(o)'
    <3>1. CASE o = s
      BY <2>2, <2>3, <3>1 DEF Rollback, Forget, Goto, TypeOK
    <3>2. CASE o # s
      BY <2>1, <2>3, <3>2 DEF Rollback, Forget, Goto, TypeOK
    <3>. QED  BY <3>1, <3>2
  <2>4. ASSUME NEW s \in Sessions, NEW e \in Pairs, BeginAdd(s, e) PROVE Sound(o)'
    <3>1. CASE o = s
      BY <2>2, <2>4, <3>1 DEF BeginAdd, Goto, TypeOK
    <3>2. CASE o # s
      BY <2>1, <2>4, <3>2 DEF BeginAdd, Goto, TypeOK
    <3>. QED  BY <3>1, <3>2
  <2>5. ASSUME NEW s \in Sessions, CheckExists(s) PROVE Sound(o)'
    <3> SUFFICES ASSUME ~ Rollback(s) PROVE Sound(o)'
      BY <2>3
    <3>1. CASE o = s
      BY <2>5, <3>1 DEF CheckExists, Goto, TypeOK
    <3>2. CASE o # s
      BY <2>1, <2>5, <3>2 DEF CheckExists, Goto, TypeOK
    <3>. QED  BY <3>1, <3>2
  <2>6. ASSUME NEW s \in Sessions, NEW c \in Tasks, Visit(s, c) PROVE Sound(o)'
    <3> SUFFICES ASSUME ~ Rollback(s) PROVE Sound(o)'
      BY <2>3
    <3>1. CASE o = s
      <4>1. /\ pc[o] = "search" /\ c \in frontier[o] /\ c # req[o][1]
            /\ UNCHANGED <<edges, pc, req, stale>>
        BY <2>6, <3>1 DEF Visit
      <4>2. CASE c \in visited[o]
        <5>1. visited'[o] = visited[o] /\ frontier'[o] = frontier[o] \ {c}
          BY <2>6, <3>1, <4>2 DEF Visit, TypeOK
        <5>. QED  BY <2>0, <4>1, <4>2, <5>1
      <4>3. CASE c \notin visited[o]
        <5>1. /\ visited'[o] = visited[o] \cup {c}
              /\ frontier'[o] = (frontier[o] \ {c}) \cup DependsOn(edges, c)
          BY <2>6, <3>1, <4>3 DEF Visit, TypeOK
        <5>. QED  BY <2>0, <4>1, <5>1
      <4>. QED  BY <4>2, <4>3
    <3>2. CASE o # s
      BY <2>1, <2>6, <3>2 DEF Visit, TypeOK
    <3>. QED  BY <3>1, <3>2
  <2>7. ASSUME NEW s \in Sessions, EndSearch(s) PROVE Sound(o)'
    <3>1. CASE o = s
      <4>1. /\ pc[o] = "search" /\ frontier[o] = {}
            /\ pc'[o] = "insert"
            /\ UNCHANGED <<edges, req, stale>>
        BY <2>7, <3>1 DEF EndSearch, Goto, TypeOK
      <4>2. ASSUME ~ stale[o] PROVE ~ LeadsTo(edges, req[o][2], req[o][1])
        <5>1. visited[o] \in SUBSET Tasks
          BY DEF TypeOK
        <5>2. Closed(edges, visited[o])
          BY <2>0, <4>1, <4>2 DEF Closed
        <5>. QED  BY <2>0, <4>1, <4>2, <5>1, <5>2 DEF LeadsTo
      <4>. QED  BY <2>0, <4>1, <4>2
    <3>2. CASE o # s
      BY <2>1, <2>7, <3>2 DEF EndSearch, Goto, TypeOK
    <3>. QED  BY <3>1, <3>2
  <2>8. ASSUME NEW s \in Sessions, Insert(s) PROVE Sound(o)'
    <3> SUFFICES ASSUME ~ Rollback(s) PROVE Sound(o)'
      BY <2>3
    <3>1. CASE o = s
      BY <2>0, <2>8, <3>1 DEF Insert, Goto, TypeOK
    <3>2. CASE o # s
      BY <2>1, <2>8, <3>2 DEF Insert, Goto, TypeOK
    <3>. QED  BY <3>1, <3>2
  <2>9. ASSUME NEW s \in Sessions, CommitAdd(s) PROVE Sound(o)'
    <3>1. CASE pc[o] \in Adding /\ o # s
      BY <2>9, <3>1 DEF CommitAdd
    <3>2. CASE ~ (pc[o] \in Adding /\ o # s)
      BY <2>2, <2>9, <3>2 DEF CommitAdd, Forget, Goto, TypeOK, Adding
    <3>. QED  BY <3>1, <3>2
  <2>10. ASSUME NEW s \in Sessions, NEW e \in Pairs, Remove(s, e) PROVE Sound(o)'
    <3>1. CASE o = s
      BY <2>2, <2>10, <3>1 DEF Remove, Goto, TypeOK
    <3>2. CASE o # s
      BY <2>1, <2>10, <3>2 DEF Remove, Goto, TypeOK
    <3>. QED  BY <3>1, <3>2
  <2>11. ASSUME NEW s \in Sessions, CommitRemove(s) PROVE Sound(o)'
    <3>1. CASE o = s
      BY <2>2, <2>11, <3>1 DEF CommitRemove, Forget, Goto, TypeOK
    <3>2. CASE o # s
      BY <2>1, <2>11, <3>2 DEF CommitRemove, Forget, Goto, TypeOK
    <3>. QED  BY <3>1, <3>2
  <2>12. CASE UNCHANGED vars
    BY <2>1, <2>12 DEF vars
  <2> HIDE DEF Sound
  <2>. QED
    BY <2>3, <2>4, <2>5, <2>6, <2>7, <2>8, <2>9, <2>10, <2>11, <2>12
    DEF Next, Search
<1>. QED  BY <1>1, <1>2, TypeCorrect, PTL DEF Spec

\* An add that commits without having been overtaken closes no cycle.
LEMMA CommitKeepsAcyclic ==
  ASSUME TypeOK, SearchSound, NEW s \in Sessions, CommitAdd(s), ~ stale[s],
         Acyclic(edges)
  PROVE  Acyclic(edges')
<1>1. req[s] \in Pairs
  BY DEF CommitAdd, TypeOK
<1>2. /\ req[s][1] \in Tasks /\ req[s][2] \in Tasks
      /\ edges' = edges \cup {<<req[s][1], req[s][2]>>}
  BY <1>1, EndsOfAnEdge DEF CommitAdd
<1>3. ~ LeadsTo(edges, req[s][2], req[s][1])
  BY DEF CommitAdd, SearchSound
<1>. QED  BY <1>2, <1>3, NewEdgeAcyclic

\* The graph has no cycle as long as no add has overtaken another one: the
\* race is the only way to break the documented invariant.
THEOREM OnlyRacesMakeCycles == Spec => []CycleNeedsRace
<1>1. Init => CycleNeedsRace
  BY NoEdgesAcyclic DEF Init, CycleNeedsRace
<1>2. TypeOK /\ SearchSound /\ CycleNeedsRace /\ [Next]_vars => CycleNeedsRace'
  <2> SUFFICES ASSUME TypeOK, SearchSound, Acyclic(edges), ~ raced',
                      [Next]_vars, ~ raced
               PROVE  Acyclic(edges')
    <3>1. [Next]_vars /\ raced => raced'
      BY DEF Next, vars, BeginAdd, CheckExists, Search, Visit, EndSearch, Insert,
             Rollback, CommitAdd, Remove, CommitRemove
    <3>. QED  BY <3>1 DEF CycleNeedsRace
  <2>1. ASSUME NEW s \in Sessions, CommitAdd(s) PROVE Acyclic(edges')
    <3>1. ~ stale[s]
      BY <2>1 DEF CommitAdd
    <3>. QED  BY <2>1, <3>1, CommitKeepsAcyclic
  <2>2. CASE edges' \subseteq edges
    BY <2>2, FewerEdgesAcyclic
  <2>. QED
    BY <2>1, <2>2
    DEF Next, vars, BeginAdd, CheckExists, Search, Visit, EndSearch, Insert,
        Rollback, Remove, CommitRemove
<1>. QED  BY <1>1, <1>2, TypeCorrect, SearchIsSound, PTL DEF Spec

\* An add that no other one overtook is, at its commit, the atomic operation.
THEOREM AddsAreAtomic == Spec => AddsAsIfAlone
<1>1. SearchSound => \A s \in Sessions :
        pc[s] = "inserted" /\ edges' = edges \cup {req[s]} /\ ~ stale[s]
          => req[s] \notin edges /\ ~ LeadsTo(edges, req[s][2], req[s][1])
  BY DEF SearchSound
<1>. QED  BY <1>1, SearchIsSound, PTL DEF AddsAsIfAlone

==============================================================================
