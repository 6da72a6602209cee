--------------------------- MODULE TaskGraphProofs ---------------------------
(***************************************************************************)
(* What the dependency graph keeps when edges come and go.                 *)
(***************************************************************************)
EXTENDS TaskGraph, TLAPS

\* Taking edges away cannot close a cycle (remove_dependency).
LEMMA FewerEdgesAcyclic ==
  ASSUME NEW E, NEW F, F \subseteq E, Acyclic(E)
  PROVE  Acyclic(F)
<1> SUFFICES ASSUME NEW U \in (SUBSET Tasks) \ {{}}
             PROVE  \E t \in U : DependsOn(F, t) \cap U = {}
  BY DEF Acyclic
<1>1. PICK t \in U : DependsOn(E, t) \cap U = {}
  BY DEF Acyclic
<1>2. DependsOn(F, t) \subseteq DependsOn(E, t)
  BY DEF DependsOn
<1>. QED  BY <1>1, <1>2

\* A task that d does not lead to may depend on d: the set R that separates
\* them is a group no member of which waits for t (add_dependency after
\* _would_create_cycle has answered False).
LEMMA NewEdgeAcyclic ==
  ASSUME NEW E, NEW t \in Tasks, NEW d \in Tasks,
         Acyclic(E), ~ LeadsTo(E, d, t)
  PROVE  Acyclic(E \cup {<<t, d>>})
<1> DEFINE F == E \cup {<<t, d>>}
<1> SUFFICES ASSUME NEW U \in (SUBSET Tasks) \ {{}}
             PROVE  \E x \in U : DependsOn(F, x) \cap U = {}
  BY DEF Acyclic
<1>1. PICK R \in SUBSET Tasks : d \in R /\ Closed(E, R) /\ t \notin R
  BY DEF LeadsTo
<1>2. \A x \in Tasks : x # t => DependsOn(F, x) = DependsOn(E, x)
  BY DEF DependsOn
<1>3. DependsOn(F, t) \subseteq DependsOn(E, t) \cup {d}
  BY DEF DependsOn
<1>4. CASE U \cap R # {}
  <2>1. PICK x \in U \cap R : DependsOn(E, x) \cap (U \cap R) = {}
    BY <1>4 DEF Acyclic
  <2>2. DependsOn(E, x) \subseteq R /\ x # t
    BY <1>1, <2>1 DEF Closed
  <2>. QED  BY <1>2, <2>1, <2>2
<1>5. CASE U \cap R = {}
  <2>1. PICK x \in U : DependsOn(E, x) \cap U = {}
    BY DEF Acyclic
  <2>2. d \notin U
    BY <1>1, <1>5
  <2>. QED  BY <1>2, <1>3, <2>1, <2>2
<1>. QED  BY <1>4, <1>5

\* A graph without edges has no cycle.
LEMMA NoEdgesAcyclic == Acyclic({})
  BY DEF Acyclic, DependsOn

==============================================================================
