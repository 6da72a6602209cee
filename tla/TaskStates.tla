----------------------------- MODULE TaskStates ------------------------------
(***************************************************************************)
(* The state machine of a task: its statuses and the moves between them.   *)
(* Nothing here has state; TaskMemory and RunSessions build on it.         *)
(***************************************************************************)

TaskStatus == {"pending", "ready", "running", "blocked", "evaluating",
               "awaiting_approval", "approved", "rejected", "merged",
               "failed", "cancelled"}

\* Faulty variants.  Each gives the definition that follows it the slip its
\* name tells; no specification uses them.  They show what a property of the
\* models rules out: with the variant in place the property fails.
TaskTransitionsSkippingApproval ==
  ({"pending"}           \X {"ready", "blocked", "cancelled"}) \cup
  ({"blocked"}           \X {"ready", "cancelled"}) \cup
  ({"ready"}             \X {"running", "blocked", "cancelled"}) \cup
  ({"running"}           \X {"evaluating", "failed", "cancelled"}) \cup
  ({"evaluating"}        \X {"awaiting_approval", "approved", "failed"}) \cup
  ({"approved"}          \X {"merged"})

TaskTransitionsReopening ==
  ({"pending"}           \X {"ready", "blocked", "cancelled"}) \cup
  ({"cancelled"}         \X {"ready"})

TaskTransitions ==
  ({"pending"}           \X {"ready", "blocked", "cancelled"}) \cup
  ({"blocked"}           \X {"ready", "cancelled"}) \cup
  ({"ready"}             \X {"running", "blocked", "cancelled"}) \cup
  ({"running"}           \X {"evaluating", "failed", "cancelled"}) \cup
  ({"evaluating"}        \X {"awaiting_approval", "failed", "cancelled"}) \cup
  ({"awaiting_approval"} \X {"approved", "rejected"}) \cup
  ({"approved"}          \X {"merged"}) \cup
  ({"rejected"}          \X {"ready", "cancelled"}) \cup
  ({"failed"}            \X {"ready", "cancelled"})

IsLegalTaskTransition(current, target) == <<current, target>> \in TaskTransitions

\* The statuses the code calls terminal: no move leaves them.
TerminalStatus == {"merged", "cancelled"}

RequiresDependenciesSatisfied(target) == target = "running"

==============================================================================
